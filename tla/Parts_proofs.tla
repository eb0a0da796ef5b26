---------------------------- MODULE Parts_proofs ----------------------------
(***************************************************************************)
(* Proofs about four parts that stand alone, for all values of their       *)
(* constants.  The abstract message queue: it stays within its slots,      *)
(* keeps posting order and, when it is a task's own queue, holds no        *)
(* message of a destroyed window.  The object table: while the number of   *)
(* objects stays within Fits, handles and objects correspond one to one.   *)
(* The atom table, for any strings, numbers, hash function and size:       *)
(* types, HeldAtomsKept and RefsCounted.  The clipboard, for any number of *)
(* programs and formats and both builds of the driver: types, NeverStuck,  *)
(* OpenIsExclusive and ReadsItsOwn.                                        *)
(***************************************************************************)
EXTENDS MsgQueue, HandleTable, AtomTable, Clipboard, FiniteSetTheorems, SequenceTheorems, Lemmas

-----------------------------------------------------------------------------
(* The message queue. *)

(* What Without returns: a sequence one shorter, whose elements are those of *)
(* the argument at increasing places.                                        *)
LEMMA WithoutSeq ==
    ASSUME NEW S, NEW s \in Seq(S), NEW i \in 1..Len(s)
    PROVE  /\ Without(s, i) \in Seq(S)
           /\ Len(Without(s, i)) = Len(s) - 1
           /\ \A j \in 1..(Len(s) - 1) :
                 Without(s, i)[j] = IF j < i THEN s[j] ELSE s[j + 1]
<1>1. Len(s) - 1 \in Nat
  OBVIOUS
<1>2. \A j \in 1..(Len(s) - 1) : (IF j < i THEN s[j] ELSE s[j + 1]) \in S
  OBVIOUS
<1> QED
  BY <1>1, <1>2 DEF Without

(* The fields of a message have their types. *)
LEMMA MsgFields ==
    ASSUME NEW m \in Msg
    PROVE  m.id \in Nat /\ m.id \in 0..MaxPosted /\ m.front \in BOOLEAN
BY DefsAssumption DEF Msg

(* Taking one message out of the queue keeps the invariant. *)
LEMMA RemoveKeepsInv ==
    ASSUME Inv, NEW i \in 1..Len(queue), queue' = Without(queue, i),
           got' \in {<<>>} \cup (Calls \X (0..MaxPosted)),
           UNCHANGED <<size, posted, window, disabled>>
    PROVE  Inv'
<1> USE DEF Inv
<1>1. /\ queue \in Seq(Msg)
      /\ size \in Nat
      /\ posted \in Nat
  BY DefsAssumption DEF TypeOK
<1>2. /\ queue' \in Seq(Msg)
      /\ Len(queue') = Len(queue) - 1
      /\ \A j \in 1..(Len(queue) - 1) :
            queue'[j] = IF j < i THEN queue[j] ELSE queue[j + 1]
  BY <1>1, WithoutSeq
<1>3. TypeOK'
  BY <1>2 DEF TypeOK
<1>4. Bounded'
  BY <1>1, <1>2 DEF Bounded
<1>5. Ordered'
  <2>1. SUFFICES ASSUME NEW a \in 1..Len(queue'), NEW b \in 1..Len(queue'), a < b
                 PROVE  \/ ~queue'[a].front /\ ~queue'[b].front /\ queue'[a].id < queue'[b].id
                        \/ queue'[a].front /\ queue'[b].front /\ queue'[a].id > queue'[b].id
                        \/ queue'[a].front /\ ~queue'[b].front
    BY DEF Ordered
  <2>2. PICK c \in 1..Len(queue), d \in 1..Len(queue) :
           c < d /\ queue'[a] = queue[c] /\ queue'[b] = queue[d]
    <3>1. CASE b < i
      BY <1>1, <1>2, <2>1, <3>1
    <3>2. CASE ~(b < i) /\ a < i
      <4>1. a \in 1..Len(queue) /\ b + 1 \in 1..Len(queue) /\ a < b + 1
        BY <1>1, <1>2, <2>1
      <4>2. queue'[a] = queue[a] /\ queue'[b] = queue[b + 1]
        BY <1>1, <1>2, <3>2
      <4> QED
        BY <4>1, <4>2
    <3>3. CASE ~(b < i) /\ ~(a < i)
      BY <1>1, <1>2, <2>1, <3>3
    <3> QED
      BY <3>1, <3>2, <3>3
  <2> QED
    BY <2>2 DEF Ordered
<1>6. IdsUsed'
  BY <1>1, <1>2 DEF IdsUsed
<1>7. NoOrphan'
  BY <1>1, <1>2 DEF NoOrphan, Dead
<1> QED
  BY <1>3, <1>4, <1>5, <1>6, <1>7

(* Posting a message keeps the invariant: the new id is larger than all      *)
(* others, so either end of the queue is the right place for it.             *)
LEMMA PostKeepsInv == Inv /\ Post => Inv'
<1> SUFFICES ASSUME Inv, Post PROVE Inv'
  OBVIOUS
<1> USE DEF Inv
<1>1. /\ queue \in Seq(Msg) /\ size \in Nat /\ posted \in 0..MaxPosted /\ MaxPosted \in Nat
      /\ posted' = posted + 1 /\ posted < MaxPosted /\ Len(queue) < size
      /\ size' = size /\ window' = window /\ disabled' = disabled /\ got' = <<>>
  BY DefsAssumption DEF TypeOK, Post
<1>2. PICK m \in Msg :
        /\ m.id = posted + 1
        /\ ~IsSystemQueue => ~Dead(m)
        /\ queue' = IF m.front THEN <<m>> \o queue ELSE Append(queue, m)
  BY DEF Post
<1>3. \A k \in 1..Len(queue) : queue[k] \in Msg /\ queue[k].id <= posted
                               /\ queue[k].id \in Nat
  BY <1>1, MsgFields DEF IdsUsed
<1>4. CASE m.front
  <2>1. /\ queue' = <<m>> \o queue
        /\ queue' \in Seq(Msg)
        /\ Len(queue') = Len(queue) + 1
        /\ queue'[1] = m
        /\ \A k \in 2..Len(queue') : queue'[k] = queue[k - 1] /\ k - 1 \in 1..Len(queue)
    BY <1>1, <1>2, <1>4
  <2>2. TypeOK'
    BY <1>1, <2>1 DEF TypeOK
  <2>3. Bounded'
    BY <1>1, <2>1 DEF Bounded
  <2>4. Ordered'
    <3>1. SUFFICES ASSUME NEW a \in 1..Len(queue'), NEW b \in 1..Len(queue'), a < b
                   PROVE  \/ ~queue'[a].front /\ ~queue'[b].front /\ queue'[a].id < queue'[b].id
                          \/ queue'[a].front /\ queue'[b].front /\ queue'[a].id > queue'[b].id
                          \/ queue'[a].front /\ ~queue'[b].front
      BY DEF Ordered
    <3>2. queue'[b] = queue[b - 1] /\ b - 1 \in 1..Len(queue)
      BY <1>1, <2>1, <3>1
    <3>3. CASE a = 1
      BY <1>1, <1>2, <1>3, <1>4, <2>1, <3>2, <3>3, MsgFields
    <3>4. CASE a > 1
      <4>1. queue'[a] = queue[a - 1] /\ a - 1 \in 1..Len(queue) /\ a - 1 < b - 1
        BY <1>1, <2>1, <3>1, <3>4
      <4> QED
        BY <3>2, <4>1 DEF Ordered
    <3> QED
      BY <3>3, <3>4
  <2>5. IdsUsed'
    <3>1. SUFFICES ASSUME NEW k \in 1..Len(queue') PROVE queue'[k].id <= posted'
      BY DEF IdsUsed
    <3>2. CASE k = 1
      BY <1>1, <1>2, <2>1, <3>2
    <3>3. CASE k # 1
      <4>1. queue'[k] = queue[k - 1] /\ k - 1 \in 1..Len(queue)
        BY <1>1, <2>1, <3>1, <3>3
      <4> QED
        BY <1>1, <1>3, <4>1
    <3> QED
      BY <3>2, <3>3
  <2>6. NoOrphan'
    <3>1. SUFFICES ASSUME ~IsSystemQueue, NEW k \in 1..Len(queue')
                   PROVE  queue'[k].hwnd # NoWnd /\ queue'[k].hwnd \notin window
                          => queue'[k].hwnd \in Part
      BY <1>1 DEF NoOrphan, Dead
    <3>2. queue'[k] = m \/ \E j \in 1..Len(queue) : queue'[k] = queue[j]
      BY <1>1, <2>1
    <3>3. CASE queue'[k] = m
      BY <1>2, <3>1, <3>3 DEF Dead
    <3>4. CASE \E j \in 1..Len(queue) : queue'[k] = queue[j]
      BY <3>1, <3>4 DEF NoOrphan, Dead
    <3> QED
      BY <3>2, <3>3, <3>4
  <2> QED
    BY <2>2, <2>3, <2>4, <2>5, <2>6
<1>5. CASE ~m.front
  <2>1. /\ queue' = Append(queue, m)
        /\ queue' \in Seq(Msg)
        /\ Len(queue') = Len(queue) + 1
        /\ queue'[Len(queue) + 1] = m
        /\ \A k \in 1..Len(queue) : queue'[k] = queue[k]
    BY <1>1, <1>2, <1>5
  <2>2. TypeOK'
    BY <1>1, <2>1 DEF TypeOK
  <2>3. Bounded'
    BY <1>1, <2>1 DEF Bounded
  <2>4. Ordered'
    <3>1. SUFFICES ASSUME NEW a \in 1..Len(queue'), NEW b \in 1..Len(queue'), a < b
                   PROVE  \/ ~queue'[a].front /\ ~queue'[b].front /\ queue'[a].id < queue'[b].id
                          \/ queue'[a].front /\ queue'[b].front /\ queue'[a].id > queue'[b].id
                          \/ queue'[a].front /\ ~queue'[b].front
      BY DEF Ordered
    <3>2. queue'[a] = queue[a] /\ a \in 1..Len(queue)
      BY <1>1, <2>1, <3>1
    <3>3. CASE b = Len(queue) + 1
      BY <1>1, <1>2, <1>3, <1>5, <2>1, <3>2, <3>3, MsgFields
    <3>4. CASE b \in 1..Len(queue)
      BY <2>1, <3>1, <3>2, <3>4 DEF Ordered
    <3> QED
      BY <1>1, <2>1, <3>3, <3>4
  <2>5. IdsUsed'
    BY <1>1, <1>2, <1>3, <2>1 DEF IdsUsed
  <2>6. NoOrphan'
    <3>1. SUFFICES ASSUME ~IsSystemQueue, NEW k \in 1..Len(queue')
                   PROVE  queue'[k].hwnd # NoWnd /\ queue'[k].hwnd \notin window
                          => queue'[k].hwnd \in Part
      BY <1>1 DEF NoOrphan, Dead
    <3>2. queue'[k] = m \/ \E j \in 1..Len(queue) : queue'[k] = queue[j]
      BY <1>1, <2>1
    <3>3. CASE queue'[k] = m
      BY <1>2, <3>1, <3>3 DEF Dead
    <3>4. CASE \E j \in 1..Len(queue) : queue'[k] = queue[j]
      BY <3>1, <3>4 DEF NoOrphan, Dead
    <3> QED
      BY <3>2, <3>3, <3>4
  <2> QED
    BY <2>2, <2>3, <2>4, <2>5, <2>6
<1> QED
  BY <1>4, <1>5

(* Flushing a destroyed window's messages keeps the invariant: what stays is *)
(* a subsequence, and none of it is the window's.                            *)
LEMMA DestroyKeepsInv == Inv /\ Destroy => Inv'
<1> SUFFICES ASSUME Inv, Destroy PROVE Inv'
  OBVIOUS
<1> USE DEF Inv
<1>1. PICK w \in window :
        /\ window' = window \ Tree(w)
        /\ IF IsSystemQueue THEN queue' = queue ELSE Flushed(Tree(w) \ Part)
        /\ got' = <<>> /\ UNCHANGED <<size, posted, disabled>>
  BY DEF Destroy
<1>2. queue \in Seq(Msg) /\ size \in Nat /\ posted \in Nat
  BY DefsAssumption DEF TypeOK
<1>3. CASE IsSystemQueue
  BY <1>1, <1>3 DEF TypeOK, Bounded, Ordered, IdsUsed, NoOrphan
<1>4. CASE ~IsSystemQueue
  <2>n. PICK n \in 0..Len(queue) : \E pos \in [1..n -> 1..Len(queue)] :
          /\ \A i, j \in 1..n : i < j => pos[i] < pos[j]
          /\ \A k \in 1..Len(queue) :
                queue[k].hwnd \notin Tree(w) \ Part <=> \E i \in 1..n : pos[i] = k
          /\ queue' = [i \in 1..n |-> queue[pos[i]]]
    BY <1>1, <1>4 DEF Flushed
  <2>1. PICK pos \in [1..n -> 1..Len(queue)] :
          /\ \A i, j \in 1..n : i < j => pos[i] < pos[j]
          /\ \A k \in 1..Len(queue) :
                queue[k].hwnd \notin Tree(w) \ Part <=> \E i \in 1..n : pos[i] = k
          /\ queue' = [i \in 1..n |-> queue[pos[i]]]
    BY <2>n
  <2>2. /\ n \in Nat /\ n <= Len(queue)
        /\ \A i \in 1..n : pos[i] \in 1..Len(queue) /\ queue[pos[i]] \in Msg
    BY <1>2, <2>1
  <2>3. queue' \in Seq(Msg) /\ Len(queue') = n
    BY <2>1, <2>2
  <2>4. \A i \in 1..n : queue'[i] = queue[pos[i]]
    BY <2>1
  <2>5. TypeOK'
    BY <1>1, <2>3 DEF TypeOK
  <2>6. Bounded'
    BY <1>1, <1>2, <2>2, <2>3 DEF Bounded
  <2>7. Ordered'
    BY <1>2, <2>1, <2>2, <2>3, <2>4 DEF Ordered
  <2>8. IdsUsed'
    BY <1>1, <2>2, <2>3, <2>4 DEF IdsUsed
  <2>9. NoOrphan'
    BY <1>1, <1>4, <2>1, <2>2, <2>3, <2>4 DEF NoOrphan, Dead
  <2> QED
    BY <2>5, <2>6, <2>7, <2>8, <2>9
<1> QED
  BY <1>3, <1>4

(* A read returns a message with an id that was given out. *)
LEMMA DeliverKeepsInv == Inv /\ Deliver => Inv'
<1> SUFFICES ASSUME Inv, Deliver PROVE Inv'
  OBVIOUS
<1>1. PICK i \in 1..Len(queue), c \in Calls :
        /\ got' = <<c, queue[i].id>>
        /\ queue' = IF c.remove THEN Without(queue, i) ELSE queue
        /\ UNCHANGED <<size, posted, window, disabled>>
  BY DEF Deliver
<1>2. queue[i] \in Msg
  BY DEF Inv, TypeOK
<1>3. got' \in {<<>>} \cup (Calls \X (0..MaxPosted))
  BY <1>1, <1>2, MsgFields
<1>4. CASE c.remove
  BY <1>1, <1>3, <1>4, RemoveKeepsInv
<1>5. CASE ~c.remove
  BY <1>1, <1>3, <1>5 DEF Inv, TypeOK, Bounded, Ordered, IdsUsed, NoOrphan, Dead
<1> QED
  BY <1>4, <1>5

(* The remaining operations do not touch the messages, or drop them all. *)
LEMMA OthersKeepInv == Inv /\ (Empty \/ Begin \/ Create \/ Enable \/ Replace) => Inv'
<1> SUFFICES ASSUME Inv, Empty \/ Begin \/ Create \/ Enable \/ Replace PROVE Inv'
  OBVIOUS
<1> USE DEF Inv
<1>1. CASE Create
  BY <1>1, DefsAssumption DEF Create, NewTree, Tree, TypeOK, Bounded, Ordered, IdsUsed, NoOrphan, Dead
<1>2. CASE Enable
  BY <1>2 DEF Enable, TypeOK, Bounded, Ordered, IdsUsed, NoOrphan, Dead
<1>3. CASE Replace
  <2>1. queue' = <<>> /\ size' \in 1..QueueSize
        /\ got' = <<>> /\ UNCHANGED <<posted, window, disabled>>
    BY <1>3 DEF Replace
  <2>2. TypeOK'
    BY <2>1 DEF TypeOK
  <2>3. Bounded' /\ Ordered' /\ IdsUsed' /\ NoOrphan'
    BY <2>1, DefsAssumption DEF Bounded, Ordered, IdsUsed, NoOrphan
  <2> QED
    BY <2>2, <2>3
<1>4. CASE Empty
  <2>1. got' \in Calls \X (0..MaxPosted) /\ UNCHANGED <<queue, size, posted, window, disabled>>
    BY <1>4, DefsAssumption DEF Empty
  <2> QED
    BY <2>1 DEF TypeOK, Bounded, Ordered, IdsUsed, NoOrphan, Dead
<1>5. CASE Begin
  BY <1>5 DEF Begin, TypeOK, Bounded, Ordered, IdsUsed, NoOrphan, Dead
<1> QED
  BY <1>1, <1>2, <1>3, <1>4, <1>5

(* Inv holds in every reachable state. *)
THEOREM InvHolds == Spec => []Inv
<1>1. Init => Inv
  BY DefsAssumption DEF Init, Inv, TypeOK, Bounded, Ordered, IdsUsed, NoOrphan
<1>2. Inv /\ [Next]_vars => Inv'
  <2> SUFFICES ASSUME Inv, [Next]_vars PROVE Inv'
    OBVIOUS
  <2>1. CASE Post
    BY <2>1, PostKeepsInv
  <2>2. CASE Deliver
    BY <2>2, DeliverKeepsInv
  <2>3. CASE Discard
    BY <2>3, RemoveKeepsInv DEF Discard
  <2>4. CASE Destroy
    BY <2>4, DestroyKeepsInv
  <2>5. CASE Empty \/ Begin \/ Create \/ Enable \/ Replace
    BY <2>5, OthersKeepInv
  <2>6. CASE UNCHANGED vars
    BY <2>6 DEF vars, Inv, TypeOK, Bounded, Ordered, IdsUsed, NoOrphan, Dead
  <2> QED
    BY <2>1, <2>2, <2>3, <2>4, <2>5, <2>6 DEF Next
<1> QED
  BY <1>1, <1>2, PTL DEF Spec

(* The queue stays a sequence of messages and its size one AllocQueue can    *)
(* make.                                                                     *)
THEOREM QueueTypeCorrect == Spec => []TypeOK
<1>1. Inv => TypeOK
  BY DEF Inv
<1> QED
  BY <1>1, InvHolds, PTL

(* The queue never holds more messages than AllocQueue made slots for,       *)
(* whatever is posted, read, flushed or resized.                             *)
THEOREM QueueBounded == Spec => []Bounded
<1>1. Inv => Bounded
  BY DEF Inv
<1> QED
  BY <1>1, InvHolds, PTL

(* Messages are read in posting order, front-posted ones first, and none is  *)
(* ever duplicated.                                                          *)
THEOREM QueueOrdered == Spec => []Ordered
<1>1. Inv => Ordered
  BY DEF Inv
<1> QED
  BY <1>1, InvHolds, PTL

(* No task's queue holds a message for a window that was destroyed.          *)
THEOREM QueueNoOrphan == Spec => []NoOrphan
<1>1. Inv => NoOrphan
  BY DEF Inv
<1> QED
  BY <1>1, InvHolds, PTL

-----------------------------------------------------------------------------
(* The object table. *)
(* The inductive invariant.  Counted bounds the number of blocks by the     *)
(* number of objects; Delayed says how many tags are in front of a freed    *)
(* one in the list.                                                         *)
Counted ==
    /\ held = busy /\ IsFiniteSet(busy) /\ Cardinality(busy) \in Nat
    /\ Len(freeList) + Cardinality(busy) = Allocated
    /\ Allocated < MaxTags
    /\ NextToAllocate < TableBlocks /\ ~overrun
LocksCounted ==
    /\ \A n \in busy : wRefCount[n] = RefLimit \/ wRefCount[n] = locks[n]
    /\ \A n \in Tag \ busy : locks[n] = 0
Delayed ==
    /\ NextToAllocate >= 0 => Len(freeList) >= LowWater - 1
    /\ \A i \in DOMAIN freeList : gap[freeList[i]] + i >= LowWater
    /\ \A n \in busy : gap[n] >= LowWater - 1
    /\ \A n \in Tag : n >= Allocated => gap[n] = LowWater
TableIInv == TableTypeOK /\ TagsPartitioned /\ Counted /\ LocksCounted /\ Delayed

(* Multiples of a positive number are ordered as the numbers are. *)
LEMMA TimesLess ==
    ASSUME NEW a \in Int, NEW b \in Int, NEW k \in Nat \ {0}, a * k < b * k
    PROVE  a < b
OBVIOUS

(* Below MaxTags the handle of a tag has the bit OM_MASK and leads back to  *)
(* the tag.                                                                 *)
LEMMA TagOfHandle ==
    ASSUME Fits, NEW n \in Nat, n < MaxTags
    PROVE  HasMask(HandleOf(n)) /\ TagOf(HandleOf(n)) = n
<1>1. OmMask \in Nat \ {0} /\ WordSize \in Nat /\ MaxTags \in Nat
  BY TableAssumption DEF MaxTags
<1>2. 2 * n < OmMask /\ 2 * n < WordSize /\ 2 * n \in Nat /\ WordSize # 0
  BY <1>1 DEF Fits
<1>3. (2 * n) \div OmMask = 0 /\ (2 * n + OmMask) \div OmMask = 1
  BY <1>1, <1>2
<1>4. ~HasMask(2 * n) /\ HasMask(2 * n + OmMask)
  BY <1>3 DEF HasMask
<1>5. HandleOf(n) = 2 * n + OmMask
  BY <1>4 DEF HandleOf, OrMask
<1>6. ClearMask(HandleOf(n)) = 2 * n
  BY <1>1, <1>4, <1>5 DEF ClearMask
<1>7. (2 * n) % WordSize = 2 * n
  BY <1>1, <1>2
<1>8. (2 * n) \div 2 = n
  OBVIOUS
<1> QED
  BY <1>4, <1>5, <1>6, <1>7, <1>8 DEF TagOf

(* TableIInv holds initially. *)
LEMMA TableInitIInv == ASSUME Fits, TableInit PROVE TableIInv
<1>1. BlockSize \in Nat \ {0} /\ TableBlocks \in Nat \ {0} /\ LowWater \in Nat \ {0}
      /\ RefLimit \in Nat /\ MaxObjects \in Nat /\ MaxLocks \in Nat
  BY TableAssumption
<1>2. Allocated = 0
  BY <1>1 DEF TableInit, Allocated, Blocks
<1>3. Cardinality({}) = 0 /\ IsFiniteSet({})
  BY FS_EmptySet
<1>4. TableTypeOK
  <2>1. freeList \in Seq(Tag) /\ busy \subseteq Tag /\ held \subseteq Tag
    BY DEF TableInit
  <2>2. NextToAllocate \in Int /\ NextToAllocate >= -1 /\ FreePoolSize \in Nat
    BY DEF TableInit
  <2>3. wObjSignature \in [Tag -> Signature \cup {NoType}] /\ wRefCount \in [Tag -> 0..RefLimit]
    BY <1>1 DEF TableInit
  <2>4. locks \in [Tag -> 0..MaxLocks] /\ gap \in [Tag -> 0..LowWater]
    BY <1>1 DEF TableInit
  <2> QED
    BY <2>1, <2>2, <2>3, <2>4 DEF TableInit, TableTypeOK
<1>5. TagsPartitioned
  BY <1>2 DEF TableInit, TagsPartitioned, Tag
<1>6. Counted
  BY <1>1, <1>2, <1>3 DEF TableInit, Counted, MaxTags
<1>7. LocksCounted
  BY DEF TableInit, LocksCounted
<1>8. Delayed
  BY <1>1 DEF TableInit, Delayed
<1> QED
  BY <1>4, <1>5, <1>6, <1>7, <1>8 DEF TableIInv

(* The list HM_GETHND takes its tag from, after refilling. *)
LEMMA RefilledIsPool ==
    ASSUME Fits, TableIInv, ~Overruns, Cardinality(held) < MaxObjects,
           NEW N, N = IF NeedMore THEN NextToAllocate + 1 ELSE NextToAllocate,
           NEW A, A = (N + 1) * BlockSize
    PROVE  /\ Refilled \in Seq(Tag) /\ Len(Refilled) >= LowWater
           /\ PoolRefilled = Len(Refilled)
           /\ N \in Nat /\ N < TableBlocks
           /\ A \in Nat /\ A < MaxTags /\ Allocated <= A
           /\ Len(Refilled) + Cardinality(busy) = A
           /\ \A i, j \in DOMAIN Refilled : Refilled[i] = Refilled[j] => i = j
           /\ \A n \in Tag : n < A <=>
                  n \in busy \/ \E i \in DOMAIN Refilled : Refilled[i] = n
           /\ \A i \in DOMAIN Refilled : Refilled[i] \notin busy
           /\ \A i \in DOMAIN Refilled : gap[Refilled[i]] + i >= LowWater
<1>1. BlockSize \in Nat \ {0} /\ TableBlocks \in Nat \ {0} /\ LowWater \in Nat \ {0}
      /\ MaxObjects \in Nat /\ LowWater <= BlockSize /\ MaxTags \in Nat
      /\ MaxTags = MaxObjects + LowWater + BlockSize
      /\ MaxTags <= TableBlocks * BlockSize
  BY TableAssumption DEF MaxTags, Fits
<1>2. NextToAllocate \in Int /\ NextToAllocate >= -1 /\ freeList \in Seq(Tag)
      /\ FreePoolSize = Len(freeList) /\ Cardinality(busy) \in Nat /\ held = busy
      /\ Len(freeList) + Cardinality(busy) = Allocated /\ NextToAllocate < TableBlocks
      /\ Len(freeList) \in Nat /\ gap \in [Tag -> 0..LowWater] /\ busy \subseteq Tag
  BY DEF TableIInv, TableTypeOK, TagsPartitioned, Counted
<1>3. Allocated = (NextToAllocate + 1) * BlockSize /\ Allocated \in Nat
  BY <1>1, <1>2 DEF Allocated, Blocks
<1>a. \A n \in Tag : n \in Nat
  BY DEF Tag
<1>4. CASE ~NeedMore
  <2>1. Refilled = freeList /\ PoolRefilled = FreePoolSize /\ N = NextToAllocate
        /\ A = Allocated
    BY <1>3, <1>4 DEF Refilled, PoolRefilled
  <2>2. Len(freeList) >= LowWater
    BY <1>1, <1>2, <1>4 DEF NeedMore
  <2>3. NextToAllocate # -1
    <3>1. SUFFICES ASSUME NextToAllocate = -1 PROVE FALSE
      OBVIOUS
    <3>2. Allocated = 0
      BY <1>1, <1>3, <3>1
    <3> QED
      BY <1>1, <1>2, <2>2, <3>2
  <2> QED
    BY <1>1, <1>2, <1>3, <2>1, <2>2, <2>3
       DEF TableIInv, TagsPartitioned, Counted, Delayed
<1>5. CASE NeedMore
  <2>1. Allocated < MaxObjects + LowWater
    BY <1>1, <1>2, <1>5 DEF NeedMore
  <2>2. (NextToAllocate + 2) * BlockSize = Allocated + BlockSize
    BY <1>1, <1>2, <1>3
  <2>3. (NextToAllocate + 2) * BlockSize < TableBlocks * BlockSize
    BY <1>1, <1>3, <2>1, <2>2
  <2>4. NextToAllocate + 2 < TableBlocks
    BY <1>1, <1>2, <2>3, TimesLess
  <2>5. N = NextToAllocate + 1 /\ A = Allocated + BlockSize
    BY <1>2, <1>5, <2>2
  <2>6. CanAllocate
    BY <1>1, <1>2, <2>4 DEF CanAllocate
  <2>7. Refilled = NewBlock \o freeList /\ PoolRefilled = FreePoolSize + BlockSize
    BY <1>5, <2>6 DEF Refilled, PoolRefilled
  <2>8. A < MaxTags /\ A \in Nat /\ A <= TableBlocks * BlockSize
    BY <1>1, <1>3, <2>1, <2>5
  <2>9. /\ NewBlock \in Seq(Tag) /\ Len(NewBlock) = BlockSize
        /\ \A k \in 1..BlockSize : NewBlock[k] = Allocated + k - 1
    <3>1. \A k \in 1..BlockSize : Allocated + k - 1 \in Tag
      BY <1>1, <1>3, <2>5, <2>8 DEF Tag
    <3> QED
      BY <1>1, <3>1 DEF NewBlock
  <2>10. /\ Refilled \in Seq(Tag) /\ Len(Refilled) = BlockSize + Len(freeList)
         /\ \A k \in 1..BlockSize : Refilled[k] = Allocated + k - 1
         /\ \A k \in 1..Len(Refilled) : k > BlockSize => Refilled[k] = freeList[k - BlockSize]
         /\ DOMAIN Refilled = 1..Len(Refilled) /\ DOMAIN freeList = 1..Len(freeList)
    <3>1. /\ Refilled \in Seq(Tag) /\ Len(Refilled) = BlockSize + Len(freeList)
          /\ \A k \in 1..(BlockSize + Len(freeList)) :
                Refilled[k] = IF k <= BlockSize THEN NewBlock[k] ELSE freeList[k - BlockSize]
      BY <1>2, <2>7, <2>9, ConcatProperties
    <3>2. \A k \in 1..BlockSize : k \in 1..(BlockSize + Len(freeList)) /\ k <= BlockSize
      BY <1>1, <1>2
    <3>3. \A k \in 1..Len(Refilled) : k > BlockSize => ~(k <= BlockSize)
      BY <1>1, <1>2, <3>1
    <3>4. \A k \in 1..BlockSize : Refilled[k] = Allocated + k - 1
      BY <2>9, <3>1, <3>2
    <3>5. \A k \in 1..Len(Refilled) : k > BlockSize => Refilled[k] = freeList[k - BlockSize]
      BY <3>1, <3>3
    <3> QED
      BY <1>2, <3>1, <3>4, <3>5
  <2>s. \A k \in DOMAIN Refilled : k > BlockSize =>
            /\ k - BlockSize \in DOMAIN freeList /\ k - BlockSize \in Nat
            /\ Refilled[k] = freeList[k - BlockSize]
    <3> SUFFICES ASSUME NEW k \in 1..(BlockSize + Len(freeList)), k > BlockSize
                 PROVE  k - BlockSize \in 1..Len(freeList) /\ k - BlockSize \in Nat
      BY <2>10
    <3> QED
      BY <1>1, <1>2
  <2>11. \A i \in DOMAIN freeList : freeList[i] < Allocated /\ freeList[i] \in Tag
                                   /\ freeList[i] \notin busy
    BY <1>2 DEF TableIInv, TagsPartitioned
  <2>12. \A n \in busy : n < Allocated
    BY <1>2 DEF TableIInv, TagsPartitioned
  <2>13. \A i, j \in DOMAIN Refilled : Refilled[i] = Refilled[j] => i = j
    <3> SUFFICES ASSUME NEW i \in DOMAIN Refilled, NEW j \in DOMAIN Refilled,
                        Refilled[i] = Refilled[j]
                 PROVE  i = j
      OBVIOUS
    <3>1. i \in Nat /\ j \in Nat /\ i \in 1..Len(Refilled) /\ j \in 1..Len(Refilled)
      BY <2>10
    <3>2. CASE i <= BlockSize /\ j <= BlockSize
      BY <1>1, <1>3, <2>10, <3>1, <3>2
    <3>3. CASE i > BlockSize /\ j > BlockSize
      <4>1. i - BlockSize \in DOMAIN freeList /\ j - BlockSize \in DOMAIN freeList
        BY <2>s, <3>3
      <4>2. freeList[i - BlockSize] = freeList[j - BlockSize]
        BY <2>s, <3>3
      <4>3. i - BlockSize = j - BlockSize
        BY <4>1, <4>2 DEF TableIInv, TagsPartitioned
      <4> QED
        BY <1>1, <3>1, <4>3
    <3>4. CASE i <= BlockSize /\ j > BlockSize
      <4>1. Refilled[j] < Allocated /\ Refilled[j] \in Nat
        BY <1>a, <2>s, <2>11, <3>4
      <4>2. Refilled[i] = Allocated + i - 1
        BY <1>1, <2>10, <3>1, <3>4
      <4> QED
        BY <1>3, <3>1, <4>1, <4>2
    <3>5. CASE i > BlockSize /\ j <= BlockSize
      <4>1. Refilled[i] < Allocated /\ Refilled[i] \in Nat
        BY <1>a, <2>s, <2>11, <3>5
      <4>2. Refilled[j] = Allocated + j - 1
        BY <1>1, <2>10, <3>1, <3>5
      <4> QED
        BY <1>3, <3>1, <4>1, <4>2
    <3> QED
      BY <1>1, <3>1, <3>2, <3>3, <3>4, <3>5
  <2>14. \A i \in DOMAIN Refilled : Refilled[i] \in Tag /\ Refilled[i] < A
             /\ Refilled[i] \notin busy /\ gap[Refilled[i]] + i >= LowWater
    <3> SUFFICES ASSUME NEW i \in DOMAIN Refilled
                 PROVE  Refilled[i] \in Tag /\ Refilled[i] < A
                        /\ Refilled[i] \notin busy /\ gap[Refilled[i]] + i >= LowWater
      OBVIOUS
    <3>1. i \in Nat /\ i \in 1..Len(Refilled) /\ Refilled[i] \in Tag
      BY <2>10
    <3>2. CASE i <= BlockSize
      <4>1. Refilled[i] = Allocated + i - 1 /\ Refilled[i] >= Allocated
        BY <1>1, <1>3, <2>10, <3>1, <3>2, SMTT(40)
      <4>2. gap[Refilled[i]] = LowWater
        BY <3>1, <4>1 DEF TableIInv, Delayed
      <4>3. Refilled[i] < A
        BY <1>1, <1>3, <2>5, <3>1, <3>2, <4>1, SMTT(40)
      <4>4. Refilled[i] \notin busy
        BY <1>3, <1>a, <2>12, <3>1, <4>1
      <4> QED
        BY <1>1, <3>1, <4>2, <4>3, <4>4
    <3>3. CASE i > BlockSize
      <4>1. i - BlockSize \in DOMAIN freeList /\ Refilled[i] = freeList[i - BlockSize]
        BY <2>s, <3>3
      <4>2. gap[freeList[i - BlockSize]] + (i - BlockSize) >= LowWater
        BY <4>1 DEF TableIInv, Delayed
      <4>3. gap[Refilled[i]] \in Nat
        BY <1>1, <1>2, <3>1
      <4>4. gap[Refilled[i]] + i >= LowWater
        BY <1>1, <3>1, <4>1, <4>2, <4>3
      <4>5. Refilled[i] < A /\ Refilled[i] \notin busy
        BY <1>1, <1>3, <1>a, <2>5, <2>11, <4>1
      <4> QED
        BY <3>1, <4>4, <4>5
    <3> QED
      BY <1>1, <3>1, <3>2, <3>3
  <2>15. \A n \in Tag : n < A => n \in busy \/ \E i \in DOMAIN Refilled : Refilled[i] = n
    <3> SUFFICES ASSUME NEW n \in Tag, n < A, n \notin busy
                 PROVE  \E i \in DOMAIN Refilled : Refilled[i] = n
      OBVIOUS
    <3>1. CASE n < Allocated
      <4>1. PICK i \in DOMAIN freeList : freeList[i] = n
        BY <3>1 DEF TableIInv, TagsPartitioned
      <4>2. i + BlockSize \in 1..Len(Refilled) /\ i + BlockSize > BlockSize
            /\ (i + BlockSize) - BlockSize = i
        <5>1. i \in 1..Len(freeList) /\ Len(Refilled) = BlockSize + Len(freeList)
          BY <2>10, <4>1
        <5> QED
          BY <1>1, <1>2, <5>1
      <4>3. Refilled[i + BlockSize] = n
        BY <2>10, <4>1, <4>2
      <4> QED
        BY <2>10, <4>2, <4>3
    <3>2. CASE n >= Allocated
      <4>1. n - Allocated + 1 \in 1..BlockSize /\ Allocated + (n - Allocated + 1) - 1 = n
        BY <1>1, <1>3, <1>a, <2>5, <3>2
      <4>2. n - Allocated + 1 \in DOMAIN Refilled
        <5>1. \A k \in 1..BlockSize : k \in 1..(BlockSize + Len(freeList))
          BY <1>1, <1>2
        <5> QED
          BY <2>10, <4>1, <5>1
      <4> QED
        BY <2>10, <4>1, <4>2
    <3> QED
      BY <1>3, <1>a, <3>1, <3>2
  <2>16. \A n \in busy : n < A
    BY <1>1, <1>2, <1>3, <1>a, <2>5, <2>12
  <2>17. Len(Refilled) >= LowWater /\ PoolRefilled = Len(Refilled)
         /\ Len(Refilled) + Cardinality(busy) = A
    BY <1>1, <1>2, <1>3, <2>5, <2>7, <2>10
  <2>18. N \in Nat /\ N < TableBlocks /\ Allocated <= A
    BY <1>1, <1>2, <1>3, <2>4, <2>5
  <2>19. \A n \in Tag : n < A <=>
            n \in busy \/ \E i \in DOMAIN Refilled : Refilled[i] = n
    BY <2>14, <2>15, <2>16
  <2> QED
    BY <2>8, <2>10, <2>13, <2>14, <2>17, <2>18, <2>19
<1> QED
  BY <1>4, <1>5

(* Facts every step uses. *)
LEMMA Basics ==
    ASSUME Fits, TableIInv
    PROVE  /\ BlockSize \in Nat \ {0} /\ TableBlocks \in Nat \ {0}
           /\ LowWater \in Nat \ {0} /\ RefLimit \in Nat \ {0} /\ MaxLocks \in Nat
           /\ Allocated \in Nat /\ Allocated = (NextToAllocate + 1) * BlockSize
           /\ Tag \subseteq Nat /\ MaxTags \in Nat
           /\ Len(freeList) \in Nat /\ DOMAIN freeList = 1..Len(freeList)
           /\ \A n \in busy : n \in Tag /\ n < Allocated /\ TagOf(HandleOf(n)) = n
                             /\ HasMask(HandleOf(n))
<1>1. BlockSize \in Nat \ {0} /\ TableBlocks \in Nat \ {0} /\ MaxTags \in Nat
      /\ LowWater \in Nat \ {0} /\ RefLimit \in Nat \ {0} /\ MaxLocks \in Nat
  BY TableAssumption DEF MaxTags
<1>2. NextToAllocate \in Int /\ NextToAllocate >= -1 /\ NextToAllocate < TableBlocks
      /\ freeList \in Seq(Tag) /\ busy \subseteq Tag
  BY DEF TableIInv, TableTypeOK, Counted
<1>3. Allocated = (NextToAllocate + 1) * BlockSize /\ Allocated \in Nat
  BY <1>1, <1>2 DEF Allocated, Blocks
<1>4. Tag \subseteq Nat
  BY DEF Tag
<1>5. \A n \in busy : n \in Tag /\ n < Allocated
  BY <1>2 DEF TableIInv, TagsPartitioned
<1>6. \A n \in busy : n \in Nat /\ n < MaxTags
  <2>1. Allocated < MaxTags
    BY DEF TableIInv, Counted
  <2> SUFFICES ASSUME NEW n \in busy PROVE n \in Nat /\ n < MaxTags
    OBVIOUS
  <2>2. n \in Nat /\ n < Allocated
    BY <1>4, <1>5
  <2> QED
    BY <1>1, <1>3, <2>1, <2>2
<1> QED
  BY <1>1, <1>2, <1>3, <1>4, <1>5, <1>6, TagOfHandle

(* HM_GETHND of an unknown type only refills the list. *)
LEMMA GetNothingKeepsIInv == ASSUME Fits, TableIInv, GetHnd(NoType) PROVE TableIInv'
<1> DEFINE A == (NextToAllocate' + 1) * BlockSize
<1>1. ~Overruns /\ Cardinality(held) < MaxObjects /\ freeList' = Refilled
      /\ NextToAllocate' = (IF NeedMore THEN NextToAllocate + 1 ELSE NextToAllocate)
      /\ FreePoolSize' = PoolRefilled
      /\ busy' = busy /\ wObjSignature' = wObjSignature /\ wRefCount' = wRefCount
      /\ held' = held /\ gap' = gap /\ overrun' = overrun /\ locks' = locks
  BY DEF GetHnd
<1>2. /\ Refilled \in Seq(Tag) /\ Len(Refilled) >= LowWater
      /\ PoolRefilled = Len(Refilled)
      /\ NextToAllocate' \in Nat /\ NextToAllocate' < TableBlocks
      /\ A \in Nat /\ A < MaxTags /\ Allocated <= A
      /\ Len(Refilled) + Cardinality(busy) = A
      /\ \A i, j \in DOMAIN Refilled : Refilled[i] = Refilled[j] => i = j
      /\ \A n \in Tag : n < A <=>
             n \in busy \/ \E i \in DOMAIN Refilled : Refilled[i] = n
      /\ \A i \in DOMAIN Refilled : Refilled[i] \notin busy
      /\ \A i \in DOMAIN Refilled : gap[Refilled[i]] + i >= LowWater
  BY <1>1, RefilledIsPool
<1>3. BlockSize \in Nat \ {0} /\ TableBlocks \in Nat \ {0} /\ LowWater \in Nat \ {0}
      /\ Allocated \in Nat /\ Tag \subseteq Nat /\ Len(Refilled) \in Nat
  BY <1>2, Basics
<1>4. Allocated' = A
  BY <1>2, <1>3 DEF Allocated, Blocks
<1>5. TableTypeOK'
  BY <1>1, <1>2, <1>3 DEF TableIInv, TableTypeOK
<1>6. TagsPartitioned'
  BY <1>1, <1>2, <1>4 DEF TagsPartitioned
<1>7. Counted'
  BY <1>1, <1>2, <1>4 DEF TableIInv, Counted
<1>8. LocksCounted'
  BY <1>1 DEF TableIInv, LocksCounted
<1>9. Delayed'
  <2>1. \A n \in Tag : n >= A => n >= Allocated
    <3> HIDE DEF A
    <3> SUFFICES ASSUME NEW n \in Tag, n >= A PROVE n >= Allocated
      OBVIOUS
    <3>1. n \in Nat
      BY <1>3
    <3> QED
      BY <1>2, <1>3, <3>1
  <2>2. Len(Refilled) >= LowWater - 1
    BY <1>2, <1>3
  <2> QED
    BY <1>1, <1>2, <1>4, <2>1, <2>2 DEF TableIInv, Delayed
<1> QED
  BY <1>5, <1>6, <1>7, <1>8, <1>9 DEF TableIInv

(* HM_GETHND takes the first tag of the refilled list. *)
LEMMA GetKeepsIInv ==
    ASSUME Fits, TableIInv, NEW sig \in Signature, GetHnd(sig) PROVE TableIInv'
<1> DEFINE A == (NextToAllocate' + 1) * BlockSize
           n == Head(Refilled)
<1>1. ~Overruns /\ Cardinality(held) < MaxObjects
      /\ NextToAllocate' = (IF NeedMore THEN NextToAllocate + 1 ELSE NextToAllocate)
      /\ overrun' = overrun /\ locks' = locks
  BY DEF GetHnd
<1>2. sig # NoType
  BY TableAssumption
<1>3. /\ freeList' = Tail(Refilled)
      /\ FreePoolSize' = (IF Tail(Refilled) = <<>> THEN 0 ELSE PoolRefilled - 1)
      /\ busy' = busy \cup {n} /\ held' = held \cup {n}
      /\ wObjSignature' = [wObjSignature EXCEPT ![n] = sig]
      /\ wRefCount' = [wRefCount EXCEPT ![n] = 0]
      /\ gap' = [x \in Tag |-> IF x = n \/ gap[x] = LowWater THEN gap[x] ELSE gap[x] + 1]
  BY <1>2 DEF GetHnd
<1>4. /\ Refilled \in Seq(Tag) /\ Len(Refilled) >= LowWater
      /\ PoolRefilled = Len(Refilled)
      /\ NextToAllocate' \in Nat /\ NextToAllocate' < TableBlocks
      /\ A \in Nat /\ A < MaxTags /\ Allocated <= A
      /\ Len(Refilled) + Cardinality(busy) = A
      /\ \A i, j \in DOMAIN Refilled : Refilled[i] = Refilled[j] => i = j
      /\ \A x \in Tag : x < A <=>
             x \in busy \/ \E i \in DOMAIN Refilled : Refilled[i] = x
      /\ \A i \in DOMAIN Refilled : Refilled[i] \notin busy
      /\ \A i \in DOMAIN Refilled : gap[Refilled[i]] + i >= LowWater
  BY <1>1, RefilledIsPool
<1>5. BlockSize \in Nat \ {0} /\ TableBlocks \in Nat \ {0} /\ LowWater \in Nat \ {0}
      /\ RefLimit \in Nat /\ Allocated \in Nat /\ Tag \subseteq Nat
      /\ Len(Refilled) \in Nat /\ DOMAIN Refilled = 1..Len(Refilled)
  BY <1>4, Basics
<1>6. Allocated' = A
  BY <1>4, <1>5 DEF Allocated, Blocks
<1>7. /\ Refilled # <<>> /\ 1 \in DOMAIN Refilled /\ n = Refilled[1] /\ n \in Tag
      /\ n \notin busy
  BY <1>4, <1>5
<1>8. /\ Tail(Refilled) \in Seq(Tag) /\ Len(Tail(Refilled)) = Len(Refilled) - 1
      /\ DOMAIN Tail(Refilled) = 1..(Len(Refilled) - 1)
      /\ \A i \in 1..(Len(Refilled) - 1) : Tail(Refilled)[i] = Refilled[i + 1]
  BY <1>4, <1>5, <1>7
<1>9. \A i \in 1..(Len(Refilled) - 1) : i + 1 \in DOMAIN Refilled /\ i + 1 # 1 /\ i \in Nat
  BY <1>5
<1>10. \A i \in DOMAIN freeList' : freeList'[i] = Refilled[i + 1] /\ i + 1 \in DOMAIN Refilled
          /\ i \in Nat /\ freeList'[i] # n /\ freeList'[i] \in Tag
  BY <1>3, <1>4, <1>7, <1>8, <1>9, SMTT(40)
<1>11. TableTypeOK'
  <2>1. gap' \in [Tag -> 0..LowWater]
    BY <1>3, <1>5 DEF TableIInv, TableTypeOK
  <2>2. wRefCount' \in [Tag -> 0..RefLimit]
        /\ wObjSignature' \in [Tag -> Signature \cup {NoType}]
    BY <1>3, <1>5, <1>7 DEF TableIInv, TableTypeOK
  <2>3. freeList' \in Seq(Tag) /\ FreePoolSize' \in Nat
    BY <1>3, <1>4, <1>5, <1>8
  <2>4. busy' \subseteq Tag /\ held' \subseteq Tag
    BY <1>3, <1>7 DEF TableIInv, TableTypeOK
  <2> QED
    BY <1>1, <1>4, <2>1, <2>2, <2>3, <2>4 DEF TableIInv, TableTypeOK
<1>12. TagsPartitioned'
  <2>1. \A i, j \in DOMAIN freeList' : freeList'[i] = freeList'[j] => i = j
    <3> SUFFICES ASSUME NEW i \in DOMAIN freeList', NEW j \in DOMAIN freeList',
                        freeList'[i] = freeList'[j]
                 PROVE  i = j
      OBVIOUS
    <3>1. i + 1 = j + 1 /\ i \in Nat /\ j \in Nat
      BY <1>4, <1>10
    <3> QED
      BY <3>1
  <2>2. \A x \in Tag : x < A <=> x \in busy' \/ \E i \in DOMAIN freeList' : freeList'[i] = x
    <3> SUFFICES ASSUME NEW x \in Tag
                 PROVE  x < A <=> x \in busy' \/ \E i \in DOMAIN freeList' : freeList'[i] = x
      OBVIOUS
    <3>1. ASSUME NEW i \in DOMAIN Refilled, Refilled[i] = x, x # n
          PROVE  \E k \in DOMAIN freeList' : freeList'[k] = x
      <4>1. i # 1 /\ i \in 1..Len(Refilled)
        BY <1>5, <1>7, <3>1
      <4>2. i - 1 \in 1..(Len(Refilled) - 1) /\ (i - 1) + 1 = i
        BY <1>5, <4>1
      <4>3. i - 1 \in DOMAIN freeList' /\ freeList'[i - 1] = Refilled[i]
        BY <1>3, <1>8, <4>2
      <4> QED
        BY <3>1, <4>3
    <3>2. ASSUME NEW i \in DOMAIN freeList', freeList'[i] = x
          PROVE  \E k \in DOMAIN Refilled : Refilled[k] = x
      BY <1>10, <3>2
    <3> QED
      BY <1>3, <1>4, <1>7, <3>1, <3>2
  <2>3. \A i \in DOMAIN freeList' : freeList'[i] \notin busy'
    BY <1>3, <1>4, <1>10
  <2>4. FreePoolSize' = Len(freeList')
    BY <1>3, <1>4, <1>5, <1>8
  <2> QED
    BY <1>6, <2>1, <2>2, <2>3, <2>4 DEF TagsPartitioned
<1>13. Counted'
  <2>1. IsFiniteSet(busy) /\ Cardinality(busy) \in Nat /\ held = busy /\ ~overrun
    BY DEF TableIInv, Counted
  <2>2. IsFiniteSet(busy') /\ Cardinality(busy') = Cardinality(busy) + 1
    BY <1>3, <1>7, <2>1, FS_AddElement
  <2>3. Len(freeList') + Cardinality(busy') = A
    BY <1>3, <1>4, <1>5, <1>8, <2>1, <2>2
  <2> QED
    BY <1>1, <1>3, <1>4, <1>6, <2>1, <2>2, <2>3 DEF Counted
<1>14. LocksCounted'
  <2>1. locks[n] = 0
    BY <1>7 DEF TableIInv, LocksCounted
  <2>2. wRefCount'[n] = 0 /\ \A x \in busy : wRefCount'[x] = wRefCount[x]
    BY <1>3, <1>7 DEF TableIInv, TableTypeOK
  <2> QED
    BY <1>1, <1>3, <2>1, <2>2 DEF TableIInv, LocksCounted
<1>15. Delayed'
  <2>1. \A x \in Tag : gap'[x] \in Nat /\ gap[x] \in 0..LowWater
            /\ gap'[x] = IF x = n \/ gap[x] = LowWater THEN gap[x] ELSE gap[x] + 1
    BY <1>3, <1>5 DEF TableIInv, TableTypeOK
  <2>2. Len(freeList') >= LowWater - 1
    BY <1>3, <1>4, <1>5, <1>8
  <2>3. \A i \in DOMAIN freeList' : gap'[freeList'[i]] + i >= LowWater
    <3> SUFFICES ASSUME NEW i \in DOMAIN freeList'
                 PROVE  gap'[freeList'[i]] + i >= LowWater
      OBVIOUS
    <3>1. freeList'[i] \in Tag /\ freeList'[i] # n /\ i \in Nat /\ i + 1 \in DOMAIN Refilled
          /\ freeList'[i] = Refilled[i + 1]
      BY <1>10
    <3>2. gap[freeList'[i]] + (i + 1) >= LowWater
      BY <1>4, <3>1
    <3>3. gap[freeList'[i]] = LowWater \/ gap'[freeList'[i]] = gap[freeList'[i]] + 1
      BY <2>1, <3>1
    <3>4. gap[freeList'[i]] = LowWater => gap'[freeList'[i]] = LowWater
      BY <2>1, <3>1
    <3>5. gap[freeList'[i]] \in 0..LowWater
      BY <2>1, <3>1
    <3> QED
      BY <1>5, <3>1, <3>2, <3>3, <3>4, <3>5
  <2>4. \A x \in busy' : gap'[x] >= LowWater - 1
    <3>1. gap[n] + 1 >= LowWater
      BY <1>4, <1>7
    <3>2. \A x \in busy : x \in Tag /\ gap[x] >= LowWater - 1
      BY DEF TableIInv, TableTypeOK, Delayed
    <3>3. \A x \in Tag : gap[x] >= LowWater - 1 => gap'[x] >= LowWater - 1
      BY <1>5, <2>1
    <3>4. gap[n] >= LowWater - 1
      <4>1. gap[n] \in 0..LowWater
        BY <1>7, <2>1
      <4> HIDE DEF n
      <4> QED
        BY <1>5, <3>1, <4>1
    <3> QED
      BY <1>3, <1>7, <3>2, <3>3, <3>4
  <2>5. \A x \in Tag : x >= A => gap'[x] = LowWater
    <3>1. \A x \in Tag : x >= A => x >= Allocated
      <4> HIDE DEF A
      <4> SUFFICES ASSUME NEW x \in Tag, x >= A PROVE x >= Allocated
        OBVIOUS
      <4>1. x \in Nat
        BY <1>5
      <4> QED
        BY <1>4, <1>5, <4>1
    <3>2. \A x \in Tag : x >= A => gap[x] = LowWater
      BY <3>1 DEF TableIInv, Delayed
    <3> QED
      BY <2>1, <3>2
  <2> QED
    BY <1>6, <2>2, <2>3, <2>4, <2>5 DEF Delayed
<1> QED
  BY <1>11, <1>12, <1>13, <1>14, <1>15 DEF TableIInv

(* HM_LOCKHND and HM_UNLOCKHND change one count. *)
LEMMA LockKeepsIInv ==
    ASSUME Fits, TableIInv, NEW n \in Tag, LockHnd(n) \/ UnlockHnd(n) PROVE TableIInv'
<1>1. n \in busy /\ TagOf(HandleOf(n)) = n
  BY Basics DEF TableIInv, Counted, LockHnd, UnlockHnd
<1>2. /\ NextToAllocate' = NextToAllocate /\ freeList' = freeList
      /\ FreePoolSize' = FreePoolSize /\ busy' = busy /\ held' = held
      /\ wObjSignature' = wObjSignature /\ overrun' = overrun /\ gap' = gap
  BY DEF LockHnd, UnlockHnd
<1>3. RefLimit \in Nat \ {0} /\ MaxLocks \in Nat
  BY Basics
<1>4. /\ wRefCount \in [Tag -> 0..RefLimit] /\ locks \in [Tag -> 0..MaxLocks]
      /\ wRefCount[n] = RefLimit \/ wRefCount[n] = locks[n]
      /\ wRefCount[n] \in 0..RefLimit /\ locks[n] \in 0..MaxLocks
  BY <1>1 DEF TableIInv, TableTypeOK, LocksCounted
<1>5. PICK r \in 0..RefLimit, l \in 0..MaxLocks :
         /\ wRefCount' = [wRefCount EXCEPT ![n] = r]
         /\ locks' = [locks EXCEPT ![n] = l]
         /\ r = RefLimit \/ r = l
  <2>1. CASE LockHnd(n)
    <3>1. locks[n] < MaxLocks
      BY <2>1 DEF LockHnd
    <3> DEFINE r == IF wRefCount[n] < RefLimit THEN wRefCount[n] + 1 ELSE wRefCount[n]
    <3>2. r \in 0..RefLimit /\ locks[n] + 1 \in 0..MaxLocks
          /\ (r = RefLimit \/ r = locks[n] + 1)
      BY <1>3, <1>4, <3>1
    <3>3. wRefCount' = [wRefCount EXCEPT ![n] = r] /\ locks' = [locks EXCEPT ![n] = locks[n] + 1]
      BY <1>1, <2>1 DEF LockHnd
    <3> QED
      BY <3>2, <3>3
  <2>2. CASE UnlockHnd(n)
    <3>1. locks[n] > 0
      BY <2>2 DEF UnlockHnd
    <3> DEFINE r == IF 0 < wRefCount[n] /\ wRefCount[n] < RefLimit
                    THEN wRefCount[n] - 1 ELSE wRefCount[n]
    <3>2. r \in 0..RefLimit /\ locks[n] - 1 \in 0..MaxLocks
          /\ (r = RefLimit \/ r = locks[n] - 1)
      BY <1>3, <1>4, <3>1
    <3>3. wRefCount' = [wRefCount EXCEPT ![n] = r] /\ locks' = [locks EXCEPT ![n] = locks[n] - 1]
      BY <1>1, <2>2 DEF UnlockHnd
    <3> QED
      BY <3>2, <3>3
  <2> QED
    BY <2>1, <2>2
<1>6. Allocated' = Allocated
  BY <1>2 DEF Allocated, Blocks
<1>7. TableTypeOK'
  <2>1. wRefCount' \in [Tag -> 0..RefLimit] /\ locks' \in [Tag -> 0..MaxLocks]
    BY <1>4, <1>5
  <2> QED
    BY <1>2, <2>1 DEF TableIInv, TableTypeOK
<1>8. TagsPartitioned' /\ Counted' /\ Delayed'
  BY <1>2, <1>6 DEF TableIInv, TagsPartitioned, Counted, Delayed
<1>9. LocksCounted'
  <2>1. /\ wRefCount'[n] = r /\ locks'[n] = l
        /\ \A x \in Tag : x # n => wRefCount'[x] = wRefCount[x] /\ locks'[x] = locks[x]
    BY <1>4, <1>5
  <2>2. busy \subseteq Tag
    BY DEF TableIInv, TableTypeOK
  <2> QED
    BY <1>1, <1>2, <1>5, <2>1, <2>2 DEF TableIInv, LocksCounted
<1> QED
  BY <1>7, <1>8, <1>9 DEF TableIInv

(* HM_FREEHND puts the tag at the end of the list, behind at least          *)
(* LowWater - 1 others.                                                     *)
LEMMA FreeKeepsIInv ==
    ASSUME Fits, TableIInv, NEW n \in Tag, NEW sig \in Signature, FreeHnd(n, sig) PROVE TableIInv'
<1>1. n \in busy /\ TagOf(HandleOf(n)) = n /\ n < Allocated
  BY Basics DEF TableIInv, Counted, FreeHnd
<1>2. /\ NextToAllocate' = NextToAllocate /\ freeList' = Append(freeList, n)
      /\ FreePoolSize' = (IF freeList = <<>> THEN 1 ELSE FreePoolSize + 1)
      /\ busy' = busy \ {n} /\ held' = held \ {n}
      /\ locks' = locks /\ gap' = [gap EXCEPT ![n] = 0] /\ wRefCount[n] = 0
      /\ wObjSignature' = wObjSignature /\ wRefCount' = wRefCount /\ overrun' = overrun
  BY <1>1 DEF FreeHnd
<1>3. /\ LowWater \in Nat \ {0} /\ Len(freeList) \in Nat /\ BlockSize \in Nat \ {0}
      /\ DOMAIN freeList = 1..Len(freeList) /\ Allocated \in Nat /\ Tag \subseteq Nat
      /\ Allocated = (NextToAllocate + 1) * BlockSize /\ MaxLocks \in Nat
  BY Basics
<1>4. /\ freeList \in Seq(Tag) /\ FreePoolSize = Len(freeList) /\ NextToAllocate \in Int
      /\ gap \in [Tag -> 0..LowWater] /\ locks \in [Tag -> 0..MaxLocks] /\ held = busy
      /\ NextToAllocate >= -1 /\ busy \subseteq Tag
  BY DEF TableIInv, TableTypeOK, TagsPartitioned, Counted
<1>5. Allocated' = Allocated
  BY <1>2 DEF Allocated, Blocks
<1>6. /\ freeList' \in Seq(Tag) /\ Len(freeList') = Len(freeList) + 1
      /\ DOMAIN freeList' = 1..(Len(freeList) + 1)
      /\ freeList'[Len(freeList) + 1] = n
      /\ \A i \in 1..Len(freeList) : freeList'[i] = freeList[i]
  BY <1>2, <1>3, <1>4
<1>7. \A i \in DOMAIN freeList' :
         \/ i = Len(freeList) + 1 /\ freeList'[i] = n
         \/ i \in DOMAIN freeList /\ freeList'[i] = freeList[i]
  BY <1>3, <1>6
<1>8. \A i \in DOMAIN freeList : freeList[i] \in Tag /\ freeList[i] \notin busy /\ freeList[i] # n
         /\ i # Len(freeList) + 1
  BY <1>1, <1>3, <1>4 DEF TableIInv, TagsPartitioned
<1>9. TableTypeOK'
  <2>1. gap' \in [Tag -> 0..LowWater] /\ locks' \in [Tag -> 0..MaxLocks] /\ FreePoolSize' \in Nat
    BY <1>2, <1>3, <1>4
  <2> QED
    BY <1>2, <1>6, <2>1 DEF TableIInv, TableTypeOK
<1>10. TagsPartitioned'
  <2>1. \A i, j \in DOMAIN freeList' : freeList'[i] = freeList'[j] => i = j
    BY <1>7, <1>8 DEF TableIInv, TagsPartitioned
  <2>2. \A x \in Tag : x < Allocated <=> x \in busy' \/ \E i \in DOMAIN freeList' : freeList'[i] = x
    <3> SUFFICES ASSUME NEW x \in Tag
                 PROVE  x < Allocated <=> x \in busy' \/ \E i \in DOMAIN freeList' : freeList'[i] = x
      OBVIOUS
    <3>1. Len(freeList) + 1 \in DOMAIN freeList' /\ DOMAIN freeList \subseteq DOMAIN freeList'
      BY <1>3, <1>6
    <3>2. x < Allocated <=> x \in busy \/ \E i \in DOMAIN freeList : freeList[i] = x
      BY DEF TableIInv, TagsPartitioned
    <3>3. (\E i \in DOMAIN freeList : freeList[i] = x) => \E i \in DOMAIN freeList' : freeList'[i] = x
      BY <1>3, <1>6, <3>1
    <3>4. CASE x = n
      BY <1>1, <1>6, <3>1, <3>4
    <3>5. CASE x # n
      BY <1>2, <1>7, <3>2, <3>3, <3>5
    <3> QED
      BY <3>4, <3>5
  <2>3. \A i \in DOMAIN freeList' : freeList'[i] \notin busy'
    BY <1>2, <1>7, <1>8
  <2>4. FreePoolSize' = Len(freeList')
    BY <1>2, <1>3, <1>4, <1>6
  <2> QED
    BY <1>5, <2>1, <2>2, <2>3, <2>4 DEF TagsPartitioned
<1>11. Counted'
  <2>1. IsFiniteSet(busy) /\ Cardinality(busy) \in Nat
        /\ Len(freeList) + Cardinality(busy) = Allocated
    BY DEF TableIInv, Counted
  <2>2. IsFiniteSet(busy') /\ Cardinality(busy') = Cardinality(busy) - 1
    BY <1>1, <1>2, <2>1, FS_RemoveElement
  <2>3. Cardinality(busy') \in Nat
    BY <2>2, FS_CardinalityType
  <2>4. Len(freeList') + Cardinality(busy') = Allocated
    BY <1>3, <1>6, <2>1, <2>2
  <2> QED
    BY <1>2, <1>4, <1>5, <2>2, <2>3, <2>4 DEF TableIInv, Counted
<1>12. LocksCounted'
  <2>1. RefLimit # 0
    BY Basics
  <2>2. locks[n] = 0
    BY <1>1, <1>2, <2>1 DEF TableIInv, LocksCounted
  <2> QED
    BY <1>2, <1>4, <2>2 DEF TableIInv, LocksCounted
<1>13. Delayed'
  <2>1. NextToAllocate >= 0
    <3> SUFFICES ASSUME NextToAllocate = -1 PROVE FALSE
      BY <1>4
    <3>1. Allocated = 0
      BY <1>3
    <3> QED
      BY <1>1, <1>3, <3>1
  <2>2. Len(freeList) >= LowWater - 1
    BY <2>1 DEF TableIInv, Delayed
  <2>3. gap'[n] = 0 /\ \A x \in Tag : x # n => gap'[x] = gap[x]
    BY <1>2, <1>4
  <2>4. \A i \in DOMAIN freeList' : gap'[freeList'[i]] + i >= LowWater
    <3> SUFFICES ASSUME NEW i \in DOMAIN freeList' PROVE gap'[freeList'[i]] + i >= LowWater
      OBVIOUS
    <3>1. CASE i = Len(freeList) + 1
      <4>1. gap'[freeList'[i]] = 0
        BY <1>6, <2>3, <3>1
      <4> QED
        BY <1>3, <2>2, <3>1, <4>1
    <3>2. CASE i \in DOMAIN freeList
      <4>1. gap'[freeList'[i]] = gap[freeList[i]]
        BY <1>3, <1>6, <1>8, <2>3, <3>2
      <4> QED
        BY <3>2, <4>1 DEF TableIInv, Delayed
    <3> QED
      BY <1>7, <3>1, <3>2
  <2>5. \A x \in busy' : gap'[x] >= LowWater - 1
    BY <1>2, <1>4, <2>3 DEF TableIInv, Delayed
  <2>6. \A x \in Tag : x >= Allocated => gap'[x] = LowWater
    <3>1. \A x \in Tag : x >= Allocated => x # n
      BY <1>1, <1>3
    <3> QED
      BY <2>3, <3>1 DEF TableIInv, Delayed
  <2>7. Len(freeList') >= LowWater - 1
    BY <1>3, <1>6, <2>2
  <2> QED
    BY <1>5, <2>4, <2>5, <2>6, <2>7 DEF Delayed
<1> QED
  BY <1>9, <1>10, <1>11, <1>12, <1>13 DEF TableIInv

(* Every step keeps TableIInv; within Fits the table is never overrun. *)
LEMMA TableNextKeeps == ASSUME Fits, TableIInv, [TableNext]_tablevars PROVE TableIInv'
<1>1. ASSUME NEW sig \in Signature \cup {NoType}, GetHnd(sig) PROVE TableIInv'
  BY <1>1, GetNothingKeepsIInv, GetKeepsIInv
<1>2. ~GetHndOverrun
  <2> SUFFICES ASSUME Overruns PROVE FALSE
    BY DEF GetHndOverrun
  <2>1. NeedMore /\ NextToAllocate + 1 > TableBlocks
    BY DEF Overruns
  <2>2. NextToAllocate \in Int /\ NextToAllocate < TableBlocks
    BY DEF TableIInv, TableTypeOK, Counted
  <2> QED
    BY <2>1, <2>2, Basics
<1>3. ASSUME NEW n \in Tag, LockHnd(n) \/ UnlockHnd(n) PROVE TableIInv'
  BY <1>3, LockKeepsIInv
<1>4. ASSUME NEW n \in Tag, NEW sig \in Signature, FreeHnd(n, sig) PROVE TableIInv'
  BY <1>4, FreeKeepsIInv
<1>5. CASE UNCHANGED tablevars
  <2>1. Allocated' = Allocated
    BY <1>5 DEF tablevars, Allocated, Blocks
  <2> QED
    BY <1>5, <2>1 DEF tablevars, TableIInv, TableTypeOK, TagsPartitioned, Counted, LocksCounted, Delayed
<1> QED
  BY <1>1, <1>2, <1>3, <1>4, <1>5 DEF TableNext

(* What TableIInv says of handles, locks and stale handles. *)
LEMMA TableIInvSafe ==
    ASSUME Fits, TableIInv
    PROVE  HandleFindsObject /\ LockedSurvives /\ StaleRejected /\ OverflowReported
<1>1. held = busy /\ ~overrun /\ Allocated < MaxTags
  BY DEF TableIInv, Counted
<1>2. HandleFindsObject
  BY <1>1, Basics DEF HandleFindsObject, CheckHnd
<1>3. LockedSurvives
  <2> SUFFICES ASSUME NEW n \in Tag, locks[n] > 0
               PROVE  n \in held \cap busy /\ wRefCount[n] > 0
    BY DEF LockedSurvives
  <2>1. n \in busy
    BY DEF TableIInv, LocksCounted
  <2>2. wRefCount[n] = RefLimit \/ wRefCount[n] = locks[n]
    BY <2>1 DEF TableIInv, LocksCounted
  <2> QED
    BY <1>1, <2>1, <2>2, Basics
<1>4. StaleRejected
  <2> SUFFICES ASSUME NEW n \in Tag, gap[n] < LowWater - 1, NEW sig \in Signature,
                      CheckHnd(HandleOf(n), sig)
               PROVE  FALSE
    BY DEF StaleRejected
  <2>1. n \in Nat /\ LowWater \in Nat /\ Allocated \in Nat /\ MaxTags \in Nat
        /\ gap[n] \in 0..LowWater
    BY Basics DEF TableIInv, TableTypeOK
  <2>2. n < Allocated
    <3> SUFFICES ASSUME n >= Allocated PROVE FALSE
      BY <2>1
    <3>1. gap[n] = LowWater
      BY DEF TableIInv, Delayed
    <3> QED
      BY <2>1, <3>1
  <2>3. TagOf(HandleOf(n)) = n
    BY <1>1, <2>1, <2>2, TagOfHandle
  <2>4. n \in busy
    BY <2>3 DEF CheckHnd
  <2>5. gap[n] >= LowWater - 1
    BY <2>4 DEF TableIInv, Delayed
  <2> QED
    BY <2>1, <2>5
<1> QED
  BY <1>1, <1>2, <1>3, <1>4 DEF OverflowReported

(* Within Fits the inductive invariant holds throughout. *)
THEOREM TableIInvHolds == Fits => (TableSpec => []TableIInv)
<1> SUFFICES ASSUME Fits PROVE TableSpec => []TableIInv
  OBVIOUS
<1>1. TableInit => TableIInv
  BY TableInitIInv
<1>2. TableIInv /\ [TableNext]_tablevars => TableIInv'
  BY TableNextKeeps
<1> QED
  BY <1>1, <1>2, PTL DEF TableSpec

(* The variables of HandleObj's table keep their types. *)
THEOREM ObjectsTyped == Fits => (TableSpec => []TableTypeOK)
<1> SUFFICES ASSUME Fits PROVE TableSpec => []TableTypeOK
  OBVIOUS
<1>1. TableSpec => []TableIInv
  BY TableIInvHolds
<1>2. TableIInv => TableTypeOK
  BY DEF TableIInv
<1> QED
  BY <1>1, <1>2, PTL

(* HM_GETHND and HM_FREEHND lose no OBJTAG and hand none out twice. *)
THEOREM TagsStayPartitioned == Fits => (TableSpec => []TagsPartitioned)
<1> SUFFICES ASSUME Fits PROVE TableSpec => []TagsPartitioned
  OBVIOUS
<1>1. TableSpec => []TableIInv
  BY TableIInvHolds
<1>2. TableIInv => TagsPartitioned
  BY DEF TableIInv
<1> QED
  BY <1>1, <1>2, PTL

(* Handles of existing objects are distinct, and HM_GETOBJ and HM_CHECKHND  *)
(* find the object a handle was made for.                                   *)
THEOREM HandlesCorrect == Fits => (TableSpec => []HandleFindsObject)
<1> SUFFICES ASSUME Fits PROVE TableSpec => []HandleFindsObject
  OBVIOUS
<1>1. TableSpec => []TableIInv
  BY TableIInvHolds
<1>2. TableIInv => HandleFindsObject
  BY TableIInvSafe
<1> QED
  BY <1>1, <1>2, PTL

(* HM_FREEHND never frees a locked object, not even one locked so often     *)
(* that wRefCount stopped counting.                                         *)
THEOREM LockedObjectsSurvive == Fits => (TableSpec => []LockedSurvives)
<1> SUFFICES ASSUME Fits PROVE TableSpec => []LockedSurvives
  OBVIOUS
<1>1. TableSpec => []TableIInv
  BY TableIInvHolds
<1>2. TableIInv => LockedSurvives
  BY TableIInvSafe
<1> QED
  BY <1>1, <1>2, PTL

(* A freed handle is refused until LowWater - 1 objects have been created.  *)
THEOREM StaleHandlesRejected == Fits => (TableSpec => []StaleRejected)
<1> SUFFICES ASSUME Fits PROVE TableSpec => []StaleRejected
  OBVIOUS
<1>1. TableSpec => []TableIInv
  BY TableIInvHolds
<1>2. TableIInv => StaleRejected
  BY TableIInvSafe
<1> QED
  BY <1>1, <1>2, PTL

(* AllocateMoreObjects never stores past the end of lplpArray. *)
THEOREM NoOverrun == Fits => (TableSpec => []OverflowReported)
<1> SUFFICES ASSUME Fits PROVE TableSpec => []OverflowReported
  OBVIOUS
<1>1. TableSpec => []TableIInv
  BY TableIInvHolds
<1>2. TableIInv => OverflowReported
  BY TableIInvSafe
<1> QED
  BY <1>1, <1>2, PTL
-----------------------------------------------------------------------------
(* The atom table. *)
UsedSlots == 0..(TableSize - 1)

(* Slot i is the one of name x: x is in its room, or is its number.         *)
NamedAs(i, x) ==
    /\ Entry(i).q = HashOf(x)
    /\ IF x \in Str THEN strsize[x] <= Entry(i).idsize /\ Reads(Entry(i).idx, x)
       ELSE Entry(i).idsize = 0

(* A slot in use: a string's count is the number of references to it.       *)
InUseAs(i, x) ==
    /\ NamedAs(i, x) /\ \A y \in Name : atomRefs[<<i, y>>] # 0 => Goes(x, y)
    /\ Entry(i).refcnt > 0 /\ (x \in Str => Entry(i).refcnt = Refs(i, x))
Unused(i) ==
    /\ Entry(i).q = 0 /\ Entry(i).refcnt = 0 /\ Entry(i).idsize > 0
    /\ Str # {} /\ \A y \in Name : atomRefs[<<i, y>>] = 0
SlotOK(i) == Unused(i) \/ \E x \in Name : InUseAs(i, x)

Apart(i, j) ==
    Entry(i).idsize > 0 /\ Entry(j).idsize > 0 =>
        Entry(i).idx + Entry(i).idsize <= Entry(j).idx

(* The inductive invariant. *)
SlotsOK == \A i \in UsedSlots : SlotOK(i)
RoomsApart == \A i, j \in UsedSlots : i < j => Apart(i, j)
OneSlotEach == \A i, j \in UsedSlots, x \in Name : NamedAs(i, x) /\ NamedAs(j, x) => i = j
NoneBeyond == \A i \in Slot \ UsedSlots, x \in Name : atomRefs[<<i, x>>] = 0
AtomIInv == AtomTypeOK /\ SlotsOK /\ RoomsApart /\ OneSlotEach /\ NoneBeyond

-----------------------------------------------------------------------------
(* Names and atoms *)

LEMMA NameFacts ==
    ASSUME NEW x \in Name
    PROVE  /\ HashOf(x) \in Nat /\ HashOf(x) # 0 /\ SizeOf(x) \in Nat
           /\ x \in Str => /\ x \notin Number /\ HashOf(x) = hash[x]
                           /\ SizeOf(x) = strsize[x] /\ strsize[x] \in Nat /\ strsize[x] >= 1
           /\ x \notin Str => x \in Number /\ HashOf(x) = x /\ SizeOf(x) = 0
<1>1. CASE x \in Str
  <2>1. x \notin Number /\ hash[x] \in Nat /\ hash[x] # 0
    BY <1>1, AtomAssumption
  <2>2. strsize[x] \in Nat /\ strsize[x] # 0
    BY <1>1, AtomAssumption
  <2> QED
    BY <1>1, <2>1, <2>2 DEF HashOf, SizeOf
<1>2. CASE x \notin Str
  <2>1. x \in Number /\ x \in Nat /\ x # 0
    BY <1>2, AtomAssumption DEF Name
  <2> QED
    BY <1>2, <2>1 DEF HashOf, SizeOf
<1> QED
  BY <1>1, <1>2

(* An entry that FindAtomEx takes for x may be that of a name of the other  *)
(* kind, but not of another string or number.                               *)
LEMMA GoesBy ==
    ASSUME NEW i, NEW x \in Name, NEW y \in Name, Matches(i, x), NamedAs(i, y)
    PROVE  Goes(y, x)
<1>1. HashOf(x) = HashOf(y)
  BY DEF Matches, NamedAs
<1>2. ASSUME x \in Str, y \in Str PROVE x = y
  <2>1. 1 \in 1..strsize[x] /\ 1 \in 1..strsize[y]
    BY <1>2, NameFacts
  <2>2. AtomData[Entry(i).idx + 1] = <<x, 1>>
    BY <1>2, <2>1 DEF Matches, Reads
  <2>3. AtomData[Entry(i).idx + 1] = <<y, 1>>
    BY <1>2, <2>1 DEF NamedAs, Reads
  <2> QED
    BY <2>2, <2>3
<1> QED
  BY <1>1, <1>2 DEF Goes

LEMMA NamedMatches ==
    ASSUME NEW i, NEW x \in Name, NamedAs(i, x) PROVE Matches(i, x)
BY DEF NamedAs, Matches

(* The slot FindAtomEx takes for x is in use as a name that x goes by.      *)
LEMMA MatchedSlot ==
    ASSUME SlotsOK, NEW i \in UsedSlots, NEW x \in Name, Matches(i, x)
    PROVE  \E y \in Name : InUseAs(i, y) /\ Goes(y, x)
<1>1. Entry(i).q # 0
  BY NameFacts DEF Matches
<1>2. PICK y \in Name : InUseAs(i, y)
  BY <1>1 DEF SlotsOK, SlotOK, Unused
<1> QED
  BY <1>2, GoesBy DEF InUseAs

(* Slots have atoms of their own, none of them 0. *)
LEMMA AtomOfSlot ==
    ASSUME NEW i \in Slot
    PROVE  /\ AtomOf(i) = ATOMBASE + i /\ AtomOf(i) # 0 /\ SlotOf(AtomOf(i)) = i
           /\ InTable(AtomOf(i)) <=> i \in UsedSlots
<1>1. ATOMBASE + i \in Nat /\ ATOMBASE + i < AtomWord /\ AtomWord \in Nat \ {0}
      /\ ATOMBASE \in Nat \ {0} /\ i \in Nat
  BY AtomAssumption DEF Slot
<1>2. (ATOMBASE + i) % AtomWord = ATOMBASE + i
  BY <1>1
<1>3. AtomOf(i) = ATOMBASE + i
  BY <1>2 DEF AtomOf
<1>4. SlotOf(AtomOf(i)) = i
  BY <1>1, <1>3 DEF SlotOf
<1> QED
  BY <1>1, <1>3, <1>4 DEF InTable, UsedSlots

LEMMA IndexFacts ==
    ASSUME AtomTypeOK
    PROVE  /\ TableSize \in Nat /\ DataSize \in Nat /\ UsedSlots \subseteq Slot /\ UsedSlots \subseteq Nat
           /\ \A i \in UsedSlots : Entry(i) \in AtomEntry /\ i + 1 \in 1..Len(AtomTable)
BY AtomAssumption DEF AtomTypeOK, UsedSlots, Slot, TableSize, DataSize, Entry

(* A slot has one name. *)
LEMMA OneName ==
    ASSUME AtomIInv, NEW i \in UsedSlots, NEW x \in Name, NEW y \in Name,
           NamedAs(i, x), NamedAs(i, y)
    PROVE  x = y
<1>1. Goes(y, x)
  BY NamedMatches, GoesBy
<1>2. CASE x \in Str
  <2>1. Entry(i).idsize # 0
    <3>1. Entry(i).idsize \in Nat
      BY IndexFacts DEF AtomIInv, AtomEntry
    <3> QED
      BY <1>2, <3>1, NameFacts DEF NamedAs
  <2> QED
    BY <1>1, <1>2, <2>1 DEF NamedAs, Goes
<1>3. CASE x \notin Str /\ y \in Str
  <2>1. Entry(i).idsize # 0
    <3>1. Entry(i).idsize \in Nat
      BY IndexFacts DEF AtomIInv, AtomEntry
    <3> QED
      BY <1>3, <3>1, NameFacts DEF NamedAs
  <2> QED
    BY <1>3, <2>1 DEF NamedAs
<1>4. CASE x \notin Str /\ y \notin Str
  BY <1>1, <1>4, NameFacts DEF Goes
<1> QED
  BY <1>2, <1>3, <1>4

(* FindAtomEx returns the atom of the first slot that matches, or 0 if none *)
(* does, and then no slot has the name.                                     *)
LEMMA FindAtomOf ==
    ASSUME AtomIInv, NEW x \in Name
    PROVE  /\ FindAtom(x) = 0 => \A i \in UsedSlots : ~NamedAs(i, x)
           /\ FindAtom(x) # 0 => \E i \in UsedSlots : Matches(i, x) /\ FindAtom(x) = AtomOf(i)
           /\ \A i \in UsedSlots : Alone(x) /\ NamedAs(i, x) => FindAtom(x) = AtomOf(i)
<1>1. Found(x) = {i \in UsedSlots : Matches(i, x)}
  BY DEF Found, UsedSlots
<1>2. UsedSlots \subseteq Slot /\ UsedSlots \subseteq Nat
  BY IndexFacts DEF AtomIInv
<1>3. ASSUME Found(x) # {}
      PROVE  FindAtom(x) # 0 /\ \E i \in UsedSlots : Matches(i, x) /\ FindAtom(x) = AtomOf(i)
  <2>1. Min(Found(x)) \in Found(x)
    <3>1. Found(x) \in SUBSET Nat
      BY <1>1, <1>2
    <3> QED
      BY <1>3, <3>1, MinOfNats
  <2> QED
    BY <1>1, <1>2, <1>3, <2>1, AtomOfSlot DEF FindAtom
<1>4. ASSUME Found(x) = {} PROVE FindAtom(x) = 0 /\ \A i \in UsedSlots : ~NamedAs(i, x)
  BY <1>1, <1>4, NamedMatches DEF FindAtom
<1>5. ASSUME Alone(x), NEW i \in UsedSlots, NamedAs(i, x) PROVE FindAtom(x) = AtomOf(i)
  <2>1. PICK j \in UsedSlots : Matches(j, x) /\ FindAtom(x) = AtomOf(j)
    BY <1>3, <1>4, <1>5
  <2>2. PICK y \in Name : InUseAs(j, y) /\ Goes(y, x)
    BY <2>1, MatchedSlot DEF AtomIInv
  <2>3. y = x
    BY <1>5, <2>2, NameFacts DEF Goes, Alone
  <2> QED
    BY <1>5, <2>1, <2>2, <2>3 DEF AtomIInv, OneSlotEach, InUseAs
<1> QED
  BY <1>3, <1>4, <1>5

-----------------------------------------------------------------------------
(* Steps *)

(* A slot that a step leaves alone, its entry and the room of its name.     *)
Untouched(j) ==
    /\ Entry(j)' = Entry(j)
    /\ \A y \in Name : atomRefs'[<<j, y>>] = atomRefs[<<j, y>>]
    /\ \A k \in 1..Entry(j).idsize : AtomData'[Entry(j).idx + k] = AtomData[Entry(j).idx + k]

LEMMA UntouchedKept ==
    ASSUME AtomIInv, DataSize' \in Nat, DataSize' >= DataSize, NEW j \in UsedSlots, Untouched(j)
    PROVE  SlotOK(j)' /\ \A y \in Name : NamedAs(j, y)' <=> NamedAs(j, y)
<1>1. /\ Entry(j).idx \in Nat /\ Entry(j).idsize \in Nat /\ DataSize \in Nat
      /\ Entry(j).idx + Entry(j).idsize <= DataSize
  BY IndexFacts DEF AtomIInv, AtomTypeOK, AtomEntry, UsedSlots
<1>2. ASSUME NEW y \in Name PROVE NamedAs(j, y)' <=> NamedAs(j, y)
  <2>1. CASE y \in Str /\ strsize[y] <= Entry(j).idsize
    <3>1. Reads(Entry(j).idx, y)' <=> Reads(Entry(j).idx, y)
      <4>1. strsize[y] \in Nat /\ 1..strsize[y] \subseteq 1..Entry(j).idsize
        BY <1>1, <2>1, NameFacts
      <4>2. Entry(j).idx + strsize[y] <= DataSize /\ Entry(j).idx + strsize[y] <= DataSize'
        BY <1>1, <2>1, <4>1
      <4> QED
        BY <4>1, <4>2 DEF Untouched, Reads
    <3> QED
      BY <2>1, <3>1 DEF NamedAs, Untouched
  <2>2. CASE ~(y \in Str /\ strsize[y] <= Entry(j).idsize)
    BY <2>2 DEF NamedAs, Untouched
  <2> QED
    BY <2>1, <2>2
<1>3. CASE Unused(j)
  BY <1>2, <1>3 DEF Unused, Untouched, SlotOK
<1>4. ASSUME NEW y \in Name, InUseAs(j, y) PROVE InUseAs(j, y)'
  <2>1. y \in Str => Refs(j, y)' = Refs(j, y)
    BY DEF Refs, Untouched, Name
  <2>2. \A z \in Name : Goes(y, z)' <=> Goes(y, z)
    BY DEF Goes, HashOf
  <2> QED
    BY <1>2, <1>4, <2>1, <2>2 DEF InUseAs, Untouched
<1> QED
  BY <1>2, <1>3, <1>4 DEF AtomIInv, SlotsOK, SlotOK

(* A step that changes the entry of slot i and references to it, and of the *)
(* data at most the room of slot i, keeps the invariant if it leaves slot i *)
(* in order and gives it no name that another slot has.                     *)
LEMMA SlotStep ==
    ASSUME AtomIInv, NEW i \in UsedSlots, NEW e \in AtomEntry,
           AtomTable' = [AtomTable EXCEPT ![i + 1] = e],
           e.idx = Entry(i).idx, e.idsize = Entry(i).idsize,
           AtomData' \in Seq(Str \X Nat), DataSize' = DataSize,
           \A j \in UsedSlots : j # i => Untouched(j),
           atomRefs' \in [Slot \X Name -> 0..MaxRefs],
           \A j \in Slot, y \in Name : j # i => atomRefs'[<<j, y>>] = atomRefs[<<j, y>>],
           SlotOK(i)',
           \A y \in Name, j \in UsedSlots : NamedAs(i, y)' /\ j # i => ~NamedAs(j, y)
    PROVE  AtomIInv'
<1>1. /\ TableSize \in Nat /\ DataSize \in Nat /\ i + 1 \in 1..Len(AtomTable)
      /\ AtomTable \in Seq(AtomEntry) /\ TableSize <= MaxTable
  BY IndexFacts DEF AtomIInv, AtomTypeOK
<1>2. AtomTable' \in Seq(AtomEntry) /\ TableSize' = TableSize /\ UsedSlots' = UsedSlots
  BY <1>1 DEF TableSize, UsedSlots
<1>3. \A j \in UsedSlots : Entry(j)' = IF j = i THEN e ELSE Entry(j)
  BY <1>1, IndexFacts DEF Entry, UsedSlots, TableSize
<1>4. \A j \in UsedSlots : Entry(j)'.idx = Entry(j).idx /\ Entry(j)'.idsize = Entry(j).idsize
  BY <1>3
<1>5. AtomTypeOK'
  BY <1>1, <1>2, <1>4 DEF AtomTypeOK, AtomIInv, UsedSlots
<1>6. \A j \in UsedSlots : j # i => SlotOK(j)' /\ \A y \in Name : NamedAs(j, y)' <=> NamedAs(j, y)
  BY <1>1, UntouchedKept
<1>7. SlotsOK'
  BY <1>2, <1>6 DEF SlotsOK
<1>8. RoomsApart'
  BY <1>2, <1>4 DEF RoomsApart, Apart, AtomIInv
<1>9. OneSlotEach'
  BY <1>2, <1>6 DEF OneSlotEach, AtomIInv
<1>10. NoneBeyond'
  BY <1>2 DEF NoneBeyond, AtomIInv
<1> QED
  BY <1>5, <1>7, <1>8, <1>9, <1>10 DEF AtomIInv
(* One more reference by a client. *)
LEMMA MoreRefs ==
    ASSUME AtomIInv, NEW i \in Slot, NEW x \in Name, More(i, x)
    PROVE  /\ atomRefs' \in [Slot \X Name -> 0..MaxRefs]
           /\ \A j \in Slot, y \in Name :
                 atomRefs'[<<j, y>>] = IF j = i /\ y = x THEN atomRefs[<<i, x>>] + 1
                                       ELSE atomRefs[<<j, y>>]
BY AtomAssumption DEF More, AtomIInv, AtomTypeOK

LEMMA FewerRefs ==
    ASSUME AtomIInv, NEW i \in Slot, NEW x \in Name, atomRefs[<<i, x>>] > 0,
           atomRefs' = [atomRefs EXCEPT ![<<i, x>>] = @ - 1]
    PROVE  /\ atomRefs' \in [Slot \X Name -> 0..MaxRefs]
           /\ \A j \in Slot, y \in Name :
                 atomRefs'[<<j, y>>] = IF j = i /\ y = x THEN atomRefs[<<i, x>>] + (-1)
                                       ELSE atomRefs[<<j, y>>]
BY AtomAssumption DEF AtomIInv, AtomTypeOK

(* The references to a slot in use as y, when those under x change by one.  *)
LEMMA RefsStep ==
    ASSUME AtomIInv, NEW i \in Slot, NEW x \in Name, NEW y \in Str, Goes(y, x), NEW d \in Int,
           atomRefs' \in [Slot \X Name -> 0..MaxRefs],
           \A z \in Name : atomRefs'[<<i, z>>] = IF z = x THEN atomRefs[<<i, x>>] + d
                                               ELSE atomRefs[<<i, z>>]
    PROVE  Refs(i, y) \in Nat /\ Refs(i, y)' = Refs(i, y) + d
<1>1. \A z \in Name : atomRefs[<<i, z>>] \in Nat
  BY AtomAssumption DEF AtomIInv, AtomTypeOK
<1>2. y \in Name /\ y \notin Number /\ (hash[y] \in Number => hash[y] \in Name /\ hash[y] # y)
  BY NameFacts DEF Name
<1>3. x = y \/ (x \in Number /\ x = hash[y])
  BY <1>2, NameFacts DEF Goes
<1> QED
  BY <1>1, <1>2, <1>3 DEF Refs

(* The count of a slot that keeps its name y changes with the references,   *)
(* here those under x.                                                      *)
LEMMA CountStep ==
    ASSUME AtomIInv, NEW i \in UsedSlots, NEW x \in Name, NEW y \in Name, InUseAs(i, y), Goes(y, x),
           NEW n \in Nat \ {0}, NEW d \in Int,
           AtomTable' = [AtomTable EXCEPT ![i + 1].refcnt = n], AtomData' = AtomData,
           atomRefs' \in [Slot \X Name -> 0..MaxRefs],
           \A j \in Slot, z \in Name :
              atomRefs'[<<j, z>>] = IF j = i /\ z = x THEN atomRefs[<<i, x>>] + d
                                    ELSE atomRefs[<<j, z>>],
           y \in Str => n = Entry(i).refcnt + d
    PROVE  AtomIInv'
<1> DEFINE e == [Entry(i) EXCEPT !.refcnt = n]
<1>1. /\ TableSize \in Nat /\ DataSize \in Nat /\ UsedSlots \subseteq Slot /\ i + 1 \in 1..Len(AtomTable)
      /\ AtomTable \in Seq(AtomEntry) /\ Entry(i) \in AtomEntry /\ i \in Slot
  BY IndexFacts DEF AtomIInv, AtomTypeOK
<1>2. AtomTable' = [AtomTable EXCEPT ![i + 1] = e]
  BY <1>1 DEF Entry
<1>3. e \in AtomEntry /\ e.q = Entry(i).q /\ e.idx = Entry(i).idx /\ e.idsize = Entry(i).idsize
      /\ e.refcnt = n
  BY <1>1 DEF AtomEntry
<1> HIDE DEF e
<1>4. \A j \in UsedSlots : Entry(j)' = IF j = i THEN e ELSE Entry(j)
  BY <1>1, <1>2, IndexFacts DEF Entry, UsedSlots, TableSize, AtomIInv
<1>5. DataSize' = DataSize /\ AtomData' \in Seq(Str \X Nat)
  BY DEF DataSize, AtomIInv, AtomTypeOK
<1>6. \A z \in Name : NamedAs(i, z)' <=> NamedAs(i, z)
  BY <1>3, <1>4, <1>5 DEF NamedAs, Reads
<1>7. ASSUME NEW z \in Name, atomRefs'[<<i, z>>] # 0 PROVE Goes(y, z)'
  <2>1. Goes(y, z)
    BY <1>1, <1>7 DEF InUseAs
  <2> QED
    BY <2>1 DEF Goes, HashOf
<1>8. y \in Str => Entry(i)'.refcnt = Refs(i, y)'
  <2> SUFFICES ASSUME y \in Str PROVE n = Refs(i, y)'
    BY <1>3, <1>4
  <2>1. Refs(i, y)' = Refs(i, y) + d
    BY <1>1, RefsStep
  <2> QED
    BY <2>1 DEF InUseAs
<1>9. InUseAs(i, y)'
  <2>1. NamedAs(i, y)'
    BY <1>6 DEF InUseAs
  <2>2. Entry(i)'.refcnt > 0
    BY <1>3, <1>4
  <2> QED
    BY <1>7, <1>8, <2>1, <2>2 DEF InUseAs
<1>10. \A j \in UsedSlots : j # i => Untouched(j)
  BY <1>1, <1>4 DEF Untouched
<1>11. \A z \in Name, j \in UsedSlots : NamedAs(i, z)' /\ j # i => ~NamedAs(j, z)
  BY <1>6 DEF AtomIInv, OneSlotEach
<1>12. \A j \in Slot, z \in Name : j # i => atomRefs'[<<j, z>>] = atomRefs[<<j, z>>]
  OBVIOUS
<1>13. SlotOK(i)'
  BY <1>9 DEF SlotOK
<1> QED
  BY <1>2, <1>3, <1>5, <1>10, <1>11, <1>12, <1>13, SlotStep
LEMMA EntryUpdate ==
    ASSUME NEW a \in AtomEntry, NEW n \in Nat, NEW q, q = 0 \/ \E x \in Name : q = HashOf(x)
    PROVE  LET e == [a EXCEPT !.refcnt = n, !.q = q]
           IN  e \in AtomEntry /\ e.q = q /\ e.refcnt = n /\ e.idx = a.idx /\ e.idsize = a.idsize
BY DEF AtomEntry

LEMMA HeldSlot ==
    ASSUME AtomIInv, NEW i \in Slot, NEW x \in Name, atomRefs[<<i, x>>] # 0
    PROVE  i \in UsedSlots /\ \E y \in Name : InUseAs(i, y) /\ Goes(y, x)
<1>1. i \in UsedSlots
  BY DEF AtomIInv, NoneBeyond
<1>2. PICK y \in Name : InUseAs(i, y)
  BY <1>1 DEF AtomIInv, SlotsOK, SlotOK, Unused
<1> QED
  BY <1>1, <1>2 DEF InUseAs

LEMMA CountFacts ==
    ASSUME AtomIInv, NEW i \in UsedSlots, NEW x \in Name, InUseAs(i, x)
    PROVE  /\ Entry(i).refcnt \in Nat \ {0} /\ Entry(i).idsize \in Nat
           /\ x \in Str <=> Entry(i).idsize > 0
<1>1. Entry(i).refcnt \in Nat /\ Entry(i).idsize \in Nat
  BY IndexFacts DEF AtomIInv, AtomEntry
<1>2. x \in Str => strsize[x] \in Nat /\ strsize[x] >= 1
  BY NameFacts
<1> QED
  BY <1>1, <1>2 DEF InUseAs, NamedAs

LEMMA AddKnownKeeps == ASSUME AtomIInv, NEW x \in Name, AddKnown(x) PROVE AtomIInv'
<1>1. PICK i \in UsedSlots : Matches(i, x) /\ FindAtom(x) = AtomOf(i)
  BY FindAtomOf DEF AddKnown
<1>2. i \in Slot /\ SlotOf(FindAtom(x)) = i
  BY <1>1, IndexFacts, AtomOfSlot DEF AtomIInv
<1>3. PICK y \in Name : InUseAs(i, y) /\ Goes(y, x)
  BY <1>1, MatchedSlot DEF AtomIInv
<1> DEFINE n == IF Entry(i).idsize > 0 THEN Entry(i).refcnt + 1 ELSE Entry(i).refcnt
<1>4. AtomTable' = [AtomTable EXCEPT ![i + 1].refcnt = n] /\ AtomData' = AtomData
  BY <1>2 DEF AddKnown
<1>5. n \in Nat \ {0} /\ (y \in Str => n = Entry(i).refcnt + 1)
  BY <1>3, CountFacts
<1>6. More(i, x)
  BY <1>2 DEF AddKnown
<1> HIDE DEF n
<1>7. /\ atomRefs' \in [Slot \X Name -> 0..MaxRefs]
      /\ \A j \in Slot, z \in Name :
            atomRefs'[<<j, z>>] = IF j = i /\ z = x THEN atomRefs[<<i, x>>] + 1
                                  ELSE atomRefs[<<j, z>>]
  BY <1>2, <1>6, MoreRefs
<1>8. PICK d \in Int : d = 1
  OBVIOUS
<1>9. /\ \A j \in Slot, z \in Name :
            atomRefs'[<<j, z>>] = IF j = i /\ z = x THEN atomRefs[<<i, x>>] + d
                                  ELSE atomRefs[<<j, z>>]
      /\ y \in Str => n = Entry(i).refcnt + d
  BY <1>8, <1>2, <1>3, <1>4, <1>5, <1>7
<1> QED
  BY <1>2, <1>3, <1>4, <1>5, <1>7, <1>9, CountStep

LEMMA LockAtomKeeps ==
    ASSUME AtomIInv, NEW i \in Slot, NEW x \in Name, LockAtom(AtomOf(i), x) PROVE AtomIInv'
<1>1. SlotOf(AtomOf(i)) = i /\ i \in UsedSlots /\ atomRefs[<<i, x>>] # 0
  BY AtomOfSlot DEF LockAtom
<1>2. PICK y \in Name : InUseAs(i, y) /\ Goes(y, x)
  BY <1>1, HeldSlot
<1> DEFINE n == Entry(i).refcnt + 1
<1>3. AtomTable' = [AtomTable EXCEPT ![i + 1].refcnt = n] /\ More(i, x) /\ AtomData' = AtomData
  BY <1>1 DEF LockAtom
<1>4. n \in Nat \ {0} /\ n = Entry(i).refcnt + 1
  BY <1>1, <1>2, CountFacts
<1> HIDE DEF n
<1>5. /\ atomRefs' \in [Slot \X Name -> 0..MaxRefs]
      /\ \A j \in Slot, z \in Name :
            atomRefs'[<<j, z>>] = IF j = i /\ z = x THEN atomRefs[<<i, x>>] + 1
                                  ELSE atomRefs[<<j, z>>]
  BY <1>3, MoreRefs
<1>8. PICK d \in Int : d = 1
  OBVIOUS
<1>9. /\ \A j \in Slot, z \in Name :
            atomRefs'[<<j, z>>] = IF j = i /\ z = x THEN atomRefs[<<i, x>>] + d
                                  ELSE atomRefs[<<j, z>>]
      /\ y \in Str => n = Entry(i).refcnt + d
  BY <1>8, <1>1, <1>2, <1>3, <1>4, <1>5
<1> QED
  BY <1>1, <1>2, <1>3, <1>4, <1>5, <1>9, CountStep

(* DeleteAtomEx frees a string's slot with the last reference, and nothing  *)
(* else.                                                                    *)
LEMMA DeleteAtomKeeps ==
    ASSUME AtomIInv, NEW i \in Slot, NEW x \in Name, DeleteAtom(AtomOf(i), x) PROVE AtomIInv'
<1> DEFINE left == IF Entry(i).idsize > 0 THEN Entry(i).refcnt - 1 ELSE Entry(i).refcnt
           e == [Entry(i) EXCEPT !.refcnt = left, !.q = IF left = 0 THEN 0 ELSE Entry(i).q]
<1>1. SlotOf(AtomOf(i)) = i /\ i \in UsedSlots /\ atomRefs[<<i, x>>] > 0
      /\ atomRefs[<<i, x>>] # 0
  BY AtomOfSlot DEF DeleteAtom
<1>2. PICK nm \in Name : InUseAs(i, nm) /\ Goes(nm, x)
  BY <1>1, HeldSlot
<1>3. AtomTable' = [AtomTable EXCEPT ![i + 1] = e] /\ AtomData' = AtomData
      /\ atomRefs' = [atomRefs EXCEPT ![<<i, x>>] = @ - 1]
  BY <1>1 DEF DeleteAtom
<1>4. /\ left \in Nat /\ (nm \in Str => left = Entry(i).refcnt + (-1))
      /\ left = 0 => nm \in Str /\ Entry(i).idsize > 0
  BY <1>1, <1>2, CountFacts
<1>5. /\ atomRefs' \in [Slot \X Name -> 0..MaxRefs]
      /\ \A j \in Slot, z \in Name :
            atomRefs'[<<j, z>>] = IF j = i /\ z = x THEN atomRefs[<<i, x>>] + (-1)
                                  ELSE atomRefs[<<j, z>>]
  BY <1>1, <1>3, FewerRefs
<1>6. Entry(i) \in AtomEntry
  BY <1>1, IndexFacts DEF AtomIInv
<1>7. CASE left # 0
  <2>1. AtomTable' = [AtomTable EXCEPT ![i + 1].refcnt = left]
    <3>1. e = [Entry(i) EXCEPT !.refcnt = left]
      BY <1>6, <1>7 DEF AtomEntry
    <3>2. i + 1 \in 1..Len(AtomTable) /\ AtomTable \in Seq(AtomEntry)
      BY <1>1, IndexFacts DEF AtomIInv, AtomTypeOK
    <3> QED
      BY <1>3, <3>1, <3>2 DEF Entry
  <2> HIDE DEF left, e
  <2>2. left \in Nat \ {0} /\ (nm \in Str => left = Entry(i).refcnt + (-1))
    BY <1>4, <1>7
  <2>3. atomRefs' \in [Slot \X Name -> 0..MaxRefs] /\ AtomData' = AtomData /\ i \in UsedSlots
    BY <1>1, <1>3, <1>5
  <2>4. PICK d \in Int : d = -1
    OBVIOUS
  <2>5. /\ \A j \in Slot, z \in Name :
              atomRefs'[<<j, z>>] = IF j = i /\ z = x THEN atomRefs[<<i, x>>] + d
                                    ELSE atomRefs[<<j, z>>]
        /\ nm \in Str => left = Entry(i).refcnt + d
    BY <1>5, <2>2, <2>4
  <2> QED
    BY <1>2, <2>1, <2>2, <2>3, <2>5, CountStep
<1>8. CASE left = 0
  <2>1. e \in AtomEntry /\ e.q = 0 /\ e.refcnt = 0 /\ e.idx = Entry(i).idx /\ e.idsize = Entry(i).idsize
    <3>1. e = [Entry(i) EXCEPT !.refcnt = 0, !.q = 0]
      BY <1>8
    <3> HIDE DEF e, left
    <3> QED
      BY <1>6, <3>1, EntryUpdate DEF AtomEntry
  <2> HIDE DEF left, e
  <2>2. \A j \in UsedSlots : Entry(j)' = IF j = i THEN e ELSE Entry(j)
    BY <1>1, <1>3, IndexFacts DEF Entry, UsedSlots, TableSize, AtomIInv, AtomTypeOK
  <2>3. DataSize' = DataSize /\ AtomData' \in Seq(Str \X Nat)
    BY <1>3 DEF DataSize, AtomIInv, AtomTypeOK
  <2>4. ASSUME NEW z \in Name PROVE atomRefs'[<<i, z>>] = 0
    <3>1. nm \in Str /\ Refs(i, nm)' = 0 /\ Refs(i, nm) \in Nat
      <4>1. nm \in Str /\ Entry(i).refcnt + (-1) = 0 /\ Entry(i).refcnt = Refs(i, nm)
        BY <1>2, <1>4, <1>8 DEF InUseAs
      <4>2. Refs(i, nm) \in Nat /\ Refs(i, nm)' = Refs(i, nm) + (-1)
        BY <1>2, <1>5, <4>1, RefsStep
      <4> QED
        BY <4>1, <4>2
    <3>2. \A w \in Name : atomRefs'[<<i, w>>] \in Nat
      BY <1>5, AtomAssumption
    <3>3. atomRefs'[<<i, nm>>] = 0 /\ (hash[nm] \in Number => atomRefs'[<<i, hash[nm]>>] = 0)
      BY <3>1, <3>2 DEF Refs, Name
    <3>4. CASE Goes(nm, z)
      <4>1. z = nm \/ (z = hash[nm] /\ hash[nm] \in Number)
        BY <3>1, <3>4, NameFacts DEF Goes
      <4> QED
        BY <3>3, <4>1
    <3>5. CASE ~Goes(nm, z)
      BY <1>2, <1>5, <3>5 DEF InUseAs
    <3> QED
      BY <3>4, <3>5
  <2>5. Unused(i)'
    BY <1>4, <1>8, <2>1, <2>2, <1>1, <2>4 DEF Unused
  <2>6. \A y \in Name : ~NamedAs(i, y)'
    BY <1>1, <2>1, <2>2, NameFacts DEF NamedAs
  <2>7. \A j \in UsedSlots : j # i => Untouched(j)
    BY <1>1, <1>3, <1>5, <2>2, IndexFacts DEF Untouched, AtomIInv
  <2>8. \A j \in Slot, y \in Name : j # i => atomRefs'[<<j, y>>] = atomRefs[<<j, y>>]
    BY <1>5
  <2>9. SlotOK(i)'
    BY <2>5 DEF SlotOK
  <2> QED
    BY <1>1, <1>3, <1>5, <2>1, <2>3, <2>6, <2>7, <2>8, <2>9, SlotStep
<1> QED
  BY <1>7, <1>8
(* AddAtomEx takes a free slot with more room than the name needs.          *)
LEMMA SmallestSpare ==
    ASSUME AtomIInv, NEW x \in Name, Spare(x) # {}
    PROVE  Min(Smallest(x)) \in Spare(x)
<1> DEFINE sizes == {Entry(i).idsize : i \in Spare(x)}
<1>1. Spare(x) \subseteq UsedSlots /\ UsedSlots \subseteq Nat
  BY IndexFacts DEF Spare, UsedSlots, AtomIInv
<1>2. sizes \in SUBSET Nat /\ sizes # {}
  BY <1>1, IndexFacts DEF AtomIInv, AtomEntry
<1>3. PICK z \in sizes : \A y \in sizes : z <= y
  BY <1>2, LeastNumber
<1>4. PICK i \in Spare(x) : Entry(i).idsize = z
  OBVIOUS
<1>5. \A j \in Spare(x) : Entry(j).idsize \in sizes
  OBVIOUS
<1>6. i \in Smallest(x)
  BY <1>3, <1>4, <1>5 DEF Smallest
<1>7. Smallest(x) \in SUBSET Nat
  BY <1>1 DEF Smallest
<1>8. Min(Smallest(x)) \in Smallest(x)
  BY <1>6, <1>7, MinOfNats
<1> QED
  BY <1>8 DEF Smallest

LEMMA AddReusedKeeps == ASSUME AtomIInv, NEW x \in Name, AddReused(x) PROVE AtomIInv'
<1>1. x \in Str /\ Spare(x) # {} /\ FindAtom(x) = 0
  BY DEF AddReused, Reusable
<1>2. PICK i \in Spare(x) : i = Min(Smallest(x))
  BY <1>1, SmallestSpare
<1>0. PICK idx : idx = Entry(i).idx
  OBVIOUS
<1> DEFINE e == [Entry(i) EXCEPT !.q = HashOf(x), !.refcnt = 1]
<1>3. i \in UsedSlots /\ Entry(i).q = 0 /\ Entry(i).idsize > strsize[x]
  BY <1>1, <1>2, NameFacts DEF Spare, UsedSlots
<1>4. /\ AtomTable' = [AtomTable EXCEPT ![i + 1] = e] /\ More(i, x)
      /\ AtomData' = [p \in 1..DataSize |->
            IF p - idx \in 1..strsize[x] THEN <<x, p - idx>> ELSE AtomData[p]]
  BY <1>0, <1>2 DEF AddReused
<1>5. /\ idx \in Nat /\ Entry(i).idsize \in Nat /\ idx + Entry(i).idsize <= DataSize
      /\ DataSize \in Nat /\ strsize[x] \in Nat /\ strsize[x] >= 1 /\ i \in Slot
      /\ Entry(i) \in AtomEntry
  BY <1>0, <1>1, <1>3, IndexFacts, NameFacts DEF AtomIInv, AtomTypeOK, AtomEntry, UsedSlots
<1>6. e \in AtomEntry /\ e.idx = idx /\ e.idsize = Entry(i).idsize /\ e.q = HashOf(x) /\ e.refcnt = 1
  BY <1>0, <1>5, EntryUpdate DEF AtomEntry
<1> HIDE DEF e
<1>7. \A j \in UsedSlots : Entry(j)' = IF j = i THEN e ELSE Entry(j)
  BY <1>3, <1>4, IndexFacts DEF Entry, UsedSlots, TableSize, AtomIInv, AtomTypeOK
<1>8. /\ atomRefs' \in [Slot \X Name -> 0..MaxRefs]
      /\ \A j \in Slot, y \in Name :
            atomRefs'[<<j, y>>] = IF j = i /\ y = x THEN atomRefs[<<i, x>>] + 1
                                  ELSE atomRefs[<<j, y>>]
  BY <1>4, <1>5, MoreRefs
<1>9. DataSize' = DataSize /\ AtomData' \in Seq(Str \X Nat)
  <2>1. \A p \in 1..DataSize : AtomData'[p] \in Str \X Nat
    BY <1>1, <1>4 DEF AtomIInv, AtomTypeOK, DataSize
  <2> QED
    BY <1>4, <1>5, <2>1 DEF DataSize
<1>10. \A y \in Name : atomRefs[<<i, y>>] = 0
  <2>1. \A y \in Name : ~InUseAs(i, y)
    BY <1>3, NameFacts DEF InUseAs, NamedAs
  <2> QED
    BY <1>5, <2>1, HeldSlot
<1>11. NamedAs(i, x)'
  <2>1. \A k \in 1..strsize[x] : AtomData'[idx + k] = <<x, k>>
    BY <1>3, <1>4, <1>5
  <2>2. Entry(i)'.idx = idx /\ Entry(i)'.idsize = Entry(i).idsize /\ Entry(i)'.q = HashOf(x)
    BY <1>3, <1>6, <1>7
  <2>3. Reads(idx, x)'
    BY <1>3, <1>5, <1>9, <2>1 DEF Reads
  <2> QED
    BY <1>1, <1>3, <1>5, <2>2, <2>3 DEF NamedAs
<1>12. SlotOK(i)'
  <2>1. \A y \in Name : atomRefs'[<<i, y>>] = IF y = x THEN 1 ELSE 0
    BY <1>5, <1>8, <1>10
  <2>2. Entry(i)'.refcnt = 1
    BY <1>3, <1>6, <1>7
  <2>3. Goes(x, x)
    BY DEF Goes
  <2>4. x \in Str => Refs(i, x)' = 1
    BY <2>1, NameFacts DEF Refs, Name
  <2>5. \A y \in Name : atomRefs'[<<i, y>>] # 0 => Goes(x, y)'
    BY <2>1, <2>3 DEF Goes, HashOf
  <2> QED
    BY <1>11, <2>2, <2>4, <2>5 DEF SlotOK, InUseAs
<1>13. ASSUME NEW j \in UsedSlots, j # i PROVE Untouched(j)
  <2>1. Entry(j)' = Entry(j) /\ \A y \in Name : atomRefs'[<<j, y>>] = atomRefs[<<j, y>>]
    BY <1>7, <1>8, <1>13, IndexFacts DEF AtomIInv
  <2>2. /\ Entry(j).idx \in Nat /\ Entry(j).idsize \in Nat
        /\ Entry(j).idx + Entry(j).idsize <= DataSize /\ j \in Nat /\ i \in Nat
    BY <1>3, IndexFacts DEF AtomIInv, AtomTypeOK, AtomEntry, UsedSlots
  <2>3. Entry(j).idsize > 0 =>
           Entry(j).idx + Entry(j).idsize <= idx \/ idx + Entry(i).idsize <= Entry(j).idx
    BY <1>0, <1>3, <1>5, <1>13, <2>2 DEF AtomIInv, RoomsApart, Apart
  <2>4. ASSUME NEW k \in 1..Entry(j).idsize
        PROVE  AtomData'[Entry(j).idx + k] = AtomData[Entry(j).idx + k]
    <3>1. Entry(j).idx + k \in 1..DataSize /\ Entry(j).idx + k - idx \notin 1..strsize[x]
      BY <1>3, <1>5, <2>2, <2>3
    <3> DEFINE p == Entry(j).idx + k
    <3> HIDE DEF p
    <3>0. p \in 1..DataSize /\ p - idx \notin 1..strsize[x]
      BY <1>5, <2>2, <3>1 DEF p
    <3>2. AtomData'[p] = IF p - idx \in 1..strsize[x] THEN <<x, p - idx>> ELSE AtomData[p]
      BY <1>4, <3>0
    <3> QED
      BY <3>0, <3>2 DEF p
  <2> QED
    BY <2>1, <2>4 DEF Untouched
<1>14. ASSUME NEW y \in Name, NEW j \in UsedSlots, NamedAs(i, y)', j # i PROVE ~NamedAs(j, y)
  <2>1. y = x
    <3>1. Entry(i)'.q = HashOf(x) /\ Entry(i)'.idx = idx
      BY <1>3, <1>6, <1>7
    <3>2. y \in Str
      <4>1. Entry(i)'.idsize = Entry(i).idsize /\ Entry(i).idsize > 0
        BY <1>3, <1>5, <1>6, <1>7
      <4> QED
        BY <1>14, <4>1 DEF NamedAs
    <3>3. 1 \in 1..strsize[y] /\ 1 \in 1..strsize[x]
      BY <1>5, <3>2, NameFacts
    <3>4. AtomData'[idx + 1] = <<y, 1>>
      BY <1>14, <3>1, <3>2, <3>3 DEF NamedAs, Reads
    <3>5. AtomData'[idx + 1] = <<x, 1>>
      BY <1>1, <1>11, <3>1, <3>3 DEF NamedAs, Reads
    <3> QED
      BY <3>4, <3>5
  <2> QED
    BY <1>1, <2>1, FindAtomOf
<1>15. \A j \in Slot, y \in Name : j # i => atomRefs'[<<j, y>>] = atomRefs[<<j, y>>]
  BY <1>8
<1> QED
  BY <1>0, <1>3, <1>4, <1>6, <1>8, <1>9, <1>12, <1>13, <1>14, <1>15, SlotStep

LEMMA Concat ==
    ASSUME NEW S, NEW a \in Seq(S), NEW b \in Seq(S)
    PROVE  a \o b \in Seq(S) /\ Len(a \o b) = Len(a) + Len(b)
OBVIOUS

LEMMA AddNewKeeps == ASSUME AtomIInv, NEW x \in Name, AddNew(x) PROVE AtomIInv'
<1>1. PICK i : i = TableSize
  OBVIOUS
<1>2. PICK idx : idx = IF x \in Str THEN DataSize ELSE 0
  OBVIOUS
<1> DEFINE e == [q |-> HashOf(x), refcnt |-> 1, idsize |-> SizeOf(x), idx |-> idx]
           text == [k \in 1..SizeOf(x) |-> <<x, k>>]
<1>3. /\ FindAtom(x) = 0 /\ AtomTable' = Append(AtomTable, e) /\ i < MaxTable
      /\ AtomData' = AtomData \o text /\ More(i, x)
  BY <1>1, <1>2 DEF AddNew
<1>4. /\ i \in Nat /\ i \in Slot /\ DataSize \in Nat /\ idx \in Nat /\ UsedSlots = 0..(i - 1)
      /\ AtomTable \in Seq(AtomEntry) /\ AtomData \in Seq(Str \X Nat)
  BY <1>1, <1>2, <1>3, IndexFacts, AtomAssumption DEF AtomIInv, AtomTypeOK, Slot, UsedSlots
<1>5. HashOf(x) \in Nat /\ HashOf(x) # 0 /\ SizeOf(x) \in Nat
      /\ (x \in Str => SizeOf(x) = strsize[x] /\ SizeOf(x) >= 1)
      /\ (x \notin Str => SizeOf(x) = 0)
  BY NameFacts
<1>6. e \in AtomEntry
  BY <1>4, <1>5 DEF AtomEntry
<1>7. text \in Seq(Str \X Nat) /\ Len(text) = SizeOf(x)
  BY <1>5
<1>8. AtomTable' \in Seq(AtomEntry) /\ TableSize' = i + 1 /\ UsedSlots' = UsedSlots \cup {i}
  BY <1>1, <1>3, <1>4, <1>6 DEF TableSize, UsedSlots
<1>9. Entry(i)' = e /\ \A j \in UsedSlots : Entry(j)' = Entry(j)
  BY <1>1, <1>3, <1>4, <1>6 DEF Entry, TableSize
<1>10. AtomData' \in Seq(Str \X Nat) /\ DataSize' = DataSize + SizeOf(x)
  <2> HIDE DEF text
  <2>1. Len(AtomData \o text) = Len(AtomData) + SizeOf(x)
    BY <1>4, <1>7, Concat
  <2>2. AtomData \o text \in Seq(Str \X Nat)
    BY <1>4, <1>7
  <2> QED
    BY <1>3, <2>1, <2>2 DEF DataSize
<1>11. /\ \A p \in 1..DataSize : AtomData'[p] = AtomData[p]
       /\ \A k \in 1..SizeOf(x) : AtomData'[DataSize + k] = <<x, k>>
  BY <1>3, <1>4, <1>5, <1>7, SMTT(40) DEF DataSize
<1>12. /\ atomRefs' \in [Slot \X Name -> 0..MaxRefs]
       /\ \A j \in Slot, y \in Name :
             atomRefs'[<<j, y>>] = IF j = i /\ y = x THEN atomRefs[<<i, x>>] + 1
                                   ELSE atomRefs[<<j, y>>]
  BY <1>3, <1>4, MoreRefs
<1>13. i \notin UsedSlots /\ UsedSlots \subseteq Slot /\ \A y \in Name : atomRefs[<<i, y>>] = 0
  BY <1>4, IndexFacts DEF AtomIInv, NoneBeyond
<1>14. ASSUME NEW j \in UsedSlots PROVE Untouched(j)
  <2>1. /\ Entry(j).idx \in Nat /\ Entry(j).idsize \in Nat
        /\ Entry(j).idx + Entry(j).idsize <= DataSize
    BY IndexFacts DEF AtomIInv, AtomTypeOK, AtomEntry, UsedSlots
  <2>2. \A k \in 1..Entry(j).idsize : Entry(j).idx + k \in 1..DataSize
    BY <1>4, <2>1
  <2>3. \A y \in Name : atomRefs'[<<j, y>>] = atomRefs[<<j, y>>]
    BY <1>12, <1>13
  <2> QED
    BY <1>9, <1>11, <2>2, <2>3 DEF Untouched
<1>15. \A j \in UsedSlots : SlotOK(j)' /\ \A y \in Name : NamedAs(j, y)' <=> NamedAs(j, y)
  BY <1>4, <1>5, <1>10, <1>14, UntouchedKept
<1>16. AtomTypeOK'
  <2>1. e.idx + e.idsize <= DataSize'
    BY <1>2, <1>4, <1>5, <1>10
  <2>2. \A j \in UsedSlots : Entry(j).idx + Entry(j).idsize <= DataSize'
    <3>1. DataSize <= DataSize' /\ DataSize' \in Nat /\ DataSize \in Nat
      BY <1>4, <1>5, <1>10
    <3>2. \A j \in UsedSlots : Entry(j).idx \in Nat /\ Entry(j).idsize \in Nat
      BY IndexFacts DEF AtomIInv, AtomEntry
    <3>3. \A j \in UsedSlots : Entry(j).idx + Entry(j).idsize <= DataSize
      BY DEF AtomIInv, AtomTypeOK, UsedSlots
    <3> QED
      BY <3>1, <3>2, <3>3
  <2>3. i + 1 <= MaxTable
    BY <1>3, <1>4, AtomAssumption
  <2>4. \A j \in UsedSlots' : Entry(j)'.idx + Entry(j)'.idsize <= DataSize'
    BY <1>8, <1>9, <2>1, <2>2
  <2> QED
    BY <1>8, <1>10, <1>12, <2>3, <2>4 DEF AtomTypeOK, UsedSlots
<1>17. NamedAs(i, x)'
  <2>1. CASE x \in Str
    <3>1. idx = DataSize /\ SizeOf(x) = strsize[x] /\ strsize[x] \in Nat
      BY <1>2, <1>5, <2>1
    <3>2. PICK d \in Nat : d = DataSize
      BY <1>4
    <3>3. Reads(d, x)'
      BY <1>10, <1>11, <3>1, <3>2 DEF Reads
    <3> QED
      BY <1>9, <2>1, <3>1, <3>2, <3>3 DEF NamedAs
  <2>2. CASE x \notin Str
    BY <1>5, <1>9, <2>2 DEF NamedAs
  <2> QED
    BY <2>1, <2>2
<1>18. SlotOK(i)'
  <2>1. \A y \in Name : atomRefs'[<<i, y>>] = IF y = x THEN 1 ELSE 0
    <3>1. \A y \in Name : atomRefs'[<<i, y>>] = IF y = x THEN atomRefs[<<i, x>>] + 1
                                                  ELSE atomRefs[<<i, y>>]
      BY <1>4, <1>12
    <3>2. atomRefs[<<i, x>>] + 1 = 1
      BY <1>13
    <3> QED
      BY <1>13, <3>1, <3>2
  <2>2. Entry(i)'.refcnt = 1
    BY <1>9
  <2>3. Goes(x, x)
    BY DEF Goes
  <2>4. x \in Str => Refs(i, x)' = 1
    BY <2>1, NameFacts DEF Refs, Name
  <2>5. \A y \in Name : atomRefs'[<<i, y>>] # 0 => Goes(x, y)'
    BY <2>1, <2>3 DEF Goes, HashOf
  <2> QED
    BY <1>17, <2>2, <2>4, <2>5 DEF SlotOK, InUseAs
<1>19. SlotsOK'
  BY <1>8, <1>15, <1>18 DEF SlotsOK
<1>20. RoomsApart'
  <2>1. ASSUME NEW j \in UsedSlots PROVE Apart(j, i)'
    <3>1. Entry(j).idx + Entry(j).idsize <= DataSize
      BY DEF AtomIInv, AtomTypeOK, UsedSlots
    <3>2. e.idsize > 0 => idx = DataSize
      BY <1>2, <1>5
    <3> QED
      BY <1>9, <3>1, <3>2 DEF Apart
  <2>2. \A j, k \in UsedSlots : Apart(j, k)' <=> Apart(j, k)
    BY <1>9 DEF Apart
  <2>3. \A k \in UsedSlots : ~(i < k)
    BY <1>4
  <2> QED
    BY <1>4, <1>8, <2>1, <2>2, <2>3 DEF RoomsApart, AtomIInv
<1>21. OneSlotEach'
  <2>1. ASSUME NEW y \in Name, NEW j \in UsedSlots, NamedAs(i, y)', NamedAs(j, y) PROVE FALSE
    <3>1. y = x
      <4>1. HashOf(y) = HashOf(x)
        BY <1>9, <2>1 DEF NamedAs
      <4>2. CASE x \in Str
        <5>1. y \in Str /\ idx = DataSize
          <6>1. e.idsize >= 1 /\ Entry(i)'.idsize = e.idsize
            BY <1>5, <1>9, <4>2
          <6> QED
            BY <1>2, <2>1, <4>2, <6>1 DEF NamedAs
        <5>2. 1 \in 1..strsize[y] /\ 1 \in 1..SizeOf(x)
          BY <1>5, <4>2, <5>1, NameFacts
        <5>3. AtomData'[idx + 1] = <<y, 1>>
          BY <1>9, <2>1, <5>1, <5>2 DEF NamedAs, Reads
        <5> QED
          BY <1>11, <5>1, <5>2, <5>3
      <4>3. CASE x \notin Str
        <5>1. y \notin Str
          <6>1. Entry(i)'.idsize = 0
            BY <1>5, <1>9, <4>3
          <6> QED
            BY <2>1, <6>1, NameFacts DEF NamedAs
        <5> QED
          BY <4>1, <4>3, <5>1, NameFacts
      <4> QED
        BY <4>2, <4>3
    <3> QED
      BY <1>3, <2>1, <3>1, FindAtomOf
  <2> QED
    BY <1>8, <1>15, <2>1 DEF OneSlotEach, AtomIInv
<1>22. NoneBeyond'
  BY <1>8, <1>12 DEF NoneBeyond, AtomIInv
<1> QED
  BY <1>16, <1>19, <1>20, <1>21, <1>22 DEF AtomIInv

-----------------------------------------------------------------------------
LEMMA AtomInitIInv == AtomInit => AtomIInv
<1> SUFFICES ASSUME AtomInit PROVE AtomIInv
  OBVIOUS
<1>1. TableSize = 0 /\ UsedSlots = {} /\ AtomTable \in Seq(AtomEntry) /\ AtomData \in Seq(Str \X Nat)
  BY DEF AtomInit, TableSize, UsedSlots
<1>2. AtomTypeOK
  BY <1>1, AtomAssumption DEF AtomInit, AtomTypeOK, UsedSlots
<1> QED
  BY <1>1, <1>2 DEF AtomIInv, SlotsOK, RoomsApart, OneSlotEach, NoneBeyond, AtomInit

LEMMA AtomNextKeeps == AtomIInv /\ [AtomNext]_atomvars => AtomIInv'
<1> SUFFICES ASSUME AtomIInv, [AtomNext]_atomvars PROVE AtomIInv'
  OBVIOUS
<1>1. ASSUME NEW x \in Name, AddKnown(x) \/ AddReused(x) \/ AddNew(x) PROVE AtomIInv'
  BY <1>1, AddKnownKeeps, AddReusedKeeps, AddNewKeeps
<1>2. ASSUME NEW i \in Slot, NEW x \in Name, DeleteAtom(AtomOf(i), x) \/ LockAtom(AtomOf(i), x)
      PROVE  AtomIInv'
  BY <1>2, DeleteAtomKeeps, LockAtomKeeps
<1>3. CASE UNCHANGED atomvars
  <2>1. AtomTypeOK' /\ RoomsApart' /\ NoneBeyond'
    BY <1>3 DEF atomvars, AtomIInv, AtomTypeOK, RoomsApart, Apart, NoneBeyond, UsedSlots, TableSize,
       DataSize, Entry
  <2>2. UsedSlots' = UsedSlots /\ \A i : Entry(i)' = Entry(i)
    BY <1>3 DEF atomvars, UsedSlots, TableSize, Entry
  <2>3. DataSize' = DataSize /\ DataSize \in Nat /\ DataSize' >= DataSize
    BY <1>3 DEF atomvars, DataSize, AtomIInv, AtomTypeOK
  <2>4. \A i \in UsedSlots : Untouched(i)
    BY <1>3, <2>2 DEF atomvars, Untouched
  <2>5. \A i \in UsedSlots : SlotOK(i)' /\ \A y \in Name : NamedAs(i, y)' <=> NamedAs(i, y)
    BY <2>3, <2>4, UntouchedKept
  <2> QED
    BY <2>1, <2>2, <2>5 DEF AtomIInv, SlotsOK, OneSlotEach
<1> QED
  BY <1>1, <1>2, <1>3 DEF AtomNext

(* The invariant holds in every reachable state. *)
THEOREM AtomIInvHolds == AtomSpec => []AtomIInv
BY AtomInitIInv, AtomNextKeeps, PTL DEF AtomSpec

(* AtomTypeOK is always true: every name lies within the data. *)
THEOREM AtomsTyped == AtomSpec => []AtomTypeOK
<1>1. AtomIInv => AtomTypeOK
  BY DEF AtomIInv
<1> QED
  BY AtomIInvHolds, <1>1, PTL

(* HeldAtomsKept is always true: while a client has an atom, GetAtomNameEx  *)
(* returns the name it was added under, or the one of the other kind with   *)
(* its hash, and FindAtomEx finds it by a name that does not collide,       *)
(* whatever other clients add and delete meanwhile.                         *)
THEOREM AtomsKeepTheirNames == AtomSpec => []HeldAtomsKept
<1>1. ASSUME AtomIInv PROVE HeldAtomsKept
  <2> SUFFICES ASSUME NEW i \in Slot, NEW x \in Name, atomRefs[<<i, x>>] > 0
               PROVE  /\ \E y \in Name : Goes(y, x) /\ HasName(AtomOf(i), y)
                      /\ Alone(x) => FindAtom(x) = AtomOf(i)
    BY DEF HeldAtomsKept
  <2>1. PICK y \in Name : i \in UsedSlots /\ InUseAs(i, y) /\ Goes(y, x)
    BY <1>1, HeldSlot
  <2>2. ASSUME Alone(x) PROVE FindAtom(x) = AtomOf(i)
    <3>1. InUseAs(i, x)
      BY <2>1, <2>2, NameFacts DEF Goes, Alone
    <3> QED
      BY <1>1, <2>1, <2>2, <3>1, FindAtomOf DEF InUseAs
  <2>3. InTable(AtomOf(i)) /\ SlotOf(AtomOf(i)) = i
    BY <2>1, AtomOfSlot
  <2>4. Entry(i).idsize > 0 => y \in Str
    BY <1>1, <2>1, CountFacts
  <2>5. y \in Str => Entry(i).idsize > 0 /\ Reads(Entry(i).idx, y)
    BY <1>1, <2>1, CountFacts DEF InUseAs, NamedAs
  <2>6. y \notin Str => y \in Number /\ Entry(i).q = y
    BY <2>1, NameFacts DEF InUseAs, NamedAs
  <2>7. HasName(AtomOf(i), y)
    BY <2>3, <2>4, <2>5, <2>6 DEF HasName
  <2> QED
    BY <2>1, <2>2, <2>7
<1> QED
  BY AtomIInvHolds, <1>1, PTL

(* RefsCounted is always true: the count of a string's slot is the number   *)
(* of references clients hold, also when a number shares the string's atom, *)
(* and FindAtomEx can no longer find the string exactly when it is 0.       *)
THEOREM CountsAreReferences == AtomSpec => []RefsCounted
<1>1. ASSUME AtomIInv PROVE RefsCounted
  <2> DEFINE CountIs(i, x) ==
                /\ Entry(i).refcnt = Refs(i, x)
                /\ \A y \in Name :
                      atomRefs[<<i, y>>] # 0 => y = x \/ (y \in Number /\ y = hash[x])
  <2> SUFFICES ASSUME NEW i \in UsedSlots, Entry(i).idsize > 0
               PROVE  /\ \E x \in Str : CountIs(i, x)
                      /\ Entry(i).q = 0 <=> Entry(i).refcnt = 0
    BY DEF RefsCounted, UsedSlots
  <2>1. CASE Unused(i)
    <3>1. PICK x : x \in Str
      BY <2>1 DEF Unused
    <3>2. Refs(i, x) = 0
      BY <2>1, <3>1 DEF Unused, Refs, Name
    <3>3. CountIs(i, x)
      BY <2>1, <3>2 DEF Unused
    <3> QED
      BY <2>1, <3>1, <3>3 DEF Unused
  <2>2. ASSUME NEW x \in Name, InUseAs(i, x)
        PROVE  /\ \E y \in Str : CountIs(i, y)
               /\ Entry(i).q = 0 <=> Entry(i).refcnt = 0
    <3>1. x \in Str /\ Entry(i).refcnt = Refs(i, x) /\ Entry(i).refcnt # 0
      BY <1>1, <2>2, CountFacts DEF InUseAs
    <3>2. ASSUME NEW y \in Name, atomRefs[<<i, y>>] # 0
          PROVE  y = x \/ (y \in Number /\ y = hash[x])
      <4>1. Goes(x, y)
        BY <2>2, <3>2 DEF InUseAs
      <4> QED
        BY <3>1, <4>1, NameFacts DEF Goes
    <3>3. Entry(i).q # 0
      BY <2>2, NameFacts DEF InUseAs, NamedAs
    <3> QED
      BY <3>1, <3>2, <3>3
  <2> QED
    BY <1>1, <2>1, <2>2 DEF AtomIInv, SlotsOK, SlotOK
<1> QED
  BY AtomIInvHolds, <1>1, PTL
-----------------------------------------------------------------------------
(* The clipboard. *)
ClipCall == {"delete", "emptied", "change", "list", "read"}
Took == {"checkowner", "cutbuffer", "load"}

(* A program that opens the clipboard runs and has not opened it yet; one   *)
(* that is in another call has.                                             *)
PhasesOK ==
    \A p \in Prog :
       /\ prog[p].at \in Opening \cup {"getowner"} => prog[p].up /\ ~prog[p].hwndOpen
       /\ prog[p].at \in ClipCall => prog[p].hwndOpen
       /\ prog[p].hwndOpen => prog[p].up

(* The owner of the selection has the clipboard open, or has passed SetOwner*)
(* on its way there, and knows that closing gives the selection back.       *)
OwnerKnown ==
    \A p \in Prog : selection = p =>
       /\ prog[p].hwndOpen \/ prog[p].at \in Took
       /\ prog[p].at # "checkowner" => prog[p].winOwner # Nobody

(* With SEVERE the server is grabbed while the clipboard is being opened,   *)
(* and the selection cannot change between the steps of that.               *)
Exclusive ==
    SEVERE => \A p \in Prog :
       /\ prog[p].at \in Opening \cup {"getowner"} => grabber = p
       /\ prog[p].at = "setowner" => selection = Nobody
       /\ prog[p].hwndOpen \/ prog[p].at \in Took => selection = p

(* The formats of DrvInitIPC's table are never missing from it.             *)
PredefinedListed ==
    \A f \in Predefined :
       /\ formats[f] # "absent"
       /\ \A p \in Prog : prog[p].copy[f] # "absent" /\ prog[p].lpAllFormats[f] # "absent"

(* What a program that has the clipboard to itself finds in the properties: *)
(* nothing between emptying it and writing, and then what it wrote.         *)
DataOwned ==
    \A p \in Prog : prog[p].hwndOpen =>
       /\ prog[p].at \in {"change", "list"} => prog[p].emptied /\ prog[p].wrote = {}
       /\ SEVERE =>
          /\ \/ prog[p].at = "emptied"
             \/ prog[p].emptied /\ prog[p].wrote = {} /\ prog[p].at # "list"
             => \A f \in Predefined : data[f] = Nobody
          /\ prog[p].at = "list" /\ prog[p].f \notin Registered => data[prog[p].f] = p
          /\ prog[p].at # "emptied" =>
                \A f \in prog[p].wrote \ Registered : data[f] = p

(* The inductive invariant.                                                 *)
ClipIInv == ClipTypeOK /\ PhasesOK /\ OwnerKnown /\ Exclusive /\ PredefinedListed /\ DataOwned

-----------------------------------------------------------------------------
(* ClipIInv holds initially. *)
LEMMA ClipInitIInv == ClipInit => ClipIInv
<1> SUFFICES ASSUME ClipInit PROVE ClipIInv
  OBVIOUS
<1> USE ClipAssumption DEF ClipInit, ProgState, Stopped, NoFormats, Format, Listed, Lengths
<1>1. ClipTypeOK
  BY DEF ClipTypeOK, Request, Opening
<1>2. PhasesOK /\ OwnerKnown /\ Exclusive
  BY DEF PhasesOK, OwnerKnown, Exclusive, Opening, ClipCall, Took
<1>3. PredefinedListed /\ DataOwned
  BY DEF PredefinedListed, DataOwned
<1> QED
  BY <1>1, <1>2, <1>3 DEF ClipIInv

(* The records Opened and Done leave. *)
LEMMA OpenedRecord ==
    ASSUME NEW r \in ProgState
    PROVE  /\ Opened(r) \in ProgState
           /\ Opened(r).up = r.up /\ Opened(r).hwndOpen /\ Opened(r).at = "idle"
           /\ Opened(r).winOwner = r.winOwner /\ Opened(r).copy = r.copy
           /\ Opened(r).lpAllFormats = r.lpAllFormats
           /\ ~Opened(r).emptied /\ Opened(r).wrote = {}
BY DEF ProgState, Opened, Request, Opening

LEMMA DoneRecord ==
    ASSUME NEW r \in ProgState
    PROVE  /\ Done(r) \in ProgState
           /\ Done(r).up = r.up /\ Done(r).hwndOpen = r.hwndOpen /\ Done(r).at = "idle"
           /\ Done(r).winOwner = r.winOwner /\ Done(r).copy = NoFormats
           /\ Done(r).lpAllFormats = r.lpAllFormats
           /\ Done(r).emptied = r.emptied /\ Done(r).wrote = r.wrote
<1> NoFormats \in [Listed -> Lengths] /\ Text \in Format
  BY DEF NoFormats, Lengths, Format
<1> QED
  BY DEF ProgState, Done, Request, Opening

(* What the requests that end a call change in the program's record.        *)
Others(p) == \A q \in Prog \ {p} : prog'[q] = prog[q]
Same(p) ==
    /\ prog' \in [Prog -> ProgState] /\ Others(p)
    /\ prog[p].up /\ prog'[p].up
    /\ SEVERE' = SEVERE /\ selection' = selection /\ data' = data

LEMMA CutBufferRecord ==
    ASSUME ClipTypeOK, NEW p \in Prog, CutBuffer(p)
    PROVE  /\ Same(p)
           /\ prog[p].at = "cutbuffer"
           /\ formats' = formats
           /\ prog'[p].winOwner = prog[p].winOwner /\ prog'[p].copy = prog[p].copy
           /\ prog'[p].lpAllFormats = prog[p].lpAllFormats
           /\ \/ prog'[p].at = "idle" /\ prog'[p].hwndOpen /\ ~prog'[p].emptied
                 /\ prog'[p].wrote = {}
                 /\ grabber' = IF SEVERE THEN Nobody ELSE grabber
              \/ prog'[p].at = "load" /\ prog'[p].hwndOpen = prog[p].hwndOpen
                 /\ prog'[p].emptied = prog[p].emptied /\ prog'[p].wrote = prog[p].wrote
                 /\ grabber' = grabber
<1>0. prog[p].at = "cutbuffer" /\ prog[p].up /\ SEVERE' = SEVERE /\ selection' = selection /\ data' = data
      /\ formats' = formats
      /\ IF data[Text] = Nobody THEN grabber' = (IF SEVERE THEN Nobody ELSE grabber)
         ELSE grabber' = grabber
  BY DEF CutBuffer, At, Server
<1>1. prog[p] \in ProgState /\ prog \in [Prog -> ProgState]
  BY DEF ClipTypeOK
<1>2. CASE data[Text] = Nobody
  <2>1. prog' = [prog EXCEPT ![p] = Opened(prog[p])]
    BY <1>2 DEF CutBuffer
  <2> QED
    BY <1>0, <1>1, <1>2, <2>1, OpenedRecord DEF Same, Others
<1>3. CASE data[Text] # Nobody
  <2>1. prog' = [prog EXCEPT ![p].at = "load"]
    BY <1>3 DEF CutBuffer
  <2> QED
    BY <1>0, <1>1, <1>3, <2>1 DEF Same, Others, ProgState, Request, Opening
<1> QED
  BY <1>2, <1>3

LEMMA LoadRecord ==
    ASSUME ClipTypeOK, NEW p \in Prog, Load(p)
    PROVE  /\ Same(p)
           /\ prog[p].at = "load"
           /\ grabber' = IF SEVERE THEN Nobody ELSE grabber
           /\ formats' = formats
           /\ prog'[p].winOwner = prog[p].winOwner /\ prog'[p].copy = prog[p].copy
           /\ prog'[p].lpAllFormats = formats
           /\ prog'[p].at = "idle" /\ prog'[p].hwndOpen /\ ~prog'[p].emptied
           /\ prog'[p].wrote = {}
<1> DEFINE r == Opened(prog[p])
<1>0. prog[p].at = "load" /\ prog[p].up /\ SEVERE' = SEVERE /\ selection' = selection /\ data' = data
      /\ grabber' = (IF SEVERE THEN Nobody ELSE grabber)
      /\ formats' = formats
  BY DEF Load, At, Server
<1>1. prog[p] \in ProgState /\ prog \in [Prog -> ProgState] /\ formats \in [Listed -> Lengths]
  BY DEF ClipTypeOK
<1>2. prog' = [prog EXCEPT ![p] = [r EXCEPT !.lpAllFormats = formats]]
  BY DEF Load
<1>3. /\ r \in ProgState /\ r.up = prog[p].up /\ r.hwndOpen /\ r.at = "idle"
      /\ r.winOwner = prog[p].winOwner /\ r.copy = prog[p].copy /\ ~r.emptied /\ r.wrote = {}
  BY <1>0, <1>1, OpenedRecord
<1> HIDE DEF r
<1> QED
  BY <1>0, <1>1, <1>2, <1>3 DEF Same, Others, ProgState

LEMMA EmptiedRecord ==
    ASSUME ClipTypeOK, NEW p \in Prog, Emptied(p)
    PROVE  /\ Same(p)
           /\ prog[p].at = "emptied"
           /\ grabber' = grabber
           /\ prog'[p].winOwner = prog[p].winOwner /\ prog'[p].copy = NoFormats
           /\ prog'[p].hwndOpen = prog[p].hwndOpen /\ prog'[p].at = "idle"
           /\ prog'[p].emptied /\ prog'[p].wrote = {}
           /\ \A f \in Listed : prog'[p].lpAllFormats[f] \in {"zero", prog[p].lpAllFormats[f]}
           /\ formats' \in [Listed -> Lengths]
           /\ \A f \in Listed : formats'[f] \in {"zero", prog[p].copy[f]}
<1> DEFINE r == Done(prog[p])
           zeroed(t) == [f \in Listed |-> IF prog[p].copy[f] # "absent" THEN "zero" ELSE t[f]]
           z == zeroed(prog[p].lpAllFormats)
<1>0. prog[p].at = "emptied" /\ prog[p].up /\ SEVERE' = SEVERE /\ selection' = selection /\ data' = data
      /\ grabber' = grabber
  BY DEF Emptied, At, Server
<1>1. prog[p] \in ProgState /\ prog \in [Prog -> ProgState] /\ prog[p].copy \in [Listed -> Lengths]
      /\ prog[p].lpAllFormats \in [Listed -> Lengths]
  BY DEF ClipTypeOK, ProgState
<1>2. /\ prog' = [prog EXCEPT ![p] = [r EXCEPT !.lpAllFormats = z,
                                              !.emptied = TRUE, !.wrote = {}]]
      /\ formats' = zeroed(prog[p].copy)
  BY DEF Emptied
<1>3. /\ r \in ProgState /\ r.up = prog[p].up /\ r.hwndOpen = prog[p].hwndOpen /\ r.at = "idle"
      /\ r.winOwner = prog[p].winOwner /\ r.copy = NoFormats
  BY <1>0, <1>1, DoneRecord
<1>4. z \in [Listed -> Lengths] /\ \A f \in Listed : z[f] \in {"zero", prog[p].lpAllFormats[f]}
  BY <1>1 DEF Lengths
<1>5. /\ formats' \in [Listed -> Lengths]
      /\ \A f \in Listed : formats'[f] \in {"zero", prog[p].copy[f]}
  BY <1>0, <1>1, <1>2 DEF Lengths
<1> HIDE DEF r, z
<1>6. [r EXCEPT !.lpAllFormats = z, !.emptied = TRUE, !.wrote = {}] \in ProgState
  BY <1>3, <1>4 DEF ProgState
<1> QED
  BY <1>0, <1>1, <1>2, <1>3, <1>4, <1>5, <1>6 DEF Same, Others, ProgState

LEMMA ListRecord ==
    ASSUME ClipTypeOK, NEW p \in Prog, List(p)
    PROVE  /\ Same(p)
           /\ prog[p].at = "list"
           /\ grabber' = grabber
           /\ prog'[p].winOwner = prog[p].winOwner /\ prog'[p].copy = NoFormats
           /\ prog'[p].hwndOpen = prog[p].hwndOpen /\ prog'[p].at = "idle"
           /\ prog'[p].emptied = prog[p].emptied
           /\ prog'[p].wrote = prog[p].wrote \cup {prog[p].f}
           /\ prog'[p].lpAllFormats = formats' /\ formats' \in [Listed -> Lengths]
           /\ \A f \in Listed : formats'[f] \in {"some", prog[p].copy[f]}
<1> DEFINE r == Done(prog[p])
           w == prog[p].wrote \cup {prog[p].f}
<1>0. prog[p].at = "list" /\ prog[p].up /\ SEVERE' = SEVERE /\ selection' = selection /\ data' = data
      /\ grabber' = grabber
  BY DEF List, At, Server
<1>1. prog[p] \in ProgState /\ prog \in [Prog -> ProgState] /\ prog[p].copy \in [Listed -> Lengths]
      /\ w \in SUBSET Format
  BY DEF ClipTypeOK, ProgState
<1>2. /\ prog' = [prog EXCEPT ![p] = [r EXCEPT !.lpAllFormats = formats', !.wrote = w]]
      /\ formats' = [f \in Listed |-> IF f = prog[p].f THEN "some" ELSE prog[p].copy[f]]
  BY DEF List
<1>3. /\ r \in ProgState /\ r.up = prog[p].up /\ r.hwndOpen = prog[p].hwndOpen /\ r.at = "idle"
      /\ r.winOwner = prog[p].winOwner /\ r.copy = NoFormats /\ r.emptied = prog[p].emptied
  BY <1>0, <1>1, DoneRecord
<1>4. /\ formats' \in [Listed -> Lengths]
      /\ \A f \in Listed : formats'[f] \in {"some", prog[p].copy[f]}
  BY <1>0, <1>1, <1>2 DEF Lengths
<1> HIDE DEF r, w
<1>5. [r EXCEPT !.lpAllFormats = formats', !.wrote = w] \in ProgState
  BY <1>0, <1>1, <1>3, <1>4 DEF ProgState
<1>6. prog' = [prog EXCEPT ![p] = [r EXCEPT !.lpAllFormats = formats', !.wrote = w]]
  BY <1>2
<1>7. /\ Same(p)
      /\ prog'[p].winOwner = prog[p].winOwner /\ prog'[p].copy = NoFormats
      /\ prog'[p].hwndOpen = prog[p].hwndOpen /\ prog'[p].at = "idle"
      /\ prog'[p].emptied = prog[p].emptied
      /\ prog'[p].wrote = w /\ prog'[p].lpAllFormats = formats'
  BY <1>0, <1>1, <1>3, <1>5, <1>6 DEF Same, Others, ProgState
<1> QED
  BY <1>0, <1>4, <1>7 DEF w

LEMMA ReadRecord ==
    ASSUME ClipTypeOK, NEW p \in Prog, Read(p)
    PROVE  /\ Same(p)
           /\ prog[p].at = "read"
           /\ grabber' = grabber
           /\ formats' = formats
           /\ prog'[p].winOwner = prog[p].winOwner /\ prog'[p].copy = NoFormats
           /\ prog'[p].hwndOpen = prog[p].hwndOpen /\ prog'[p].at = "idle"
           /\ prog'[p].emptied = prog[p].emptied /\ prog'[p].wrote = prog[p].wrote
           /\ prog'[p].lpAllFormats = prog[p].lpAllFormats
<1>0. prog[p].at = "read" /\ prog[p].up /\ SEVERE' = SEVERE /\ selection' = selection /\ data' = data
      /\ grabber' = grabber
      /\ formats' = formats
  BY DEF Read, At, Server
<1>1. prog[p] \in ProgState /\ prog \in [Prog -> ProgState]
  BY DEF ClipTypeOK
<1>2. prog' = [prog EXCEPT ![p] = Done(prog[p])]
  BY DEF Read
<1> QED
  BY <1>0, <1>1, <1>2, DoneRecord DEF Same, Others

(* Every request keeps the types, and the grab with an opening program.     *)
LEMMA NextKeepsTypes == ClipTypeOK /\ [ClipNext]_clipvars => ClipTypeOK'
<1> SUFFICES ASSUME ClipTypeOK, [ClipNext]_clipvars PROVE ClipTypeOK'
  OBVIOUS
<1> USE ClipAssumption DEF ClipTypeOK, Server, At
<1>1. ASSUME NEW p \in Prog, Start(p) PROVE ClipTypeOK'
  BY <1>1 DEF Start, Stopped, NoFormats, Format, Listed, ProgState, Lengths, Request, Opening
<1>2. ASSUME NEW p \in Prog, End(p) PROVE ClipTypeOK'
  BY <1>2 DEF End, Stopped, NoFormats, Format, Listed, ProgState, Lengths, Request, Opening
<1>3. ASSUME NEW p \in Prog, OpenClipboard(p) PROVE ClipTypeOK'
  BY <1>3 DEF OpenClipboard, ProgState, Lengths, Request, Opening
<1>4. ASSUME NEW p \in Prog, GetOwner(p) PROVE ClipTypeOK'
  BY <1>4 DEF GetOwner, ProgState, Lengths, Request, Opening
<1>5. ASSUME NEW p \in Prog, SetOwner(p) PROVE ClipTypeOK'
  BY <1>5 DEF SetOwner, ProgState, Lengths, Request, Opening
<1>6. ASSUME NEW p \in Prog, CheckOwner(p) PROVE ClipTypeOK'
  BY <1>6 DEF CheckOwner, ProgState, Lengths, Request, Opening
<1>7. ASSUME NEW p \in Prog, CutBuffer(p) PROVE ClipTypeOK'
  BY <1>7, CutBufferRecord DEF Same, Others, Lengths, Request, Opening
<1>8. ASSUME NEW p \in Prog, Load(p) PROVE ClipTypeOK'
  BY <1>8, LoadRecord DEF Same, Others, Lengths, Request, Opening
<1>9. ASSUME NEW p \in Prog, CloseClipboard(p) PROVE ClipTypeOK'
  BY <1>9 DEF CloseClipboard, ProgState, Lengths, Request, Opening
<1>10. ASSUME NEW p \in Prog, EmptyClipboard(p) PROVE ClipTypeOK'
  BY <1>10 DEF EmptyClipboard, ReadTable, ProgState, Lengths, Request, Opening
<1>11. ASSUME NEW p \in Prog, Delete(p) PROVE ClipTypeOK'
  BY <1>11 DEF Delete, Format, ProgState, Lengths, Request, Opening
<1>12. ASSUME NEW p \in Prog, Emptied(p) PROVE ClipTypeOK'
  BY <1>12, EmptiedRecord DEF Same, Others, Lengths, Request, Opening
<1>13. ASSUME NEW p \in Prog, Change(p) PROVE ClipTypeOK'
  BY <1>13 DEF Change, Format, ProgState, Lengths, Request, Opening
<1>14. ASSUME NEW p \in Prog, List(p) PROVE ClipTypeOK'
  BY <1>14, ListRecord DEF Same, Others, Lengths, Request, Opening
<1>15. ASSUME NEW p \in Prog, Read(p) PROVE ClipTypeOK'
  BY <1>15, ReadRecord DEF Same, Others, Lengths, Request, Opening
<1>16. ASSUME NEW p \in Prog, NEW f \in Format, SetClipboardData(p, f) PROVE ClipTypeOK'
  BY <1>16 DEF SetClipboardData, ReadTable, ProgState, Lengths, Request, Opening
<1>17. ASSUME NEW p \in Prog, NEW f \in Format, GetClipboardData(p, f) PROVE ClipTypeOK'
  BY <1>17 DEF GetClipboardData, ReadTable, ProgState, Lengths, Request, Opening
<1>18. ASSUME NEW p \in Prog, NEW f \in Format, RegisterClipboardFormat(p, f) PROVE ClipTypeOK'
  <2>1. prog[p].lpAllFormats \in [Listed -> Lengths] /\ prog[p] \in ProgState /\ f \in Listed
    BY <1>18 DEF RegisterClipboardFormat, ProgState, Listed
  <2> DEFINE table == [prog[p].lpAllFormats EXCEPT ![f] = "zero"]
  <2>2. table \in [Listed -> Lengths]
    BY <2>1 DEF Lengths
  <2>3. formats' = table /\ prog' = [prog EXCEPT ![p].lpAllFormats = table]
        /\ UNCHANGED <<SEVERE, grabber, selection, data>>
    BY <1>18 DEF RegisterClipboardFormat
  <2> HIDE DEF table
  <2>4. prog' \in [Prog -> ProgState]
    BY <2>1, <2>2, <2>3 DEF ProgState
  <2>5. \A q \in Prog : prog'[q].at = prog[q].at
    BY <2>1, <2>3 DEF ProgState
  <2> QED
    BY <2>2, <2>3, <2>4, <2>5
<1>19. CASE UNCHANGED clipvars
  BY <1>19 DEF clipvars
<1> QED
  BY <1>1, <1>2, <1>3, <1>4, <1>5, <1>6, <1>7, <1>8, <1>9, <1>10, <1>11, <1>12, <1>13, <1>14, <1>15, <1>16, <1>17, <1>18, <1>19 DEF ClipNext

(* Every request keeps PhasesOK ... *)
LEMMA NextKeepsPhases == ClipTypeOK /\ PhasesOK /\ [ClipNext]_clipvars => PhasesOK'
<1> SUFFICES ASSUME ClipTypeOK /\ PhasesOK, [ClipNext]_clipvars PROVE PhasesOK'
  OBVIOUS
<1> USE ClipAssumption DEF ClipTypeOK, PhasesOK, Server, At
<1>1. ASSUME NEW p \in Prog, Start(p) PROVE PhasesOK'
  BY <1>1 DEF Start, Stopped, NoFormats, ProgState, Opening, ClipCall
<1>2. ASSUME NEW p \in Prog, End(p) PROVE PhasesOK'
  BY <1>2 DEF End, Stopped, NoFormats, ProgState, Opening, ClipCall
<1>3. ASSUME NEW p \in Prog, OpenClipboard(p) PROVE PhasesOK'
  BY <1>3 DEF OpenClipboard, ProgState, Opening, ClipCall
<1>4. ASSUME NEW p \in Prog, GetOwner(p) PROVE PhasesOK'
  BY <1>4 DEF GetOwner, ProgState, Opening, ClipCall
<1>5. ASSUME NEW p \in Prog, SetOwner(p) PROVE PhasesOK'
  BY <1>5 DEF SetOwner, ProgState, Opening, ClipCall
<1>6. ASSUME NEW p \in Prog, CheckOwner(p) PROVE PhasesOK'
  BY <1>6 DEF CheckOwner, ProgState, Opening, ClipCall
<1>7. ASSUME NEW p \in Prog, CutBuffer(p) PROVE PhasesOK'
  BY <1>7, CutBufferRecord DEF Same, Others, Opening, ClipCall
<1>8. ASSUME NEW p \in Prog, Load(p) PROVE PhasesOK'
  BY <1>8, LoadRecord DEF Same, Others, Opening, ClipCall
<1>9. ASSUME NEW p \in Prog, CloseClipboard(p) PROVE PhasesOK'
  BY <1>9 DEF CloseClipboard, ProgState, Opening, ClipCall
<1>10. ASSUME NEW p \in Prog, EmptyClipboard(p) PROVE PhasesOK'
  BY <1>10 DEF EmptyClipboard, ReadTable, ProgState, Opening, ClipCall
<1>11. ASSUME NEW p \in Prog, Delete(p) PROVE PhasesOK'
  BY <1>11 DEF Delete, ProgState, Opening, ClipCall
<1>12. ASSUME NEW p \in Prog, Emptied(p) PROVE PhasesOK'
  BY <1>12, EmptiedRecord DEF Same, Others, Opening, ClipCall
<1>13. ASSUME NEW p \in Prog, Change(p) PROVE PhasesOK'
  BY <1>13 DEF Change, ProgState, Opening, ClipCall
<1>14. ASSUME NEW p \in Prog, List(p) PROVE PhasesOK'
  BY <1>14, ListRecord DEF Same, Others, Opening, ClipCall
<1>15. ASSUME NEW p \in Prog, Read(p) PROVE PhasesOK'
  BY <1>15, ReadRecord DEF Same, Others, Opening, ClipCall
<1>16. ASSUME NEW p \in Prog, NEW f \in Format, SetClipboardData(p, f) PROVE PhasesOK'
  BY <1>16 DEF SetClipboardData, ReadTable, ProgState, Opening, ClipCall
<1>17. ASSUME NEW p \in Prog, NEW f \in Format, GetClipboardData(p, f) PROVE PhasesOK'
  BY <1>17 DEF GetClipboardData, ReadTable, ProgState, Opening, ClipCall
<1>18. ASSUME NEW p \in Prog, NEW f \in Format, RegisterClipboardFormat(p, f) PROVE PhasesOK'
  BY <1>18 DEF RegisterClipboardFormat, ProgState, Opening, ClipCall
<1>19. CASE UNCHANGED clipvars
  BY <1>19 DEF clipvars
<1> QED
  BY <1>1, <1>2, <1>3, <1>4, <1>5, <1>6, <1>7, <1>8, <1>9, <1>10, <1>11, <1>12, <1>13, <1>14, <1>15, <1>16, <1>17, <1>18, <1>19 DEF ClipNext

(* ... OwnerKnown ... *)
LEMMA NextKeepsOwner == ClipTypeOK /\ PhasesOK /\ OwnerKnown /\ [ClipNext]_clipvars => OwnerKnown'
<1> SUFFICES ASSUME ClipTypeOK /\ PhasesOK /\ OwnerKnown, [ClipNext]_clipvars PROVE OwnerKnown'
  OBVIOUS
<1> USE ClipAssumption DEF ClipTypeOK, PhasesOK, OwnerKnown, Server, At
<1>1. ASSUME NEW p \in Prog, Start(p) PROVE OwnerKnown'
  BY <1>1 DEF Start, Stopped, NoFormats, ProgState, Opening, ClipCall, Took
<1>2. ASSUME NEW p \in Prog, End(p) PROVE OwnerKnown'
  BY <1>2 DEF End, Stopped, NoFormats, ProgState, Opening, ClipCall, Took
<1>3. ASSUME NEW p \in Prog, OpenClipboard(p) PROVE OwnerKnown'
  BY <1>3 DEF OpenClipboard, ProgState, Opening, ClipCall, Took
<1>4. ASSUME NEW p \in Prog, GetOwner(p) PROVE OwnerKnown'
  BY <1>4 DEF GetOwner, ProgState, Opening, ClipCall, Took
<1>5. ASSUME NEW p \in Prog, SetOwner(p) PROVE OwnerKnown'
  BY <1>5 DEF SetOwner, ProgState, Opening, ClipCall, Took
<1>6. ASSUME NEW p \in Prog, CheckOwner(p) PROVE OwnerKnown'
  BY <1>6 DEF CheckOwner, ProgState, Opening, ClipCall, Took
<1>7. ASSUME NEW p \in Prog, CutBuffer(p) PROVE OwnerKnown'
  BY <1>7, CutBufferRecord DEF Same, Others, Opening, ClipCall, Took
<1>8. ASSUME NEW p \in Prog, Load(p) PROVE OwnerKnown'
  BY <1>8, LoadRecord DEF Same, Others, Opening, ClipCall, Took
<1>9. ASSUME NEW p \in Prog, CloseClipboard(p) PROVE OwnerKnown'
  BY <1>9 DEF CloseClipboard, ProgState, Opening, ClipCall, Took
<1>10. ASSUME NEW p \in Prog, EmptyClipboard(p) PROVE OwnerKnown'
  BY <1>10 DEF EmptyClipboard, ReadTable, ProgState, Opening, ClipCall, Took
<1>11. ASSUME NEW p \in Prog, Delete(p) PROVE OwnerKnown'
  BY <1>11 DEF Delete, ProgState, Opening, ClipCall, Took
<1>12. ASSUME NEW p \in Prog, Emptied(p) PROVE OwnerKnown'
  BY <1>12, EmptiedRecord DEF Same, Others, Opening, ClipCall, Took
<1>13. ASSUME NEW p \in Prog, Change(p) PROVE OwnerKnown'
  BY <1>13 DEF Change, ProgState, Opening, ClipCall, Took
<1>14. ASSUME NEW p \in Prog, List(p) PROVE OwnerKnown'
  BY <1>14, ListRecord DEF Same, Others, Opening, ClipCall, Took
<1>15. ASSUME NEW p \in Prog, Read(p) PROVE OwnerKnown'
  BY <1>15, ReadRecord DEF Same, Others, Opening, ClipCall, Took
<1>16. ASSUME NEW p \in Prog, NEW f \in Format, SetClipboardData(p, f) PROVE OwnerKnown'
  BY <1>16 DEF SetClipboardData, ReadTable, ProgState, Opening, ClipCall, Took
<1>17. ASSUME NEW p \in Prog, NEW f \in Format, GetClipboardData(p, f) PROVE OwnerKnown'
  BY <1>17 DEF GetClipboardData, ReadTable, ProgState, Opening, ClipCall, Took
<1>18. ASSUME NEW p \in Prog, NEW f \in Format, RegisterClipboardFormat(p, f) PROVE OwnerKnown'
  BY <1>18 DEF RegisterClipboardFormat, ProgState, Opening, ClipCall, Took
<1>19. CASE UNCHANGED clipvars
  BY <1>19 DEF clipvars
<1> QED
  BY <1>1, <1>2, <1>3, <1>4, <1>5, <1>6, <1>7, <1>8, <1>9, <1>10, <1>11, <1>12, <1>13, <1>14, <1>15, <1>16, <1>17, <1>18, <1>19 DEF ClipNext

(* ... Exclusive: a request of another program waits for the grab, ...      *)
LEMMA NextKeepsExclusive == ClipTypeOK /\ PhasesOK /\ OwnerKnown /\ Exclusive /\ [ClipNext]_clipvars => Exclusive'
<1> SUFFICES ASSUME ClipTypeOK /\ PhasesOK /\ OwnerKnown /\ Exclusive, [ClipNext]_clipvars PROVE Exclusive'
  OBVIOUS
<1> USE ClipAssumption DEF ClipTypeOK, PhasesOK, OwnerKnown, Exclusive, Server, At
<1>1. ASSUME NEW p \in Prog, Start(p) PROVE Exclusive'
  BY <1>1 DEF Start, Stopped, NoFormats, ProgState, Opening, ClipCall, Took
<1>2. ASSUME NEW p \in Prog, End(p) PROVE Exclusive'
  BY <1>2 DEF End, Stopped, NoFormats, ProgState, Opening, ClipCall, Took
<1>3. ASSUME NEW p \in Prog, OpenClipboard(p) PROVE Exclusive'
  BY <1>3 DEF OpenClipboard, ProgState, Opening, ClipCall, Took
<1>4. ASSUME NEW p \in Prog, GetOwner(p) PROVE Exclusive'
  BY <1>4 DEF GetOwner, ProgState, Opening, ClipCall, Took
<1>5. ASSUME NEW p \in Prog, SetOwner(p) PROVE Exclusive'
  BY <1>5 DEF SetOwner, ProgState, Opening, ClipCall, Took
<1>6. ASSUME NEW p \in Prog, CheckOwner(p) PROVE Exclusive'
  BY <1>6 DEF CheckOwner, ProgState, Opening, ClipCall, Took
<1>7. ASSUME NEW p \in Prog, CutBuffer(p) PROVE Exclusive'
  <2>1. grabber \in {Nobody, p} /\ prog[p].at \in Took /\ ~prog[p].hwndOpen
    BY <1>7, CutBufferRecord DEF CutBuffer, Took, Opening
  <2> SUFFICES ASSUME SEVERE, NEW q \in Prog
               PROVE  /\ prog'[q].at \in Opening \cup {"getowner"} => grabber' = q
                      /\ prog'[q].at = "setowner" => selection' = Nobody
                      /\ prog'[q].hwndOpen \/ prog'[q].at \in Took => selection' = q
    BY <1>7, CutBufferRecord DEF Same
  <2>2. grabber = p /\ selection = p
    BY <2>1 DEF Opening, Took
  <2>3. CASE q = p
    BY <1>7, CutBufferRecord, <2>1, <2>2, <2>3 DEF Same, Opening, Took
  <2>4. CASE q # p
    <3>1. prog'[q] = prog[q] /\ selection' = selection
      BY <1>7, CutBufferRecord, <2>4, ZenonT(40) DEF Same, Others
    <3>2. prog[q].at \notin Opening \cup {"getowner"}
      BY <2>2, <2>4
    <3> QED
      BY <3>1, <3>2 DEF Opening, Took
  <2> QED
    BY <2>3, <2>4
<1>8. ASSUME NEW p \in Prog, Load(p) PROVE Exclusive'
  <2>1. grabber \in {Nobody, p} /\ prog[p].at \in Took /\ ~prog[p].hwndOpen
    BY <1>8, LoadRecord DEF Load, Took, Opening
  <2> SUFFICES ASSUME SEVERE, NEW q \in Prog
               PROVE  /\ prog'[q].at \in Opening \cup {"getowner"} => grabber' = q
                      /\ prog'[q].at = "setowner" => selection' = Nobody
                      /\ prog'[q].hwndOpen \/ prog'[q].at \in Took => selection' = q
    BY <1>8, LoadRecord DEF Same
  <2>2. grabber = p /\ selection = p
    BY <2>1 DEF Opening, Took
  <2>3. CASE q = p
    BY <1>8, LoadRecord, <2>1, <2>2, <2>3 DEF Same, Opening, Took
  <2>4. CASE q # p
    <3>1. prog'[q] = prog[q] /\ selection' = selection
      BY <1>8, LoadRecord, <2>4, ZenonT(40) DEF Same, Others
    <3>2. prog[q].at \notin Opening \cup {"getowner"}
      BY <2>2, <2>4
    <3> QED
      BY <3>1, <3>2 DEF Opening, Took
  <2> QED
    BY <2>3, <2>4
<1>9. ASSUME NEW p \in Prog, CloseClipboard(p) PROVE Exclusive'
  BY <1>9 DEF CloseClipboard, ProgState, Opening, ClipCall, Took
<1>10. ASSUME NEW p \in Prog, EmptyClipboard(p) PROVE Exclusive'
  BY <1>10 DEF EmptyClipboard, ReadTable, ProgState, Opening, ClipCall, Took
<1>11. ASSUME NEW p \in Prog, Delete(p) PROVE Exclusive'
  BY <1>11 DEF Delete, ProgState, Opening, ClipCall, Took
<1>12. ASSUME NEW p \in Prog, Emptied(p) PROVE Exclusive'
  <2>1. /\ \A q \in Prog \ {p} : prog'[q] = prog[q]
        /\ SEVERE' = SEVERE /\ selection' = selection /\ grabber' = grabber
        /\ prog'[p].hwndOpen = prog[p].hwndOpen /\ prog'[p].at = "idle"
    BY <1>12, EmptiedRecord, SMTT(40) DEF Same, Others
  <2> QED
    BY <2>1 DEF Opening, Took
<1>13. ASSUME NEW p \in Prog, Change(p) PROVE Exclusive'
  BY <1>13 DEF Change, ProgState, Opening, ClipCall, Took
<1>14. ASSUME NEW p \in Prog, List(p) PROVE Exclusive'
  <2>1. /\ \A q \in Prog \ {p} : prog'[q] = prog[q]
        /\ SEVERE' = SEVERE /\ selection' = selection /\ grabber' = grabber
        /\ prog'[p].hwndOpen = prog[p].hwndOpen /\ prog'[p].at = "idle"
    BY <1>14, ListRecord, SMTT(40) DEF Same, Others
  <2> QED
    BY <2>1 DEF Opening, Took
<1>15. ASSUME NEW p \in Prog, Read(p) PROVE Exclusive'
  <2>1. /\ \A q \in Prog \ {p} : prog'[q] = prog[q]
        /\ SEVERE' = SEVERE /\ selection' = selection /\ grabber' = grabber
        /\ prog'[p].hwndOpen = prog[p].hwndOpen /\ prog'[p].at = "idle"
    BY <1>15, ReadRecord, SMTT(40) DEF Same, Others
  <2> QED
    BY <2>1 DEF Opening, Took
<1>16. ASSUME NEW p \in Prog, NEW f \in Format, SetClipboardData(p, f) PROVE Exclusive'
  BY <1>16 DEF SetClipboardData, ReadTable, ProgState, Opening, ClipCall, Took
<1>17. ASSUME NEW p \in Prog, NEW f \in Format, GetClipboardData(p, f) PROVE Exclusive'
  BY <1>17 DEF GetClipboardData, ReadTable, ProgState, Opening, ClipCall, Took
<1>18. ASSUME NEW p \in Prog, NEW f \in Format, RegisterClipboardFormat(p, f) PROVE Exclusive'
  BY <1>18 DEF RegisterClipboardFormat, ProgState, Opening, ClipCall, Took
<1>19. CASE UNCHANGED clipvars
  BY <1>19 DEF clipvars
<1> QED
  BY <1>1, <1>2, <1>3, <1>4, <1>5, <1>6, <1>7, <1>8, <1>9, <1>10, <1>11, <1>12, <1>13, <1>14, <1>15, <1>16, <1>17, <1>18, <1>19 DEF ClipNext

(* ... PredefinedListed ... *)
LEMMA NextKeepsListed == ClipTypeOK /\ PredefinedListed /\ [ClipNext]_clipvars => PredefinedListed'
<1> SUFFICES ASSUME ClipTypeOK /\ PredefinedListed, [ClipNext]_clipvars PROVE PredefinedListed'
  OBVIOUS
<1> USE ClipAssumption DEF ClipTypeOK, PredefinedListed, Server, At
<1>0. \A f \in Predefined : f \in Listed /\ NoFormats[f] = "zero"
  BY DEF NoFormats, Listed
<1>1. ASSUME NEW p \in Prog, Start(p) PROVE PredefinedListed'
  BY <1>0, <1>1 DEF Start, Stopped, ProgState
<1>2. ASSUME NEW p \in Prog, End(p) PROVE PredefinedListed'
  BY <1>0, <1>2 DEF End, Stopped, ProgState
<1>3. ASSUME NEW p \in Prog, OpenClipboard(p) PROVE PredefinedListed'
  BY <1>0, <1>3 DEF OpenClipboard, ProgState
<1>4. ASSUME NEW p \in Prog, GetOwner(p) PROVE PredefinedListed'
  BY <1>0, <1>4 DEF GetOwner, ProgState
<1>5. ASSUME NEW p \in Prog, SetOwner(p) PROVE PredefinedListed'
  BY <1>0, <1>5 DEF SetOwner, ProgState
<1>6. ASSUME NEW p \in Prog, CheckOwner(p) PROVE PredefinedListed'
  BY <1>0, <1>6 DEF CheckOwner, ProgState
<1>7. ASSUME NEW p \in Prog, CutBuffer(p) PROVE PredefinedListed'
  BY <1>0, <1>7, CutBufferRecord DEF Same, Others
<1>8. ASSUME NEW p \in Prog, Load(p) PROVE PredefinedListed'
  BY <1>0, <1>8, LoadRecord DEF Same, Others
<1>9. ASSUME NEW p \in Prog, CloseClipboard(p) PROVE PredefinedListed'
  BY <1>0, <1>9 DEF CloseClipboard, ProgState
<1>10. ASSUME NEW p \in Prog, EmptyClipboard(p) PROVE PredefinedListed'
  BY <1>0, <1>10 DEF EmptyClipboard, ReadTable, ProgState
<1>11. ASSUME NEW p \in Prog, Delete(p) PROVE PredefinedListed'
  BY <1>0, <1>11 DEF Delete, ProgState
<1>12. ASSUME NEW p \in Prog, Emptied(p) PROVE PredefinedListed'
  BY <1>0, <1>12, EmptiedRecord DEF Same, Others
<1>13. ASSUME NEW p \in Prog, Change(p) PROVE PredefinedListed'
  BY <1>0, <1>13 DEF Change, ProgState
<1>14. ASSUME NEW p \in Prog, List(p) PROVE PredefinedListed'
  BY <1>0, <1>14, ListRecord DEF Same, Others
<1>15. ASSUME NEW p \in Prog, Read(p) PROVE PredefinedListed'
  BY <1>0, <1>15, ReadRecord DEF Same, Others
<1>16. ASSUME NEW p \in Prog, NEW f \in Format, SetClipboardData(p, f) PROVE PredefinedListed'
  BY <1>0, <1>16 DEF SetClipboardData, ReadTable, ProgState
<1>17. ASSUME NEW p \in Prog, NEW f \in Format, GetClipboardData(p, f) PROVE PredefinedListed'
  BY <1>0, <1>17 DEF GetClipboardData, ReadTable, ProgState
<1>18. ASSUME NEW p \in Prog, NEW f \in Format, RegisterClipboardFormat(p, f) PROVE PredefinedListed'
  BY <1>0, <1>18 DEF RegisterClipboardFormat, ProgState
<1>19. CASE UNCHANGED clipvars
  BY <1>19 DEF clipvars
<1> QED
  BY <1>1, <1>2, <1>3, <1>4, <1>5, <1>6, <1>7, <1>8, <1>9, <1>10, <1>11, <1>12, <1>13, <1>14, <1>15, <1>16, <1>17, <1>18, <1>19 DEF ClipNext

(* ... and DataOwned: with SEVERE only p changes data while p has it open. *)
LEMMA NextKeepsData == ClipIInv /\ [ClipNext]_clipvars => DataOwned'
<1> SUFFICES ASSUME ClipIInv, [ClipNext]_clipvars PROVE DataOwned'
  OBVIOUS
<1> USE ClipAssumption DEF ClipIInv, ClipTypeOK, PhasesOK, Exclusive, PredefinedListed, DataOwned, Server, At
<1>1. ASSUME NEW p \in Prog, Start(p) PROVE DataOwned'
  BY <1>1 DEF Start, Stopped, NoFormats, ProgState, Opening, ClipCall, Took, Listed, Format
<1>2. ASSUME NEW p \in Prog, End(p) PROVE DataOwned'
  BY <1>2 DEF End, Stopped, NoFormats, ProgState, Opening, ClipCall, Took, Listed, Format
<1>3. ASSUME NEW p \in Prog, OpenClipboard(p) PROVE DataOwned'
  BY <1>3 DEF OpenClipboard, ProgState, Opening, ClipCall, Took, Listed, Format
<1>4. ASSUME NEW p \in Prog, GetOwner(p) PROVE DataOwned'
  BY <1>4 DEF GetOwner, ProgState, Opening, ClipCall, Took, Listed, Format
<1>5. ASSUME NEW p \in Prog, SetOwner(p) PROVE DataOwned'
  BY <1>5 DEF SetOwner, ProgState, Opening, ClipCall, Took, Listed, Format
<1>6. ASSUME NEW p \in Prog, CheckOwner(p) PROVE DataOwned'
  BY <1>6 DEF CheckOwner, ProgState, Opening, ClipCall, Took, Listed, Format
<1>7. ASSUME NEW p \in Prog, CutBuffer(p) PROVE DataOwned'
  BY <1>7, CutBufferRecord DEF Same, Others, Opening, ClipCall, Took, Listed, Format
<1>8. ASSUME NEW p \in Prog, Load(p) PROVE DataOwned'
  BY <1>8, LoadRecord DEF Same, Others, Opening, ClipCall, Took, Listed, Format
<1>9. ASSUME NEW p \in Prog, CloseClipboard(p) PROVE DataOwned'
  BY <1>9 DEF CloseClipboard, ProgState, Opening, ClipCall, Took, Listed, Format
<1>10. ASSUME NEW p \in Prog, EmptyClipboard(p) PROVE DataOwned'
  BY <1>10 DEF EmptyClipboard, ReadTable, ProgState, Opening, ClipCall, Took, Listed, Format
<1>11. ASSUME NEW p \in Prog, Delete(p) PROVE DataOwned'
  BY <1>11 DEF Delete, ProgState, Opening, ClipCall, Took, Listed, Format
<1>12. ASSUME NEW p \in Prog, Emptied(p) PROVE DataOwned'
  BY <1>12, EmptiedRecord DEF Same, Others, Opening, ClipCall, Took, Listed, Format
<1>13. ASSUME NEW p \in Prog, Change(p) PROVE DataOwned'
  BY <1>13 DEF Change, ProgState, Opening, ClipCall, Took, Listed, Format
<1>14. ASSUME NEW p \in Prog, List(p) PROVE DataOwned'
  <2>1. /\ prog[p].at = "list" /\ prog[p].hwndOpen /\ prog[p].wrote = {}
        /\ SEVERE /\ prog[p].f \notin Registered => data[prog[p].f] = p
    BY <1>14, ListRecord DEF ClipCall
  <2>2. prog'[p].wrote = {prog[p].f} /\ prog'[p].at = "idle" /\ data' = data /\ SEVERE' = SEVERE
    BY <1>14, <2>1, ListRecord DEF Same
  <2>3. \A q \in Prog \ {p} : prog'[q] = prog[q]
    BY <1>14, ListRecord DEF Same, Others
  <2>4. \A f \in prog'[p].wrote \ Registered : SEVERE => data[f] = p
    BY <2>1, <2>2
  <2>5. prog'[p].wrote # {}
    BY <2>2
  <2>6. ASSUME NEW q \in Prog, prog'[q].hwndOpen
        PROVE  /\ prog'[q].at \in {"change", "list"} => prog'[q].emptied /\ prog'[q].wrote = {}
               /\ SEVERE =>
                  /\ \/ prog'[q].at = "emptied"
                     \/ prog'[q].emptied /\ prog'[q].wrote = {} /\ prog'[q].at # "list"
                     => \A f \in Predefined : data[f] = Nobody
                  /\ prog'[q].at = "list" /\ prog'[q].f \notin Registered => data[prog'[q].f] = q
                  /\ prog'[q].at # "emptied" =>
                        \A f \in prog'[q].wrote \ Registered : data[f] = q
    <3>1. CASE q = p
      BY <2>2, <2>4, <2>5, <3>1
    <3>2. CASE q # p
      BY <2>3, <2>6, <3>2
    <3> QED
      BY <3>1, <3>2
  <2> QED
    BY <2>2, <2>6
<1>15. ASSUME NEW p \in Prog, Read(p) PROVE DataOwned'
  BY <1>15, ReadRecord DEF Same, Others, Opening, ClipCall, Took, Listed, Format
<1>16. ASSUME NEW p \in Prog, NEW f \in Format, SetClipboardData(p, f) PROVE DataOwned'
  BY <1>16 DEF SetClipboardData, ReadTable, ProgState, Opening, ClipCall, Took, Listed, Format
<1>17. ASSUME NEW p \in Prog, NEW f \in Format, GetClipboardData(p, f) PROVE DataOwned'
  BY <1>17 DEF GetClipboardData, ReadTable, ProgState, Opening, ClipCall, Took, Listed, Format
<1>18. ASSUME NEW p \in Prog, NEW f \in Format, RegisterClipboardFormat(p, f) PROVE DataOwned'
  BY <1>18 DEF RegisterClipboardFormat, ProgState, Opening, ClipCall, Took, Listed, Format
<1>19. CASE UNCHANGED clipvars
  BY <1>19 DEF clipvars
<1> QED
  BY <1>1, <1>2, <1>3, <1>4, <1>5, <1>6, <1>7, <1>8, <1>9, <1>10, <1>11, <1>12, <1>13, <1>14, <1>15, <1>16, <1>17, <1>18, <1>19 DEF ClipNext

(* The invariant holds in every reachable state. *)
THEOREM ClipIInvHolds == ClipSpec => []ClipIInv
<1>1. ClipIInv /\ [ClipNext]_clipvars => ClipIInv'
  BY NextKeepsTypes, NextKeepsPhases, NextKeepsOwner, NextKeepsExclusive, NextKeepsListed,
     NextKeepsData DEF ClipIInv
<1> QED
  BY ClipInitIInv, <1>1, PTL DEF ClipSpec

(* ClipTypeOK is always true: in particular the server is never left        *)
(* grabbed by a program that is not opening the clipboard, whichever way    *)
(* DrvClipbrdOpen ends.                                                     *)
THEOREM ClipTypeCorrect == ClipSpec => []ClipTypeOK
<1>1. ClipIInv => ClipTypeOK
  BY DEF ClipIInv
<1> QED
  BY ClipIInvHolds, <1>1, PTL

(* NeverStuck is always true: when all programs have closed the clipboard   *)
(* or died, its selection has no owner, and DrvClipbrdOpen succeeds.        *)
THEOREM ClipboardNeverStuck == ClipSpec => []NeverStuck
<1>1. ClipIInv => NeverStuck
  BY DEF ClipIInv, ClipTypeOK, OwnerKnown, NeverStuck, Took, Opening
<1> QED
  BY ClipIInvHolds, <1>1, PTL

(* OpenIsExclusive is always true: built with SEVERE, the driver lets one   *)
(* program at a time have the clipboard open.                               *)
THEOREM OneProgramHasItOpen == ClipSpec => []OpenIsExclusive
<1>1. ClipIInv => OpenIsExclusive
  BY DEF ClipIInv, Exclusive, OpenIsExclusive
<1> QED
  BY ClipIInvHolds, <1>1, PTL

(* ReadsItsOwn is always true: DrvClipbrdGetData finds what this program    *)
(* put there and nothing of another program's.                              *)
THEOREM ProgramsReadTheirOwn == ClipSpec => []ReadsItsOwn
<1>1. ClipIInv => ReadsItsOwn
  <2> SUFFICES ASSUME ClipIInv, NEW p \in Prog, SEVERE, prog[p].at = "read", prog[p].hwndOpen,
                      prog[p].f \in prog[p].wrote \ Registered
               PROVE  Result(p) = p \/ (prog[p].f # Text /\ Result(p) = Nobody)
    BY DEF ReadsItsOwn, At
  <2>1. data[prog[p].f] = p
    BY DEF ClipIInv, DataOwned
  <2> QED
    BY <2>1 DEF Result
<1> QED
  BY ClipIInvHolds, <1>1, PTL
=============================================================================
