-------------------------- MODULE QueueList_proofs --------------------------
(***************************************************************************)
(* Proofs about QueueList, for any number of slots, windows, tasks, calls  *)
(* and posts: the pool is partitioned whatever window procedures do, and   *)
(* while they leave the queue alone during a walk (~Reentrant) the walk's  *)
(* cursor is valid, owners are woken and MsgQueue is implemented.          *)
(***************************************************************************)
EXTENDS QueueList, Lemmas

NextFcn == [Slot -> Slot \cup {NULL}]

(* q is the list that starts at p. *)
Linked(next, p, q) ==
    /\ q \in Seq(Slot)
    /\ p = IF Len(q) = 0 THEN NULL ELSE q[1]
    /\ \A i \in 1..Len(q) : next[q[i]] = IF i = Len(q) THEN NULL ELSE q[i + 1]

-----------------------------------------------------------------------------
(* A list that fits the pool is what Chain returns. *)
LEMMA ChainOfLinked ==
    ASSUME NEW next, NEW p, NEW q, Linked(next, p, q), Len(q) <= QueueSize
    PROVE  Chain(next, NULL, QueueSize, p) = q
<1>1. q \in Seq(Slot) /\ p = (IF Len(q) = 0 THEN NULL ELSE q[1])
      /\ \A i \in 1..Len(q) : next[q[i]] = IF i = Len(q) THEN NULL ELSE q[i + 1]
  BY DEF Linked
<1>2. NULL \notin Slot /\ QueueSize \in Nat
  BY DefsAssumption DEF NULL, Slot
<1> QED
  BY <1>1, <1>2, ChainOfLinks

(* The two lists: w waits from head on, f is free from free on, and they    *)
(* share out the slots 1..n.                                                *)
Pool(next, head, free, n, w, f) ==
    /\ Linked(next, head, w) /\ Linked(next, free, f)
    /\ Len(w) + Len(f) = n
    /\ \A i, j \in 1..Len(w) : w[i] = w[j] => i = j
    /\ \A i, j \in 1..Len(f) : f[i] = f[j] => i = j
    /\ \A i \in 1..Len(w), j \in 1..Len(f) : w[i] # f[j]
    /\ \A s \in Slot : s \in 1..n <=> \/ \E i \in 1..Len(w) : w[i] = s
                                      \/ \E j \in 1..Len(f) : f[j] = s

LEMMA PoolChains ==
    ASSUME NEW next, NEW head, NEW free, NEW n \in 0..QueueSize, NEW w, NEW f,
           Pool(next, head, free, n, w, f)
    PROVE  Chain(next, NULL, QueueSize, head) = w /\ Chain(next, NULL, QueueSize, free) = f
<1>1. w \in Seq(Slot) /\ f \in Seq(Slot) /\ n <= QueueSize /\ QueueSize \in Nat
  BY DefsAssumption DEF Pool, Linked
<1>2. Len(w) <= QueueSize /\ Len(f) <= QueueSize
  BY <1>1 DEF Pool
<1> QED
  BY <1>2, ChainOfLinked DEF Pool

(* Taking the first free slot and putting it first in the queue ...         *)
LEMMA PoolPushFront ==
    ASSUME NEW next \in NextFcn, NEW head, NEW free, NEW n \in 0..QueueSize, NEW w, NEW f,
           Pool(next, head, free, n, w, f), free # NULL
    PROVE  Pool([next EXCEPT ![free] = head], free, next[free], n, <<free>> \o w, Tail(f))
<1> DEFINE new == [next EXCEPT ![free] = head]
           v == <<free>> \o w
           g == Tail(f)
<1>1. w \in Seq(Slot) /\ f \in Seq(Slot) /\ Len(w) \in Nat /\ Len(f) \in Nat /\ Len(f) # 0
      /\ free = f[1] /\ free \in Slot
  BY DEF Pool, Linked
<1>2. /\ v \in Seq(Slot) /\ Len(v) = Len(w) + 1 /\ v[1] = free
      /\ \A i \in 1..Len(w) : v[i + 1] = w[i]
      /\ \A i \in 2..Len(v) : v[i] = w[i - 1] /\ i - 1 \in 1..Len(w)
  BY <1>1
<1>3. /\ g \in Seq(Slot) /\ Len(g) = Len(f) - 1
      /\ \A i \in 1..Len(g) : g[i] = f[i + 1] /\ i + 1 \in 1..Len(f)
  BY <1>1
<1>4. /\ \A s \in Slot : new[s] = IF s = free THEN head ELSE next[s]
      /\ \A i \in 1..Len(w) : w[i] # free
      /\ \A i \in 1..Len(g) : g[i] # free
  BY <1>1, <1>3 DEF NextFcn, Pool
<1> HIDE DEF new, v, g
<1>5. Linked(new, free, v)
  <2>1. ASSUME NEW i \in 1..Len(v) PROVE new[v[i]] = IF i = Len(v) THEN NULL ELSE v[i + 1]
    <3>1. CASE i = 1
      <4>1. new[v[i]] = head
        BY <1>1, <1>2, <1>4, <3>1
      <4> QED
        BY <1>1, <1>2, <3>1, <4>1 DEF Pool, Linked
    <3>2. CASE i # 1
      <4>1. i - 1 \in 1..Len(w) /\ v[i] = w[i - 1] /\ new[v[i]] = next[w[i - 1]]
        BY <1>1, <1>2, <1>4, <3>2
      <4>2. next[w[i - 1]] = IF i - 1 = Len(w) THEN NULL ELSE w[i - 1 + 1]
        BY <4>1 DEF Pool, Linked
      <4>3. i # Len(v) => i \in 1..Len(w) /\ v[i + 1] = w[i]
        BY <1>1, <1>2
      <4> QED
        BY <1>1, <1>2, <4>1, <4>2, <4>3
    <3> QED
      BY <3>1, <3>2
  <2> QED
    BY <1>1, <1>2, <2>1 DEF Linked
<1>6. Linked(new, next[free], g)
  <2>1. next[free] = IF Len(g) = 0 THEN NULL ELSE g[1]
    BY <1>1, <1>3, SMTT(40) DEF Pool, Linked
  <2>2. \A i \in 1..Len(g) : new[g[i]] = IF i = Len(g) THEN NULL ELSE g[i + 1]
    BY <1>1, <1>3, <1>4, SMTT(40) DEF Pool, Linked
  <2> QED
    BY <1>3, <2>1, <2>2 DEF Linked
<1>7. /\ \A i, j \in 1..Len(v) : v[i] = v[j] => i = j
      /\ \A i, j \in 1..Len(g) : g[i] = g[j] => i = j
      /\ \A i \in 1..Len(v), j \in 1..Len(g) : v[i] # g[j]
  <2>1. ASSUME NEW i \in 1..Len(v), NEW j \in 1..Len(v), v[i] = v[j] PROVE i = j
    <3>1. (i = 1 /\ v[i] = free) \/ (i - 1 \in 1..Len(w) /\ v[i] = w[i - 1])
      BY <1>2
    <3>2. (j = 1 /\ v[j] = free) \/ (j - 1 \in 1..Len(w) /\ v[j] = w[j - 1])
      BY <1>2
    <3>3. \A a, b \in 1..Len(w) : w[a] = w[b] => a = b
      BY DEF Pool
    <3> QED
      BY <1>4, <2>1, <3>1, <3>2, <3>3
  <2>2. ASSUME NEW i \in 1..Len(g), NEW j \in 1..Len(g), g[i] = g[j] PROVE i = j
    BY <1>1, <1>3, <2>2 DEF Pool
  <2>3. ASSUME NEW i \in 1..Len(v), NEW j \in 1..Len(g) PROVE v[i] # g[j]
    <3>1. (i = 1 /\ v[i] = free) \/ (i - 1 \in 1..Len(w) /\ v[i] = w[i - 1])
      BY <1>2
    <3>2. g[j] = f[j + 1] /\ j + 1 \in 1..Len(f) /\ g[j] # free
      BY <1>3, <1>4
    <3> QED
      BY <3>1, <3>2 DEF Pool
  <2> QED
    BY <2>1, <2>2, <2>3
<1>8. ASSUME NEW s \in Slot
      PROVE  s \in 1..n <=> (\E i \in 1..Len(v) : v[i] = s) \/ (\E j \in 1..Len(g) : g[j] = s)
  <2>1. (\E i \in 1..Len(v) : v[i] = s) <=> s = free \/ \E i \in 1..Len(w) : w[i] = s
    <3>1. \A i \in 1..Len(v) : i = 1 \/ (i - 1 \in 1..Len(w) /\ v[i] = w[i - 1])
      BY <1>2
    <3>2. 1 \in 1..Len(v) /\ \A i \in 1..Len(w) : i + 1 \in 1..Len(v) /\ v[i + 1] = w[i]
      BY <1>1, <1>2
    <3> QED
      BY <1>2, <3>1, <3>2
  <2>2. (\E j \in 1..Len(f) : f[j] = s) <=> s = free \/ \E j \in 1..Len(g) : g[j] = s
    <3>1. \A j \in 1..Len(f) : j = 1 \/ (j - 1 \in 1..Len(g) /\ g[j - 1] = f[j])
      <4>1. ASSUME NEW j \in 1..Len(f), j # 1 PROVE j - 1 \in 1..Len(g)
        BY <1>1, <1>3, <4>1
      <4>2. \A i \in 1..Len(g) : g[i] = f[i + 1]
        BY <1>3
      <4> QED
        BY <4>1, <4>2
    <3>2. 1 \in 1..Len(f) /\ f[1] = free /\ \A j \in 1..Len(g) : j + 1 \in 1..Len(f) /\ f[j + 1] = g[j]
      BY <1>1, <1>3
    <3> QED
      BY <3>1, <3>2
  <2> QED
    BY <2>1, <2>2 DEF Pool
<1>9. Len(v) + Len(g) = n
  <2>1. Len(w) + Len(f) = n /\ Len(w) \in Nat /\ Len(f) \in Nat
    BY <1>1 DEF Pool
  <2>2. Len(v) = Len(w) + 1 /\ Len(g) = Len(f) - 1
    BY <1>2, <1>3
  <2> QED
    BY <2>1, <2>2
<1> QED
  BY <1>5, <1>6, <1>7, <1>8, <1>9 DEF Pool, new, v, g
(* ... or last.                                                             *)
LEMMA PoolAppend ==
    ASSUME NEW next \in NextFcn, NEW head, NEW free, NEW n \in 0..QueueSize, NEW w, NEW f,
           Pool(next, head, free, n, w, f), free # NULL, head # NULL
    PROVE  Pool([next EXCEPT ![w[Len(w)]] = free, ![free] = NULL], head, next[free], n,
                Append(w, free), Tail(f))
<1> DEFINE new == [next EXCEPT ![w[Len(w)]] = free, ![free] = NULL]
           v == Append(w, free)
           g == Tail(f)
           last == w[Len(w)]
<1>1. w \in Seq(Slot) /\ f \in Seq(Slot) /\ Len(w) \in Nat /\ Len(f) \in Nat /\ Len(f) # 0
      /\ free = f[1] /\ free \in Slot /\ Len(w) # 0 /\ head = w[1]
  BY DEF Pool, Linked
<1>2. /\ v \in Seq(Slot) /\ Len(v) = Len(w) + 1 /\ v[Len(v)] = free
      /\ \A i \in 1..Len(w) : v[i] = w[i]
  BY <1>1
<1>3. /\ g \in Seq(Slot) /\ Len(g) = Len(f) - 1
      /\ \A i \in 1..Len(g) : g[i] = f[i + 1] /\ i + 1 \in 1..Len(f)
  BY <1>1
<1>4. /\ \A i \in 1..Len(w) : w[i] # free
      /\ \A i \in 1..Len(g) : g[i] # free /\ g[i] # last
      /\ last \in Slot /\ last # free
  BY <1>1, <1>3 DEF Pool
<1>5. /\ \A s \in Slot : new[s] = IF s = free THEN NULL ELSE IF s = last THEN free ELSE next[s]
  BY <1>1, <1>4 DEF NextFcn
<1> HIDE DEF new, v, g
<1>6. \A a, b \in 1..Len(w) : w[a] = w[b] => a = b
  BY DEF Pool
<1>7. Linked(new, head, v)
  <2>1. ASSUME NEW i \in 1..Len(v) PROVE new[v[i]] = IF i = Len(v) THEN NULL ELSE v[i + 1]
    <3>1. CASE i = Len(v)
      BY <1>1, <1>2, <1>5, <3>1
    <3>2. CASE i # Len(v) /\ i = Len(w)
      BY <1>1, <1>2, <1>4, <1>5, <3>2
    <3>3. CASE i # Len(v) /\ i # Len(w)
      <4>1. i \in 1..Len(w) /\ i + 1 \in 1..Len(w) /\ v[i] = w[i] /\ v[i + 1] = w[i + 1]
        BY <1>1, <1>2, <3>3
      <4>2. w[i] # last /\ w[i] # free /\ w[i] \in Slot
        BY <1>1, <1>4, <1>6, <3>3, <4>1
      <4>3. next[w[i]] = w[i + 1]
        BY <3>3, <4>1 DEF Pool, Linked
      <4> QED
        BY <1>5, <3>3, <4>1, <4>2, <4>3
    <3> QED
      BY <3>1, <3>2, <3>3
  <2>2. head = IF Len(v) = 0 THEN NULL ELSE v[1]
    BY <1>1, <1>2
  <2> QED
    BY <1>2, <2>1, <2>2 DEF Linked
<1>8. Linked(new, next[free], g)
  <2>1. next[free] = IF Len(g) = 0 THEN NULL ELSE g[1]
    BY <1>1, <1>3 DEF Pool, Linked
  <2>2. \A i \in 1..Len(g) : new[g[i]] = IF i = Len(g) THEN NULL ELSE g[i + 1]
    BY <1>1, <1>3, <1>4, <1>5 DEF Pool, Linked
  <2> QED
    BY <1>3, <2>1, <2>2 DEF Linked
<1>9. /\ \A i, j \in 1..Len(v) : v[i] = v[j] => i = j
      /\ \A i, j \in 1..Len(g) : g[i] = g[j] => i = j
      /\ \A i \in 1..Len(v), j \in 1..Len(g) : v[i] # g[j]
  <2>1. \A i \in 1..Len(v) : (i = Len(v) /\ v[i] = free) \/ (i \in 1..Len(w) /\ v[i] = w[i])
    BY <1>1, <1>2
  <2>2. ASSUME NEW i \in 1..Len(v), NEW j \in 1..Len(v), v[i] = v[j] PROVE i = j
    BY <1>4, <1>6, <2>1, <2>2
  <2>3. ASSUME NEW i \in 1..Len(g), NEW j \in 1..Len(g), g[i] = g[j] PROVE i = j
    BY <1>1, <1>3, <2>3 DEF Pool
  <2>4. ASSUME NEW i \in 1..Len(v), NEW j \in 1..Len(g) PROVE v[i] # g[j]
    <3>1. g[j] = f[j + 1] /\ j + 1 \in 1..Len(f) /\ g[j] # free
      BY <1>3, <1>4
    <3> QED
      BY <2>1, <3>1 DEF Pool
  <2> QED
    BY <2>2, <2>3, <2>4
<1>10. ASSUME NEW s \in Slot
       PROVE  s \in 1..n <=> (\E i \in 1..Len(v) : v[i] = s) \/ (\E j \in 1..Len(g) : g[j] = s)
  <2>1. (\E i \in 1..Len(v) : v[i] = s) <=> s = free \/ \E i \in 1..Len(w) : w[i] = s
    <3>1. \A i \in 1..Len(v) : i = Len(v) \/ i \in 1..Len(w)
      BY <1>1, <1>2
    <3>2. Len(v) \in 1..Len(v) /\ 1..Len(w) \subseteq 1..Len(v)
      BY <1>1, <1>2
    <3> QED
      BY <1>2, <3>1, <3>2
  <2>2. (\E j \in 1..Len(f) : f[j] = s) <=> s = free \/ \E j \in 1..Len(g) : g[j] = s
    <3>1. \A j \in 1..Len(f) : j = 1 \/ (j - 1 \in 1..Len(g) /\ g[j - 1] = f[j])
      <4>1. ASSUME NEW j \in 1..Len(f), j # 1 PROVE j - 1 \in 1..Len(g)
        BY <1>1, <1>3, <4>1
      <4>2. \A i \in 1..Len(g) : g[i] = f[i + 1]
        BY <1>3
      <4> QED
        BY <4>1, <4>2
    <3>2. 1 \in 1..Len(f) /\ f[1] = free /\ \A j \in 1..Len(g) : j + 1 \in 1..Len(f) /\ f[j + 1] = g[j]
      BY <1>1, <1>3
    <3> QED
      BY <3>1, <3>2
  <2> QED
    BY <2>1, <2>2 DEF Pool
<1>11. Len(v) + Len(g) = n
  <2>1. Len(w) + Len(f) = n /\ Len(w) \in Nat /\ Len(f) \in Nat
    BY <1>1 DEF Pool
  <2>2. Len(v) = Len(w) + 1 /\ Len(g) = Len(f) - 1
    BY <1>2, <1>3
  <2> QED
    BY <2>1, <2>2
<1> QED
  BY <1>7, <1>8, <1>9, <1>10, <1>11 DEF Pool, new, v, g

(* Taking a waiting slot out and pushing it on the free list.               *)
Cut(q, k) == [i \in 1..(Len(q) - 1) |-> IF i < k THEN q[i] ELSE q[i + 1]]

LEMMA CutSeq ==
    ASSUME NEW S, NEW q \in Seq(S), NEW k \in 1..Len(q)
    PROVE  /\ Cut(q, k) \in Seq(S) /\ Len(Cut(q, k)) = Len(q) - 1
           /\ \A i \in 1..(Len(q) - 1) : Cut(q, k)[i] = IF i < k THEN q[i] ELSE q[i + 1]
<1>1. Len(q) - 1 \in Nat
  OBVIOUS
<1>2. \A i \in 1..(Len(q) - 1) : (IF i < k THEN q[i] ELSE q[i + 1]) \in S
  OBVIOUS
<1> QED
  BY <1>1, <1>2 DEF Cut

LEMMA PoolUnlink ==
    ASSUME NEW next \in NextFcn, NEW head, NEW free, NEW n \in 0..QueueSize, NEW w, NEW f,
           Pool(next, head, free, n, w, f), NEW k \in 1..Len(w),
           NEW new \in NextFcn,
           \A s \in Slot : new[s] = IF s = w[k] THEN free
                                    ELSE IF k > 1 /\ s = w[k - 1] THEN next[w[k]] ELSE next[s]
    PROVE  Pool(new, IF k = 1 THEN next[w[k]] ELSE head, w[k], n, Cut(w, k), <<w[k]>> \o f)
<1> DEFINE v == Cut(w, k)
           g == <<w[k]>> \o f
           s == w[k]
<1>1. w \in Seq(Slot) /\ f \in Seq(Slot) /\ Len(w) \in Nat /\ Len(f) \in Nat /\ s \in Slot
      /\ Len(w) # 0 /\ head = w[1] /\ (k > 1 => k - 1 \in 1..Len(w) /\ w[k - 1] \in Slot)
  BY DEF Pool, Linked
<1>2. /\ v \in Seq(Slot) /\ Len(v) = Len(w) - 1
      /\ \A i \in 1..Len(v) : v[i] = IF i < k THEN w[i] ELSE w[i + 1]
  BY <1>1, CutSeq
<1>3. /\ g \in Seq(Slot) /\ Len(g) = Len(f) + 1 /\ g[1] = s
      /\ \A i \in 1..Len(f) : g[i + 1] = f[i]
      /\ \A i \in 2..Len(g) : g[i] = f[i - 1] /\ i - 1 \in 1..Len(f)
  BY <1>1
<1>4. /\ \A a, b \in 1..Len(w) : w[a] = w[b] => a = b
      /\ \A a, b \in 1..Len(f) : f[a] = f[b] => a = b
      /\ \A a \in 1..Len(w), b \in 1..Len(f) : w[a] # f[b]
      /\ \A i \in 1..Len(w) : next[w[i]] = IF i = Len(w) THEN NULL ELSE w[i + 1]
      /\ \A i \in 1..Len(f) : next[f[i]] = IF i = Len(f) THEN NULL ELSE f[i + 1]
      /\ free = IF Len(f) = 0 THEN NULL ELSE f[1]
      /\ Len(w) + Len(f) = n
  BY DEF Pool, Linked
<1> HIDE DEF v, g
<1>5. Linked(new, IF k = 1 THEN next[s] ELSE head, v)
  <2>1. ASSUME NEW i \in 1..Len(v) PROVE new[v[i]] = IF i = Len(v) THEN NULL ELSE v[i + 1]
    <3>1. CASE i < k - 1
      <4>0. i \in 1..Len(w) /\ i + 1 \in 1..Len(w) /\ i # k /\ i # k - 1 /\ i # Len(w) /\ i # Len(v)
            /\ i + 1 \in 1..Len(v) /\ i < k /\ i + 1 < k
        BY <1>1, <1>2, <3>1
      <4>1. /\ i \in 1..Len(w) /\ i + 1 \in 1..Len(w) /\ i # k /\ i # k - 1 /\ i # Len(w) /\ i # Len(v)
            /\ v[i] = w[i] /\ v[i + 1] = w[i + 1]
        BY <1>2, <4>0
      <4>2. w[i] # s /\ (k > 1 => w[i] # w[k - 1]) /\ w[i] \in Slot
        BY <1>1, <1>4, <4>1
      <4> QED
        BY <1>4, <4>1, <4>2, ZenonT(40)
    <3>2. CASE i = k - 1
      <4>1. i \in 1..Len(w) /\ i # k /\ k > 1 /\ v[i] = w[i] /\ (i = Len(v) <=> k = Len(w))
        BY <1>1, <1>2, <3>2
      <4>2. w[i] # s /\ w[i] \in Slot
        <5>1. w[i] # s
          BY <1>4, <4>1
        <5>2. w[i] \in Slot
          BY <1>1, <4>1
        <5> QED
          BY <5>1, <5>2
      <4>3. new[v[i]] = next[s]
        BY <3>2, <4>1, <4>2
      <4>4. i # Len(v) => i + 1 \in 1..Len(v) /\ i + 1 = k /\ v[i + 1] = w[k + 1]
        BY <1>1, <1>2, <3>2
      <4> QED
        BY <1>4, <4>1, <4>3, <4>4
    <3>3. CASE i > k - 1
      <4>0. i + 1 \in 1..Len(w) /\ i + 1 # k /\ i + 1 # k - 1 /\ ~(i < k)
            /\ (i = Len(v) <=> i + 1 = Len(w))
        BY <1>1, <1>2, <3>3
      <4>1. i + 1 \in 1..Len(w) /\ i + 1 # k /\ i + 1 # k - 1 /\ v[i] = w[i + 1]
            /\ (i = Len(v) <=> i + 1 = Len(w))
        BY <1>2, <4>0
      <4>2. w[i + 1] # s /\ (k > 1 => w[i + 1] # w[k - 1]) /\ w[i + 1] \in Slot
        BY <1>1, <1>4, <4>1
      <4>3. new[v[i]] = next[w[i + 1]]
        BY <4>1, <4>2
      <4>4. i # Len(v) => i + 1 \in 1..Len(v) /\ v[i + 1] = w[i + 1 + 1]
        BY <1>1, <1>2, <3>3
      <4> QED
        BY <1>4, <4>1, <4>3, <4>4
    <3> QED
      BY <1>1, <1>2, <3>1, <3>2, <3>3
  <2>2. (IF k = 1 THEN next[s] ELSE head) = IF Len(v) = 0 THEN NULL ELSE v[1]
    <3>1. CASE k = 1
      <4>1. Len(v) # 0 => v[1] = w[2]
        BY <1>1, <1>2, <3>1
      <4> QED
        BY <1>1, <1>2, <1>4, <3>1, <4>1
    <3>2. CASE k # 1
      BY <1>1, <1>2, <3>2, SMTT(40)
    <3> QED
      BY <3>1, <3>2
  <2> QED
    BY <1>2, <2>1, <2>2 DEF Linked
<1>6. Linked(new, s, g)
  <2>1. ASSUME NEW i \in 1..Len(g) PROVE new[g[i]] = IF i = Len(g) THEN NULL ELSE g[i + 1]
    <3>1. CASE i = 1
      <4>1. new[g[i]] = free
        BY <1>1, <1>3, <3>1
      <4>2. Len(f) # 0 => g[2] = f[1]
        BY <1>1, <1>3
      <4> QED
        BY <1>1, <1>3, <1>4, <3>1, <4>1, <4>2
    <3>2. CASE i # 1
      <4>0. Len(f) \in Nat /\ Len(g) = Len(f) + 1
        BY <1>1, <1>3
      <4>1. i - 1 \in 1..Len(f) /\ g[i] = f[i - 1] /\ (i = Len(g) <=> i - 1 = Len(f))
        <5>1. i \in 2..Len(g) /\ (i = Len(g) <=> i - 1 = Len(f))
          BY <3>2, <4>0
        <5> QED
          BY <1>3, <5>1
      <4>2. f[i - 1] # s /\ (k > 1 => f[i - 1] # w[k - 1]) /\ f[i - 1] \in Slot
        BY <1>1, <1>4, <4>1, SMTT(40)
      <4>3. new[g[i]] = next[f[i - 1]]
        BY <4>1, <4>2
      <4>4. i # Len(g) => i \in 1..Len(f) /\ g[i + 1] = f[i]
        <5>1. Len(f) \in Nat /\ Len(g) = Len(f) + 1
          BY <1>1, <1>3
        <5>2. i # Len(g) => i \in 1..Len(f)
          BY <3>2, <5>1
        <5>3. \A a \in 1..Len(f) : g[a + 1] = f[a]
          BY <1>3
        <5> QED
          BY <5>2, <5>3
      <4>5. next[f[i - 1]] = IF i - 1 = Len(f) THEN NULL ELSE f[i - 1 + 1]
        BY <1>4, <4>1
      <4> QED
        BY <1>3, <4>1, <4>3, <4>4, <4>5
    <3> QED
      BY <3>1, <3>2
  <2>2. s = IF Len(g) = 0 THEN NULL ELSE g[1]
    BY <1>1, <1>3
  <2> QED
    BY <1>3, <2>1, <2>2 DEF Linked
<1>7. \A i \in 1..Len(v) : \E a \in 1..Len(w) : a = (IF i < k THEN i ELSE i + 1) /\ v[i] = w[a] /\ a # k
  BY <1>1, <1>2
<1>8. \A i \in 1..Len(g) : (i = 1 /\ g[i] = s) \/ (i - 1 \in 1..Len(f) /\ g[i] = f[i - 1])
  BY <1>3
<1>9. /\ \A i, j \in 1..Len(v) : v[i] = v[j] => i = j
      /\ \A i, j \in 1..Len(g) : g[i] = g[j] => i = j
      /\ \A i \in 1..Len(v), j \in 1..Len(g) : v[i] # g[j]
  <2>1. ASSUME NEW i \in 1..Len(v), NEW j \in 1..Len(v), v[i] = v[j] PROVE i = j
    BY <1>4, <1>7, <2>1
  <2>2. ASSUME NEW i \in 1..Len(g), NEW j \in 1..Len(g), g[i] = g[j] PROVE i = j
    BY <1>4, <1>8, <2>2
  <2>3. ASSUME NEW i \in 1..Len(v), NEW j \in 1..Len(g) PROVE v[i] # g[j]
    BY <1>4, <1>7, <1>8
  <2> QED
    BY <2>1, <2>2, <2>3
<1>10. ASSUME NEW x \in Slot
       PROVE  x \in 1..n <=> (\E i \in 1..Len(v) : v[i] = x) \/ (\E j \in 1..Len(g) : g[j] = x)
  <2>1. (\E i \in 1..Len(w) : w[i] = x) <=> x = s \/ \E i \in 1..Len(v) : v[i] = x
    <3>1. \A a \in 1..Len(w) : a = k \/ \E i \in 1..Len(v) : i = (IF a < k THEN a ELSE a - 1) /\ v[i] = w[a]
      BY <1>1, <1>2
    <3>2. k \in 1..Len(w) /\ w[k] = s
      OBVIOUS
    <3>3. \A i \in 1..Len(v) : \E a \in 1..Len(w) : v[i] = w[a]
      BY <1>7
    <3>4. \A a \in 1..Len(w) : w[a] = s \/ \E i \in 1..Len(v) : v[i] = w[a]
      BY <3>1
    <3>5. ASSUME NEW a \in 1..Len(w), w[a] = x PROVE x = s \/ \E i \in 1..Len(v) : v[i] = x
      BY <3>4, <3>5
    <3>6. ASSUME NEW i \in 1..Len(v), v[i] = x PROVE \E a \in 1..Len(w) : w[a] = x
      BY <3>3, <3>6
    <3> QED
      BY <3>2, <3>5, <3>6
  <2>2. (\E j \in 1..Len(g) : g[j] = x) <=> x = s \/ \E j \in 1..Len(f) : f[j] = x
    <3>1. 1 \in 1..Len(g) /\ \A j \in 1..Len(f) : j + 1 \in 1..Len(g) /\ g[j + 1] = f[j]
      BY <1>1, <1>3
    <3>2. \A j \in 1..Len(g) : g[j] = s \/ \E a \in 1..Len(f) : g[j] = f[a]
      BY <1>8
    <3>3. g[1] = s
      BY <1>3
    <3>4. \A a \in 1..Len(f) : \E j \in 1..Len(g) : g[j] = f[a]
      BY <3>1
    <3>5. ASSUME NEW j \in 1..Len(g), g[j] = x PROVE x = s \/ \E a \in 1..Len(f) : f[a] = x
      BY <3>2, <3>5
    <3>6. (x = s \/ \E a \in 1..Len(f) : f[a] = x) => \E j \in 1..Len(g) : g[j] = x
      BY <3>1, <3>3, <3>4
    <3> QED
      BY <3>5, <3>6
  <2> QED
    BY <2>1, <2>2 DEF Pool
<1>11. Len(v) + Len(g) = n
  <2>1. Len(w) + Len(f) = n /\ Len(w) \in Nat /\ Len(f) \in Nat
    BY <1>1, <1>4
  <2>2. Len(v) = Len(w) - 1 /\ Len(g) = Len(f) + 1
    BY <1>2, <1>3
  <2> QED
    BY <2>1, <2>2
<1> QED
  BY <1>5, <1>6, <1>9, <1>10, <1>11 DEF Pool, v, g

(* A fresh pool: the free list runs through slots 1..n.                     *)
LEMMA PoolNew ==
    ASSUME NEW n \in 1..QueueSize
    PROVE  LET next == [s \in Slot |-> IF s < n THEN s + 1 ELSE NULL]
           IN next \in NextFcn /\ Pool(next, NULL, 1, n, <<>>, [i \in 1..n |-> i])
<1> DEFINE next == [s \in Slot |-> IF s < n THEN s + 1 ELSE NULL]
           f == [i \in 1..n |-> i]
<1>1. QueueSize \in Nat /\ n \in Nat /\ n # 0 /\ 1..n \subseteq Slot
  BY DefsAssumption DEF Slot
<1>2. next \in NextFcn
  BY <1>1 DEF NextFcn, Slot, NULL
<1>3. f \in Seq(Slot) /\ Len(f) = n /\ \A i \in 1..n : f[i] = i
  BY <1>1
<1>4. Linked(next, 1, f)
  <2>1. ASSUME NEW i \in 1..n PROVE next[f[i]] = IF i = n THEN NULL ELSE f[i + 1]
    BY <1>1, <1>3
  <2> QED
    BY <1>1, <1>3, <2>1 DEF Linked
<1>5. Linked(next, NULL, <<>>)
  BY DEF Linked
<1> HIDE DEF f
<1>6. Pool(next, NULL, 1, n, <<>>, f)
  BY <1>1, <1>3, <1>4, <1>5 DEF Pool
<1> QED
  BY <1>2, <1>6 DEF f

-----------------------------------------------------------------------------
(* pos lists the numbers of S in 1..n in increasing order.                  *)
Picks(pos, m, n, S) ==
    /\ m \in 0..n /\ pos \in [1..m -> 1..n]
    /\ \A i, j \in 1..m : i < j => pos[i] < pos[j]
    /\ \A k \in 1..n : k \in S <=> \E i \in 1..m : pos[i] = k

LEMMA PicksMore ==
    ASSUME NEW n \in Nat, NEW S, NEW m, NEW pos, Picks(pos, m, n, S)
    PROVE  /\ n + 1 \in S => Picks([i \in 1..(m + 1) |-> IF i = m + 1 THEN n + 1 ELSE pos[i]],
                                   m + 1, n + 1, S)
           /\ n + 1 \notin S => Picks(pos, m, n + 1, S)
<1>1. /\ m \in 0..n /\ pos \in [1..m -> 1..n]
      /\ \A i, j \in 1..m : i < j => pos[i] < pos[j]
      /\ \A k \in 1..n : k \in S <=> \E i \in 1..m : pos[i] = k
  BY DEF Picks
<1>2. ASSUME n + 1 \in S
      PROVE  Picks([i \in 1..(m + 1) |-> IF i = m + 1 THEN n + 1 ELSE pos[i]], m + 1, n + 1, S)
  <2> DEFINE p == [i \in 1..(m + 1) |-> IF i = m + 1 THEN n + 1 ELSE pos[i]]
  <2>1. \A i \in 1..(m + 1) : i = m + 1 \/ i \in 1..m
    BY <1>1
  <2>2. /\ p \in [1..(m + 1) -> 1..(n + 1)]
        /\ p[m + 1] = n + 1 /\ \A i \in 1..m : p[i] = pos[i] /\ p[i] \in 1..n
    BY <1>1, <2>1
  <2> HIDE DEF p
  <2>3. \A i, j \in 1..(m + 1) : i < j => p[i] < p[j]
    <3>1. ASSUME NEW i \in 1..(m + 1), NEW j \in 1..(m + 1), i < j PROVE p[i] < p[j]
      <4>1. i \in 1..m
        BY <1>1, <3>1
      <4> QED
        BY <1>1, <2>1, <2>2, <3>1, <4>1, SMTT(40)
    <3> QED
      BY <3>1
  <2>4. \A k \in 1..(n + 1) : k \in S <=> \E i \in 1..(m + 1) : p[i] = k
    <3>1. ASSUME NEW k \in 1..n PROVE k \in S <=> \E i \in 1..(m + 1) : p[i] = k
      <4>1. k # n + 1
        OBVIOUS
      <4>2. \A i \in 1..m : i \in 1..(m + 1)
        BY <1>1
      <4> QED
        BY <1>1, <2>1, <2>2, <4>1, <4>2
    <3>2. \E i \in 1..(m + 1) : p[i] = n + 1
      BY <1>1, <2>2
    <3>3. \A k \in 1..(n + 1) : k \in 1..n \/ k = n + 1
      OBVIOUS
    <3> QED
      BY <1>2, <3>1, <3>2, <3>3
  <2> QED
    BY <1>1, <2>2, <2>3, <2>4 DEF Picks, p
<1>3. ASSUME n + 1 \notin S PROVE Picks(pos, m, n + 1, S)
  <2>1. \A k \in 1..(n + 1) : k \in 1..n \/ k = n + 1
    OBVIOUS
  <2>2. \A i \in 1..m : pos[i] \in 1..n /\ pos[i] # n + 1
    BY <1>1
  <2>3. \A k \in 1..(n + 1) : k \in S <=> \E i \in 1..m : pos[i] = k
    BY <1>1, <1>3, <2>1, <2>2
  <2>4. m \in 0..(n + 1) /\ pos \in [1..m -> 1..(n + 1)]
    BY <1>1
  <2> QED
    BY <1>1, <2>3, <2>4 DEF Picks
<1> QED
  BY <1>2, <1>3

(* The places 1..n can be split into those of S and the others, in order.   *)
LEMMA PicksExist ==
    ASSUME NEW n \in Nat, NEW S, NEW R, \A k \in 1..n : k \in R <=> k \notin S
    PROVE  \E m, l \in 0..n : \E pos, out :
              m + l = n /\ Picks(pos, m, n, S) /\ Picks(out, l, n, R)
<1> DEFINE Split(k) == \E m, l \in 0..k : \E pos, out :
                          m + l = k /\ Picks(pos, m, k, S) /\ Picks(out, l, k, R)
           D == {k \in Nat : k <= n => Split(k)}
<1>1. 0 \in D
  <2>1. Picks(<<>>, 0, 0, S) /\ Picks(<<>>, 0, 0, R)
    BY DEF Picks
  <2> QED
    BY <2>1
<1>2. ASSUME NEW k \in Nat, k \in D PROVE k + 1 \in D
  <2> SUFFICES ASSUME k + 1 <= n PROVE Split(k + 1)
    OBVIOUS
  <2>1. Split(k) /\ k + 1 \in 1..n
    BY <1>2
  <2>2. PICK m, l \in 0..k : \E pos, out :
           m + l = k /\ Picks(pos, m, k, S) /\ Picks(out, l, k, R)
    BY <2>1
  <2>3. PICK pos, out : m + l = k /\ Picks(pos, m, k, S) /\ Picks(out, l, k, R)
    BY <2>2
  <2>4. m + l + 1 = k + 1 /\ m + 1 \in 0..(k + 1) /\ l + 1 \in 0..(k + 1)
        /\ m \in 0..(k + 1) /\ l \in 0..(k + 1) /\ (m + 1) + l = k + 1 /\ m + (l + 1) = k + 1
    BY <2>3
  <2>5. CASE k + 1 \in S
    <3>1. \E p : Picks(p, m + 1, k + 1, S)
      BY <2>3, <2>5, PicksMore
    <3>2. Picks(out, l, k + 1, R)
      BY <2>1, <2>3, <2>5, PicksMore
    <3> QED
      BY <2>4, <3>1, <3>2
  <2>6. CASE k + 1 \notin S
    <3>1. \E p : Picks(p, l + 1, k + 1, R)
      <4>1. k + 1 \in R
        BY <2>1, <2>6
      <4> QED
        BY <2>3, <4>1, PicksMore
    <3>2. Picks(pos, m, k + 1, S)
      BY <2>3, <2>6, PicksMore
    <3> QED
      BY <2>4, <3>1, <3>2
  <2> QED
    BY <2>5, <2>6
<1> HIDE DEF D
<1>3. n \in D
  BY <1>1, <1>2, SetInduction
<1> QED
  BY <1>3 DEF D

(* The numbers of S after and before p.                                     *)
Above(S, p) == {j \in S : j > p}
Below(S, p) == {j \in S : j < p}

(* The i-th place, with the bounds of 1..n for the first and last but one.  *)
FromPlace(pos, i) == IF i = 0 THEN 0 ELSE pos[i]
ToPlace(pos, m, n, i) == IF i = m + 1 THEN n + 1 ELSE pos[i]

(* The next place after the i-th, and the last one before it.               *)
LEMMA PicksNext ==
    ASSUME NEW n \in Nat, NEW S \in SUBSET (1..n), NEW m, NEW pos, Picks(pos, m, n, S),
           NEW i \in 0..m
    PROVE  IF i = m THEN Above(S, FromPlace(pos, i)) = {}
           ELSE /\ pos[i + 1] \in Above(S, FromPlace(pos, i))
                /\ Min(Above(S, FromPlace(pos, i))) = pos[i + 1]
<1>0. PICK p : p = FromPlace(pos, i)
  OBVIOUS
<1>1. /\ m \in Nat /\ \A a \in 1..m : pos[a] \in 1..n /\ pos[a] \in S /\ pos[a] \in Nat /\ pos[a] > 0
      /\ \A a, b \in 1..m : a < b => pos[a] < pos[b]
      /\ \A k \in S : \E a \in 1..m : pos[a] = k
  BY DEF Picks
<1>2. \A a \in 1..m : a <= i => ~(pos[a] > p)
  <2>1. ASSUME NEW a \in 1..m, a <= i PROVE ~(pos[a] > p)
    <3>1. i \in 1..m /\ p = pos[i]
      BY <1>0, <1>1, <2>1 DEF FromPlace
    <3>2. a < i \/ a = i
      BY <2>1
    <3> QED
      BY <1>1, <3>1, <3>2
  <2> QED
    BY <2>1
<1>3. CASE i = m
  <2>1. \A a \in 1..m : ~(pos[a] > p)
    BY <1>1, <1>2, <1>3
  <2>2. \A j \in S : ~(j > p)
    BY <1>1, <2>1
  <2> QED
    BY <1>0, <1>3, <2>2 DEF Above
<1>4. CASE i # m
  <2> DEFINE after == Above(S, p)
  <2>1. i + 1 \in 1..m /\ i + 1 \in Nat
    BY <1>1, <1>4
  <2>2. pos[i + 1] > p
    <3>1. CASE i = 0
      BY <1>0, <1>1, <2>1, <3>1 DEF FromPlace
    <3>2. CASE i # 0
      <4>1. i \in 1..m /\ i < i + 1 /\ p = pos[i]
        BY <1>0, <1>1, <3>2 DEF FromPlace
      <4>2. pos[i] < pos[i + 1]
        BY <1>1, <2>1, <4>1
      <4> QED
        BY <1>1, <2>1, <4>1, <4>2
    <3> QED
      BY <3>1, <3>2
  <2>3. pos[i + 1] \in after
    BY <1>1, <2>1, <2>2 DEF Above
  <2>4. after \in SUBSET Nat /\ after # {}
    <3>1. S \subseteq Nat
      OBVIOUS
    <3>2. after \subseteq S
      BY DEF Above
    <3> HIDE DEF after
    <3> QED
      BY <2>3, <3>1, <3>2
  <2>5. Min(after) \in after /\ Min(after) <= pos[i + 1]
    BY <2>3, <2>4, MinOfNats
  <2>6. PICK a \in 1..m : pos[a] = Min(after)
    BY <1>1, <2>5 DEF Above
  <2>7. ~(a <= i)
    BY <1>2, <2>5, <2>6 DEF Above
  <2>8. a = i + 1 \/ i + 1 < a
    BY <1>1, <2>7
  <2>9. i + 1 < a => pos[i + 1] < pos[a]
    BY <1>1, <2>1
  <2>10. Min(after) \in Nat /\ pos[i + 1] \in Nat
    BY <1>1, <2>1, <2>4, <2>5
  <2> HIDE DEF after
  <2>11. Min(after) = pos[i + 1]
    BY <2>5, <2>6, <2>8, <2>9, <2>10
  <2> QED
    BY <1>0, <1>4, <2>3, <2>11 DEF after
<1> QED
  BY <1>3, <1>4

LEMMA PicksPrevious ==
    ASSUME NEW n \in Nat, NEW S \in SUBSET (1..n), NEW m \in Nat, NEW pos, Picks(pos, m, n, S),
           NEW i \in 1..(m + 1)
    PROVE  IF i = 1 THEN Below(S, ToPlace(pos, m, n, i)) = {}
           ELSE /\ pos[i - 1] \in Below(S, ToPlace(pos, m, n, i))
                /\ Max(Below(S, ToPlace(pos, m, n, i))) = pos[i - 1]
<1>0. PICK p : p = ToPlace(pos, m, n, i)
  OBVIOUS
<1>1. /\ m \in Nat /\ \A a \in 1..m : pos[a] \in 1..n /\ pos[a] \in S /\ pos[a] \in Nat /\ pos[a] < n + 1
      /\ \A a, b \in 1..m : a < b => pos[a] < pos[b]
      /\ \A k \in S : \E a \in 1..m : pos[a] = k
  BY DEF Picks
<1>2. \A a \in 1..m : a >= i => ~(pos[a] < p)
  <2>1. ASSUME NEW a \in 1..m, a >= i PROVE ~(pos[a] < p)
    <3>1. i \in 1..m /\ p = pos[i]
      BY <1>0, <1>1, <2>1 DEF ToPlace
    <3>2. i < a \/ a = i
      BY <2>1
    <3> QED
      BY <1>1, <3>1, <3>2
  <2> QED
    BY <2>1
<1>3. CASE i = 1
  <2>1. \A a \in 1..m : ~(pos[a] < p)
    BY <1>1, <1>2, <1>3
  <2>2. \A j \in S : ~(j < p)
    BY <1>1, <2>1
  <2> QED
    BY <1>0, <1>3, <2>2 DEF Below
<1>4. CASE i # 1
  <2> DEFINE before == Below(S, p)
  <2>1. i - 1 \in 1..m /\ i - 1 \in Nat
    BY <1>1, <1>4
  <2>2. pos[i - 1] < p
    <3>1. CASE i = m + 1
      BY <1>0, <1>1, <2>1, <3>1 DEF ToPlace
    <3>2. CASE i # m + 1
      <4>1. i \in 1..m /\ i - 1 < i /\ p = pos[i]
        BY <1>0, <1>1, <3>2 DEF ToPlace
      <4> QED
        BY <1>1, <2>1, <4>1
    <3> QED
      BY <3>1, <3>2
  <2>3. pos[i - 1] \in before
    BY <1>1, <2>1, <2>2 DEF Below
  <2>4. before \in SUBSET Nat /\ before # {} /\ n \in Nat /\ \A x \in before : x <= n
    <3>1. S \subseteq Nat /\ \A x \in S : x <= n
      OBVIOUS
    <3>2. before \subseteq S
      BY DEF Below
    <3> HIDE DEF before
    <3> QED
      BY <2>3, <3>1, <3>2
  <2>5. Max(before) \in before /\ Max(before) >= pos[i - 1]
    BY <2>3, <2>4, MaxOfNats
  <2>6. PICK a \in 1..m : pos[a] = Max(before)
    BY <1>1, <2>5 DEF Below
  <2>7. ~(a >= i)
    BY <1>2, <2>5, <2>6 DEF Below
  <2>8. a = i - 1 \/ a < i - 1
    BY <1>1, <2>7
  <2>9. a < i - 1 => pos[a] < pos[i - 1]
    BY <1>1, <2>1
  <2>10. Max(before) \in Nat /\ pos[i - 1] \in Nat
    BY <1>1, <2>1, <2>4, <2>5
  <2> HIDE DEF before
  <2>11. Max(before) = pos[i - 1]
    BY <2>5, <2>6, <2>8, <2>9, <2>10
  <2> QED
    BY <1>0, <1>4, <2>3, <2>11 DEF before
<1> QED
  BY <1>3, <1>4

(* Where DestroyWindow links the message at place i of w when those at the   *)
(* places gone are flushed: a kept one to the next kept one, a flushed one   *)
(* to the one flushed before it.                                             *)
NextOf(w, gone, i) ==
    IF Above((1..Len(w)) \ gone, i) = {} THEN NULL ELSE w[Min(Above((1..Len(w)) \ gone, i))]
FreedOf(w, gone, free, i) ==
    IF Below(gone, i) = {} THEN free ELSE w[Max(Below(gone, i))]

Relinked(new, next, w, gone, free) ==
    /\ \A s \in Slot : (\A i \in 1..Len(w) : w[i] # s) => new[s] = next[s]
    /\ \A i \in 1..Len(w) : new[w[i]] = IF i \in gone THEN FreedOf(w, gone, free, i)
                                         ELSE NextOf(w, gone, i)

(* The pool it leaves: the messages waiting are those at the other places.   *)
FlushedPool(new, w, gone, free, n) ==
    \E m \in 0..Len(w) : \E pos, g :
       /\ Picks(pos, m, Len(w), (1..Len(w)) \ gone)
       /\ Pool(new, NextOf(w, gone, 0), FreedOf(w, gone, free, Len(w) + 1), n,
               [i \in 1..m |-> w[pos[i]]], g)

LEMMA NextOfPicks ==
    ASSUME NEW w \in Seq(Slot), NEW gone \in SUBSET (1..Len(w)), NEW m, NEW pos,
           Picks(pos, m, Len(w), (1..Len(w)) \ gone), NEW i \in 0..m
    PROVE  NextOf(w, gone, FromPlace(pos, i)) = IF i = m THEN NULL ELSE w[pos[i + 1]]
<1>1. PICK n \in Nat : n = Len(w)
  OBVIOUS
<1>2. PICK S \in SUBSET (1..n) : S = (1..n) \ gone
  OBVIOUS
<1>3. Picks(pos, m, n, S)
  BY <1>1, <1>2
<1>4. PICK p : p = FromPlace(pos, i)
  OBVIOUS
<1>5. IF i = m THEN Above(S, p) = {}
      ELSE pos[i + 1] \in Above(S, p) /\ Min(Above(S, p)) = pos[i + 1]
  BY <1>3, <1>4, PicksNext
<1> QED
  BY <1>1, <1>2, <1>4, <1>5 DEF NextOf

LEMMA FreedOfPicks ==
    ASSUME NEW w \in Seq(Slot), NEW gone \in SUBSET (1..Len(w)), NEW l \in Nat, NEW out, NEW free,
           Picks(out, l, Len(w), gone), NEW i \in 1..(l + 1)
    PROVE  FreedOf(w, gone, free, ToPlace(out, l, Len(w), i))
              = IF i = 1 THEN free ELSE w[out[i - 1]]
<1>1. PICK n \in Nat : n = Len(w)
  OBVIOUS
<1>2. Picks(out, l, n, gone) /\ gone \in SUBSET (1..n)
  BY <1>1
<1>3. PICK p : p = ToPlace(out, l, n, i)
  OBVIOUS
<1>4. IF i = 1 THEN Below(gone, p) = {}
      ELSE out[i - 1] \in Below(gone, p) /\ Max(Below(gone, p)) = out[i - 1]
  BY <1>2, <1>3, PicksPrevious
<1> QED
  BY <1>1, <1>3, <1>4 DEF FreedOf

(* The flush keeps the others in their order and frees the flushed ones.     *)
LEMMA PoolFlush ==
    ASSUME NEW next \in NextFcn, NEW head, NEW free, NEW n \in 0..QueueSize, NEW w, NEW f,
           Pool(next, head, free, n, w, f), NEW gone \in SUBSET (1..Len(w)),
           NEW new \in NextFcn, Relinked(new, next, w, gone, free)
    PROVE  FlushedPool(new, w, gone, free, n)
<1> DEFINE kept == (1..Len(w)) \ gone
<1>1. /\ w \in Seq(Slot) /\ f \in Seq(Slot) /\ Len(w) \in Nat /\ Len(f) \in Nat
      /\ \A a \in 1..Len(w) : w[a] \in Slot
      /\ \A a \in 1..Len(f) : f[a] \in Slot
  BY DEF Pool, Linked
<1>2. /\ \A a, b \in 1..Len(w) : w[a] = w[b] => a = b
      /\ \A a, b \in 1..Len(f) : f[a] = f[b] => a = b
      /\ \A a \in 1..Len(w), b \in 1..Len(f) : w[a] # f[b]
      /\ \A i \in 1..Len(f) : next[f[i]] = IF i = Len(f) THEN NULL ELSE f[i + 1]
      /\ free = IF Len(f) = 0 THEN NULL ELSE f[1]
      /\ Len(w) + Len(f) = n
  BY DEF Pool, Linked
<1>3. \A k \in 1..Len(w) : k \in gone <=> k \notin kept
  OBVIOUS
<1>4. PICK m, l \in 0..Len(w) : \E pos, out :
         m + l = Len(w) /\ Picks(pos, m, Len(w), kept) /\ Picks(out, l, Len(w), gone)
  BY <1>1, <1>3, PicksExist
<1>5. PICK pos, out :
         m + l = Len(w) /\ Picks(pos, m, Len(w), kept) /\ Picks(out, l, Len(w), gone)
  BY <1>4
<1> DEFINE v == [i \in 1..m |-> w[pos[i]]]
           g == [i \in 1..(l + Len(f)) |-> IF i <= l THEN w[out[l + 1 - i]] ELSE f[i - l]]
<1>6. /\ m \in Nat /\ l \in Nat
      /\ \A i \in 1..m : pos[i] \in 1..Len(w) /\ pos[i] \in kept /\ pos[i] \notin gone
      /\ \A i \in 1..l : out[i] \in 1..Len(w) /\ out[i] \in gone
      /\ \A i, j \in 1..m : i < j => pos[i] < pos[j]
      /\ \A i, j \in 1..l : i < j => out[i] < out[j]
      /\ \A k \in 1..Len(w) : k \notin gone => \E i \in 1..m : pos[i] = k
      /\ \A k \in 1..Len(w) : k \in gone => \E i \in 1..l : out[i] = k
  <2>1. /\ m \in Nat /\ pos \in [1..m -> 1..Len(w)]
        /\ \A i, j \in 1..m : i < j => pos[i] < pos[j]
        /\ \A k \in 1..Len(w) : k \in kept <=> \E i \in 1..m : pos[i] = k
    BY <1>5 DEF Picks
  <2>2. /\ l \in Nat /\ out \in [1..l -> 1..Len(w)]
        /\ \A i, j \in 1..l : i < j => out[i] < out[j]
        /\ \A k \in 1..Len(w) : k \in gone <=> \E i \in 1..l : out[i] = k
    BY <1>5 DEF Picks
  <2>3. /\ \A i \in 1..m : pos[i] \in 1..Len(w) /\ pos[i] \in kept /\ pos[i] \notin gone
        /\ \A k \in 1..Len(w) : k \notin gone => \E i \in 1..m : pos[i] = k
    BY <1>3, <2>1
  <2>4. \A i \in 1..l : out[i] \in 1..Len(w) /\ out[i] \in gone
    BY <2>2
  <2> QED
    BY <2>1, <2>2, <2>3, <2>4
<1>7. /\ v \in Seq(Slot) /\ Len(v) = m
      /\ \A i \in 1..m : v[i] = w[pos[i]]
  <2>1. v \in [1..m -> Slot]
    BY <1>1, <1>6
  <2> QED
    BY <1>6, <2>1, FcnIsSeq
<1>8. /\ \A i \in 1..l : l + 1 - i \in 1..l /\ i \in 1..(l + Len(f)) /\ g[i] = w[out[l + 1 - i]]
      /\ \A i \in (l + 1)..(l + Len(f)) : i - l \in 1..Len(f) /\ g[i] = f[i - l]
      /\ \A i \in 1..(l + Len(f)) : i \in 1..l \/ i \in (l + 1)..(l + Len(f))
  BY <1>1, <1>6
<1>9. g \in Seq(Slot) /\ Len(g) = l + Len(f)
  <2>1. \A i \in 1..(l + Len(f)) : (IF i <= l THEN w[out[l + 1 - i]] ELSE f[i - l]) \in Slot
    BY <1>1, <1>6
  <2>2. l + Len(f) \in Nat
    BY <1>1, <1>6
  <2>3. g \in [1..(l + Len(f)) -> Slot]
    BY <2>1
  <2> HIDE DEF g
  <2> QED
    BY <2>2, <2>3, FcnIsSeq
<1> HIDE DEF v, g
<1>10. \A i \in 1..m : new[v[i]] = NextOf(w, gone, pos[i])
  BY <1>6, <1>7 DEF Relinked
<1>11. \A i \in 1..l : new[w[out[i]]] = FreedOf(w, gone, free, out[i])
  BY <1>6 DEF Relinked
<1>12. \A i \in 1..Len(f) : new[f[i]] = next[f[i]]
  BY <1>1, <1>2 DEF Relinked
<1> HIDE DEF kept
<1>13. Linked(new, NextOf(w, gone, 0), v)
  <2>1. ASSUME NEW i \in 0..m
        PROVE  NextOf(w, gone, FromPlace(pos, i)) = IF i = m THEN NULL ELSE v[i + 1]
    <3>1. NextOf(w, gone, FromPlace(pos, i)) = IF i = m THEN NULL ELSE w[pos[i + 1]]
      <4>1. Picks(pos, m, Len(w), (1..Len(w)) \ gone) /\ w \in Seq(Slot)
        BY <1>1, <1>5 DEF kept
      <4> QED
        BY <4>1, NextOfPicks
    <3>2. i # m => i + 1 \in 1..m
      BY <1>6
    <3> QED
      BY <1>7, <3>1, <3>2
  <2>2. \A i \in 1..m : new[v[i]] = IF i = m THEN NULL ELSE v[i + 1]
    <3>1. \A i \in 1..m : i \in 0..m /\ i # 0
      BY <1>6
    <3> QED
      BY <1>10, <2>1, <3>1 DEF FromPlace
  <2>3. NextOf(w, gone, 0) = IF m = 0 THEN NULL ELSE v[1]
    <3>1. 0 \in 0..m /\ 0 + 1 = 1
      BY <1>6
    <3> QED
      BY <2>1, <3>1 DEF FromPlace
  <2> QED
    BY <1>7, <2>2, <2>3 DEF Linked
<1>14. Linked(new, FreedOf(w, gone, free, Len(w) + 1), g)
  <2>1. ASSUME NEW i \in 1..(l + 1)
        PROVE  FreedOf(w, gone, free, ToPlace(out, l, Len(w), i))
                  = IF i = 1 THEN free ELSE w[out[i - 1]]
    BY <1>1, <1>5, <1>6, FreedOfPicks, SMTT(40)
  <2>2. FreedOf(w, gone, free, Len(w) + 1) = IF Len(g) = 0 THEN NULL ELSE g[1]
    <3>1. l + 1 \in 1..(l + 1)
      BY <1>6
    <3>2. FreedOf(w, gone, free, Len(w) + 1) = IF l = 0 THEN free ELSE w[out[l]]
      <4>1. l + 1 - 1 = l /\ (l + 1 = 1 <=> l = 0)
        BY <1>6
      <4>2. PICK i \in 1..(l + 1) : i = l + 1
        BY <3>1
      <4>3. ToPlace(out, l, Len(w), i) = Len(w) + 1
        BY <4>2 DEF ToPlace
      <4> QED
        BY <2>1, <4>1, <4>2, <4>3
    <3>3. CASE l = 0
      <4>1. Len(f) # 0 => 1 \in (l + 1)..(l + Len(f)) /\ 1 - l = 1
        BY <1>1, <3>3
      <4>2. Len(g) = Len(f)
        BY <1>1, <1>9, <3>3
      <4>3. FreedOf(w, gone, free, Len(w) + 1) = free
        BY <3>2, <3>3
      <4> QED
        BY <1>2, <1>8, <4>1, <4>2, <4>3
    <3>4. CASE l # 0
      <4>1. 1 \in 1..l /\ l + 1 - 1 = l /\ l + Len(f) # 0
        BY <1>1, <1>6, <3>4
      <4>2. g[1] = w[out[l]]
        BY <1>8, <4>1
      <4> QED
        BY <1>9, <3>2, <3>4, <4>1, <4>2
    <3> QED
      BY <3>3, <3>4
  <2>3. ASSUME NEW i \in 1..l
        PROVE  new[g[i]] = IF i = Len(g) THEN NULL ELSE g[i + 1]
    <3>1. PICK a \in 1..l : a = l + 1 - i
      BY <1>8
    <3>2. g[i] = w[out[a]] /\ a \in 1..(l + 1) /\ a # l + 1
      BY <1>6, <1>8, <3>1
    <3>3. new[g[i]] = IF a = 1 THEN free ELSE w[out[a - 1]]
      BY <1>11, <2>1, <3>2 DEF ToPlace
    <3>4. CASE a = 1
      <4>1. i = l
        BY <1>6, <3>1, <3>4
      <4>2. i = Len(g) <=> Len(f) = 0
        BY <1>1, <1>6, <1>9, <4>1
      <4>3. Len(f) # 0 => i + 1 \in (l + 1)..(l + Len(f)) /\ i + 1 - l = 1
        BY <1>1, <1>6, <4>1
      <4>4. Len(f) # 0 => g[i + 1] = f[1]
        <5>1. \A j \in (l + 1)..(l + Len(f)) : g[j] = f[j - l]
          BY <1>8
        <5>2. Len(f) # 0 => g[i + 1] = f[i + 1 - l]
          BY <4>3, <5>1
        <5> QED
          BY <4>3, <5>2
      <4>5. new[g[i]] = free
        BY <3>3, <3>4
      <4> QED
        BY <1>2, <4>2, <4>4, <4>5
    <3>5. CASE a # 1
      <4>1. i + 1 \in 1..l /\ l + 1 - (i + 1) = a - 1 /\ i # l + Len(f)
        BY <1>1, <1>6, <3>1, <3>5
      <4> QED
        BY <1>8, <1>9, <3>3, <3>5, <4>1
    <3> QED
      BY <3>4, <3>5
  <2>4. ASSUME NEW i \in (l + 1)..(l + Len(f))
        PROVE  new[g[i]] = IF i = Len(g) THEN NULL ELSE g[i + 1]
    <3>1. PICK b \in 1..Len(f) : b = i - l
      BY <1>8
    <3>2. g[i] = f[b]
      BY <1>8, <3>1
    <3>3. new[g[i]] = IF b = Len(f) THEN NULL ELSE f[b + 1]
      BY <1>2, <1>12, <3>2
    <3>4. i = Len(g) <=> b = Len(f)
      BY <1>1, <1>6, <1>9, <3>1
    <3>5. b # Len(f) => i + 1 \in (l + 1)..(l + Len(f)) /\ i + 1 - l = b + 1
      <4>1. Len(f) \in Nat /\ l \in Nat
        BY <1>1, <1>6
      <4> QED
        BY <3>1, <4>1
    <3>6. b # Len(f) => g[i + 1] = f[b + 1]
      <4>1. \A j \in (l + 1)..(l + Len(f)) : g[j] = f[j - l]
        BY <1>8
      <4>2. b # Len(f) => g[i + 1] = f[i + 1 - l]
        BY <3>5, <4>1
      <4> QED
        BY <3>5, <4>2
    <3> QED
      BY <3>3, <3>4, <3>6
  <2> QED
    BY <1>8, <1>9, <2>2, <2>3, <2>4 DEF Linked
<1>15. /\ \A i \in 1..m : \E a \in 1..Len(w) : v[i] = w[a] /\ a \notin gone
       /\ \A a \in 1..Len(w) : a \notin gone => \E i \in 1..m : v[i] = w[a]
  <2>1. \A i \in 1..m : v[i] = w[pos[i]] /\ pos[i] \in 1..Len(w) /\ pos[i] \notin gone
    BY <1>6, <1>7
  <2>2. \A a \in 1..Len(w) : a \notin gone => \E i \in 1..m : pos[i] = a
    BY <1>6
  <2>3. ASSUME NEW a \in 1..Len(w), a \notin gone PROVE \E i \in 1..m : v[i] = w[a]
    BY <2>1, <2>2, <2>3
  <2> QED
    BY <2>1, <2>3
<1>16. /\ \A i \in 1..Len(g) : \/ \E a \in 1..l : a = l + 1 - i /\ g[i] = w[out[a]] /\ out[a] \in gone
                               \/ \E b \in 1..Len(f) : b = i - l /\ g[i] = f[b]
       /\ \A a \in 1..Len(w) : a \in gone => \E i \in 1..Len(g) : g[i] = w[a]
       /\ \A b \in 1..Len(f) : \E i \in 1..Len(g) : g[i] = f[b]
  <2>1. \A a \in 1..l : l + 1 - a \in 1..l /\ l + 1 - (l + 1 - a) = a
    BY <1>6
  <2>2. ASSUME NEW a \in 1..l PROVE \E i \in 1..Len(g) : g[i] = w[out[a]]
    <3>1. PICK i \in 1..l : i = l + 1 - a /\ l + 1 - i = a
      BY <2>1
    <3>2. i \in 1..Len(g) /\ g[i] = w[out[l + 1 - i]]
      BY <1>8, <1>9
    <3> QED
      BY <3>1, <3>2
  <2>3. \A b \in 1..Len(f) : b + l \in (l + 1)..(l + Len(f)) /\ b + l - l = b /\ b + l \in 1..(l + Len(f))
    BY <1>1, <1>6
  <2>4. ASSUME NEW b \in 1..Len(f) PROVE \E i \in 1..Len(g) : g[i] = f[b]
    <3>1. PICK i \in (l + 1)..(l + Len(f)) : i = b + l /\ i - l = b /\ i \in 1..(l + Len(f))
      BY <2>3
    <3>2. i \in 1..Len(g) /\ g[i] = f[i - l]
      BY <1>8, <1>9, <3>1
    <3> QED
      BY <3>1, <3>2
  <2>5. \A i \in 1..Len(g) : \/ \E a \in 1..l : a = l + 1 - i /\ g[i] = w[out[a]] /\ out[a] \in gone
                             \/ \E b \in 1..Len(f) : b = i - l /\ g[i] = f[b]
    BY <1>6, <1>8, <1>9
  <2>6. ASSUME NEW a \in 1..Len(w), a \in gone PROVE \E i \in 1..Len(g) : g[i] = w[a]
    <3>1. PICK b \in 1..l : out[b] = a
      BY <1>6, <2>6
    <3> QED
      BY <2>2, <3>1
  <2> QED
    BY <2>4, <2>5, <2>6
<1>17. ASSUME NEW i \in 1..m, NEW j \in 1..m, v[i] = v[j] PROVE i = j
  <2>1. pos[i] = pos[j] /\ pos[i] \in Nat
    <3>1. w[pos[i]] = w[pos[j]]
      BY <1>7, <1>17
    <3>2. pos[i] \in 1..Len(w) /\ pos[j] \in 1..Len(w)
      BY <1>6
    <3>3. pos[i] = pos[j]
      BY <1>2, <3>1, <3>2
    <3> QED
      BY <3>2, <3>3
  <2>2. i < j \/ i = j \/ j < i
    BY <1>6
  <2>3. ~(i < j) /\ ~(j < i)
    BY <1>6, <2>1
  <2> QED
    BY <2>2, <2>3
<1>18. ASSUME NEW i \in 1..Len(g), NEW j \in 1..Len(g), g[i] = g[j] PROVE i = j
  <2>1. ASSUME NEW a \in 1..l, NEW b \in 1..l, out[a] = out[b] PROVE a = b
    <3>1. a < b \/ a = b \/ b < a
      BY <1>6
    <3>2. out[a] \in Nat /\ ~(a < b) /\ ~(b < a)
      BY <1>6, <2>1
    <3> QED
      BY <3>1, <3>2
  <2>2. CASE \E a \in 1..l : a = l + 1 - i /\ g[i] = w[out[a]] /\ out[a] \in gone
    <3>1. PICK a \in 1..l : a = l + 1 - i /\ g[i] = w[out[a]] /\ out[a] \in gone
      BY <2>2
    <3>0. \A c \in 1..l : out[c] \in 1..Len(w)
      BY <1>6
    <3>2. PICK b \in 1..l : b = l + 1 - j /\ g[j] = w[out[b]]
      <4>1. \A b \in 1..Len(f) : g[j] # f[b]
        BY <1>2, <1>18, <3>0, <3>1
      <4> QED
        BY <1>16, <4>1
    <3>3. out[a] = out[b]
      <4>1. w[out[a]] = w[out[b]]
        BY <1>18, <3>1, <3>2
      <4> QED
        BY <1>2, <3>0, <4>1
    <3>4. a = b
      BY <2>1, <3>3
    <3> QED
      BY <1>6, <1>9, <1>1, <3>1, <3>2, <3>4
  <2>3. CASE \E b \in 1..Len(f) : b = i - l /\ g[i] = f[b]
    <3>1. PICK a \in 1..Len(f) : a = i - l /\ g[i] = f[a]
      BY <2>3
    <3>2. PICK b \in 1..Len(f) : b = j - l /\ g[j] = f[b]
      <4>1. \A c \in 1..l : out[c] \in 1..Len(w)
        BY <1>6
      <4>2. \A c \in 1..l : g[j] # w[out[c]]
        BY <1>2, <1>18, <3>1, <4>1
      <4> QED
        BY <1>16, <4>2
    <3>3. a = b
      BY <1>2, <1>18, <3>1, <3>2
    <3> QED
      BY <1>6, <1>9, <1>1, <3>1, <3>2, <3>3
  <2> QED
    BY <1>16, <2>2, <2>3
<1>19. ASSUME NEW i \in 1..m, NEW j \in 1..Len(g) PROVE v[i] # g[j]
  <2>1. PICK a \in 1..Len(w) : v[i] = w[a] /\ a \notin gone
    BY <1>15
  <2>2. CASE \E b \in 1..l : g[j] = w[out[b]] /\ out[b] \in gone
    BY <1>2, <1>6, <2>1, <2>2, SMTT(40)
  <2>3. CASE \E b \in 1..Len(f) : g[j] = f[b]
    BY <1>2, <2>1, <2>3
  <2> QED
    BY <1>16, <2>2, <2>3
<1>20. ASSUME NEW x \in Slot
       PROVE  x \in 1..n <=> (\E i \in 1..m : v[i] = x) \/ (\E j \in 1..Len(g) : g[j] = x)
  <2>1. x \in 1..n <=> (\E i \in 1..Len(w) : w[i] = x) \/ (\E j \in 1..Len(f) : f[j] = x)
    BY DEF Pool
  <2>2. ASSUME NEW a \in 1..Len(w), w[a] = x
        PROVE  (\E i \in 1..m : v[i] = x) \/ (\E j \in 1..Len(g) : g[j] = x)
    BY <1>15, <1>16, <2>2
  <2>3. ASSUME NEW b \in 1..Len(f), f[b] = x PROVE \E j \in 1..Len(g) : g[j] = x
    BY <1>16, <2>3
  <2>4. ASSUME NEW i \in 1..m, v[i] = x PROVE \E a \in 1..Len(w) : w[a] = x
    BY <1>15, <2>4
  <2>5. ASSUME NEW j \in 1..Len(g), g[j] = x
        PROVE  (\E i \in 1..Len(w) : w[i] = x) \/ (\E b \in 1..Len(f) : f[b] = x)
    <3>1. \/ \E a \in 1..l : g[j] = w[out[a]]
          \/ \E b \in 1..Len(f) : g[j] = f[b]
      BY <1>16
    <3> QED
      BY <1>6, <2>5, <3>1
  <2> QED
    BY <2>1, <2>2, <2>3, <2>4, <2>5
<1>21. m + Len(g) = n
  <2>1. m + l = Len(w) /\ Len(g) = l + Len(f) /\ Len(w) + Len(f) = n
    BY <1>2, <1>5, <1>9
  <2>2. Len(w) \in Nat /\ Len(f) \in Nat /\ m \in Nat /\ l \in Nat
    BY <1>1, <1>6
  <2> QED
    BY <2>1, <2>2
<1>22. Pool(new, NextOf(w, gone, 0), FreedOf(w, gone, free, Len(w) + 1), n, v, g)
  BY <1>7, <1>13, <1>14, <1>17, <1>18, <1>19, <1>20, <1>21 DEF Pool
<1> QED
  BY <1>5, <1>22 DEF v, kept, FlushedPool

-----------------------------------------------------------------------------
(* The walks in progress: each was begun with arguments from Calls, and one *)
(* that forwards input is at a slot.                                        *)
ScansOK ==
    \A i \in 1..Len(scans) : /\ scans[i].call \in Calls
                             /\ scans[i].pc = "forward" => scans[i].cur # NULL

PoolOK == Pool(lpNextMsg, lpQueueNext, lpQueueFree, size, Waiting, Free)

SlotsOK ==
    /\ Message \in [Slot -> Msg]
    /\ lpNextMsg \in NextFcn
    /\ lpQueueNext \in Slot \cup {NULL}
    /\ lpQueueFree \in Slot \cup {NULL}
    /\ size \in 1..QueueSize
    /\ PoolOK

LEMMA SizeFits ==
    ASSUME SlotsOK
    PROVE  size \in 0..QueueSize
BY DefsAssumption DEF SlotsOK

LEMMA LinkedHead ==
    ASSUME NEW next, NEW p, NEW q, Linked(next, p, q)
    PROVE  p \in Slot \cup {NULL}
<1>1. CASE Len(q) = 0
  BY <1>1 DEF Linked
<1>2. CASE Len(q) # 0
  BY <1>2 DEF Linked
<1> QED
  BY <1>1, <1>2

(* A pool in the new state is the one of the two lists.                     *)
LEMMA NewPool ==
    ASSUME NEW w, NEW f, Pool(lpNextMsg', lpQueueNext', lpQueueFree', size', w, f),
           size' \in 1..QueueSize, lpNextMsg' \in NextFcn, Message' \in [Slot -> Msg]
    PROVE  Waiting' = w /\ Free' = f /\ SlotsOK'
<1>1. size' \in 0..QueueSize
  BY DefsAssumption
<1>2. Chain(lpNextMsg', NULL, QueueSize, lpQueueNext') = w
      /\ Chain(lpNextMsg', NULL, QueueSize, lpQueueFree') = f
  BY <1>1, PoolChains
<1>3. lpQueueNext' \in Slot \cup {NULL} /\ lpQueueFree' \in Slot \cup {NULL}
  BY LinkedHead DEF Pool
<1>4. Waiting' = w /\ Free' = f
  BY <1>2 DEF Waiting, Free
<1> QED
  BY <1>3, <1>4 DEF SlotsOK, PoolOK

LEMMA SamePool ==
    ASSUME SlotsOK, UNCHANGED slots
    PROVE  SlotsOK' /\ Waiting' = Waiting /\ Free' = Free
BY DEF slots, SlotsOK, PoolOK, Waiting, Free

LEMMA FreshPool ==
    ASSUME NEW n \in 1..QueueSize, AllocQueue(n)
    PROVE  SlotsOK' /\ Waiting' = <<>>
<1>1. lpNextMsg' \in NextFcn
      /\ Pool(lpNextMsg', NULL, 1, n, <<>>, [i \in 1..n |-> i])
  BY PoolNew DEF AllocQueue
<1>2. Message' \in [Slot -> Msg]
  <2>1. Blank \in Msg
    BY DefsAssumption, ListAssumption DEF Blank, Msg, Posted
  <2> QED
    BY <2>1 DEF AllocQueue
<1> QED
  BY <1>1, <1>2, NewPool DEF AllocQueue

(* A message is added at one end.                                           *)
LEMMA PoolAdded ==
    ASSUME SlotsOK, posted \in Nat, posted < MaxPosted, NEW I \in {0, 1}, NEW h \in Window \cup {NoWnd},
           NEW msg \in Posted, QueueAddMsg(I, h, msg), lpQueueFree # NULL
    PROVE  /\ SlotsOK'
           /\ Message' = [Message EXCEPT ![lpQueueFree] =
                 [hwnd |-> h, message |-> msg, id |-> posted + 1, front |-> I = 0]]
           /\ \A i \in 1..Len(Waiting) : Waiting[i] # lpQueueFree
           /\ Waiting' = IF I = 0 \/ lpQueueNext = NULL THEN <<lpQueueFree>> \o Waiting
                         ELSE Append(Waiting, lpQueueFree)
<1>1. /\ lpQueueFree \in Slot /\ lpNextMsg \in NextFcn /\ size \in 0..QueueSize /\ size' = size
      /\ size \in 1..QueueSize
      /\ Pool(lpNextMsg, lpQueueNext, lpQueueFree, size, Waiting, Free)
  BY SizeFits DEF SlotsOK, PoolOK, QueueAddMsg
<1>2. /\ Message' = [Message EXCEPT ![lpQueueFree] =
            [hwnd |-> h, message |-> msg, id |-> posted + 1, front |-> I = 0]]
      /\ lpQueueFree' = lpNextMsg[lpQueueFree]
      /\ lpQueueNext' = IF I = 0 \/ lpQueueNext = NULL THEN lpQueueFree ELSE lpQueueNext
      /\ lpNextMsg' = IF I = 0 \/ lpQueueNext = NULL
                      THEN [lpNextMsg EXCEPT ![lpQueueFree] = lpQueueNext]
                      ELSE [lpNextMsg EXCEPT ![Last(Waiting)] = lpQueueFree,
                                             ![lpQueueFree] = NULL]
  BY DEF QueueAddMsg
<1>3. Message' \in [Slot -> Msg]
  <2>1. [hwnd |-> h, message |-> msg, id |-> posted + 1, front |-> I = 0] \in Msg
    BY DefsAssumption DEF Msg
  <2> QED
    BY <1>2, <2>1 DEF SlotsOK
<1>4. lpNextMsg' \in NextFcn
  BY <1>1, <1>2 DEF NextFcn, SlotsOK
<1>5. \A i \in 1..Len(Waiting) : Waiting[i] # lpQueueFree
  BY <1>1 DEF Pool, Linked
<1>6. CASE I = 0 \/ lpQueueNext = NULL
  <2>1. Pool(lpNextMsg', lpQueueNext', lpQueueFree', size', <<lpQueueFree>> \o Waiting, Tail(Free))
    BY <1>1, <1>2, <1>6, PoolPushFront
  <2> QED
    BY <1>1, <1>2, <1>3, <1>4, <1>5, <1>6, <2>1, NewPool
<1>7. CASE ~(I = 0 \/ lpQueueNext = NULL)
  <2>1. Pool(lpNextMsg', lpQueueNext', lpQueueFree', size', Append(Waiting, lpQueueFree), Tail(Free))
    BY <1>1, <1>2, <1>7, PoolAppend DEF Last
  <2> QED
    BY <1>1, <1>2, <1>3, <1>4, <1>5, <1>7, <2>1, NewPool
<1> QED
  BY <1>6, <1>7

(* A slot is taken out, or was not waiting.                                  *)
LEMMA PoolUnlinked ==
    ASSUME SlotsOK, NEW s \in Slot, Unlink(s)
    PROVE  /\ SlotsOK' /\ Message' = Message /\ size' = size
           /\ \/ /\ fault' = TRUE /\ \A i \in 1..Len(Waiting) : Waiting[i] # s
                 /\ Waiting' = Waiting
              \/ /\ fault' = fault
                 /\ \E k \in 1..Len(Waiting) : Waiting[k] = s /\ Waiting' = Cut(Waiting, k)
<1>1. /\ lpNextMsg \in NextFcn /\ size \in 0..QueueSize /\ size \in 1..QueueSize
      /\ Pool(lpNextMsg, lpQueueNext, lpQueueFree, size, Waiting, Free)
      /\ lpQueueFree \in Slot \cup {NULL} /\ Message \in [Slot -> Msg]
  BY SizeFits DEF SlotsOK, PoolOK
<1>2. /\ Waiting \in Seq(Slot) /\ Len(Waiting) \in Nat /\ DOMAIN Waiting = 1..Len(Waiting)
      /\ lpQueueNext = IF Len(Waiting) = 0 THEN NULL ELSE Waiting[1]
      /\ \A i \in 1..Len(Waiting) :
            lpNextMsg[Waiting[i]] = IF i = Len(Waiting) THEN NULL ELSE Waiting[i + 1]
      /\ \A i, j \in 1..Len(Waiting) : Waiting[i] = Waiting[j] => i = j
  BY <1>1 DEF Pool, Linked
<1>0. Len(Waiting) \in Nat
  BY <1>2
<1>3. s # NULL /\ \A q \in Slot : q # NULL
  BY DEF Slot, NULL
<1>4. CASE \A i \in 1..Len(Waiting) : Waiting[i] # s
  <2>1. ~(s = lpQueueNext \/ s \in Range(Waiting))
    <3>1. s \notin Range(Waiting)
      BY <1>2, <1>4 DEF Range
    <3>2. s # lpQueueNext
      <4>1. Len(Waiting) # 0 => 1 \in 1..Len(Waiting)
        BY <1>0
      <4> QED
        BY <1>2, <1>3, <1>4, <4>1
    <3> QED
      BY <3>1, <3>2
  <2>2. fault' = TRUE /\ UNCHANGED slots
    BY <2>1 DEF Unlink
  <2> QED
    BY <1>4, <2>2, SamePool DEF slots
<1>5. CASE \E i \in 1..Len(Waiting) : Waiting[i] = s
  <2>1. PICK k \in 1..Len(Waiting) : Waiting[k] = s
    BY <1>5
  <2>2. s \in Range(Waiting)
    BY <1>2, <2>1 DEF Range
  <2>3. /\ lpQueueNext' = IF s = lpQueueNext THEN lpNextMsg[s] ELSE lpQueueNext
        /\ lpNextMsg' = [q \in Slot |->
              IF q = s THEN lpQueueFree
              ELSE IF s # lpQueueNext /\ q \in Range(Waiting) /\ lpNextMsg[q] = s
                   THEN lpNextMsg[s] ELSE lpNextMsg[q]]
        /\ lpQueueFree' = s
        /\ UNCHANGED <<Message, size, fault>>
    BY <2>2 DEF Unlink
  <2>4. s = lpQueueNext <=> k = 1
    <3>1. 1 \in 1..Len(Waiting) /\ Len(Waiting) # 0
      BY <1>0
    <3>2. lpQueueNext = Waiting[1]
      BY <1>2, <3>1
    <3> QED
      BY <1>2, <2>1, <3>1, <3>2
  <2>5. ASSUME NEW q \in Slot
        PROVE  k > 1 => (q \in Range(Waiting) /\ lpNextMsg[q] = s <=> q = Waiting[k - 1])
    <3> SUFFICES ASSUME k > 1 PROVE q \in Range(Waiting) /\ lpNextMsg[q] = s <=> q = Waiting[k - 1]
      OBVIOUS
    <3>1. k - 1 \in 1..Len(Waiting) /\ k - 1 # Len(Waiting) /\ k - 1 + 1 = k
      BY <1>0
    <3>2. q = Waiting[k - 1] => q \in Range(Waiting) /\ lpNextMsg[q] = s
      BY <1>2, <2>1, <3>1 DEF Range
    <3>3. ASSUME q \in Range(Waiting), lpNextMsg[q] = s PROVE q = Waiting[k - 1]
      <4>1. PICK j \in 1..Len(Waiting) : Waiting[j] = q
        BY <1>2, <3>3 DEF Range
      <4>2. j # Len(Waiting) /\ Waiting[j + 1] = s
        BY <1>2, <1>3, <3>3, <4>1
      <4>3. j + 1 \in 1..Len(Waiting)
        BY <1>0, <4>2
      <4>4. j + 1 = k
        BY <1>2, <2>1, <4>2, <4>3
      <4>5. j = k - 1
        BY <4>4
      <4> QED
        BY <4>1, <4>5
    <3> QED
      BY <3>2, <3>3
  <2>6. lpNextMsg[s] \in Slot \cup {NULL}
    BY <1>1 DEF NextFcn
  <2>7. lpNextMsg' \in NextFcn
    <3>1. \A q \in Slot : lpNextMsg[q] \in Slot \cup {NULL}
      BY <1>1 DEF NextFcn
    <3> QED
      BY <1>1, <2>3, <3>1 DEF NextFcn
  <2>8. \A q \in Slot : lpNextMsg'[q] = IF q = Waiting[k] THEN lpQueueFree
                          ELSE IF k > 1 /\ q = Waiting[k - 1] THEN lpNextMsg[Waiting[k]]
                               ELSE lpNextMsg[q]
    <3>1. k = 1 \/ k > 1
      BY <1>2
    <3> QED
      BY <2>1, <2>3, <2>4, <2>5, <3>1
  <2>9. Pool(lpNextMsg', IF k = 1 THEN lpNextMsg[Waiting[k]] ELSE lpQueueNext, Waiting[k], size,
             Cut(Waiting, k), <<Waiting[k]>> \o Free)
    BY <1>1, <2>7, <2>8, PoolUnlink
  <2>10. Pool(lpNextMsg', lpQueueNext', lpQueueFree', size', Cut(Waiting, k), <<Waiting[k]>> \o Free)
    BY <2>1, <2>3, <2>4, <2>9
  <2> QED
    BY <1>1, <2>1, <2>3, <2>7, <2>10, NewPool
<1> QED
  BY <1>4, <1>5

(* The messages for a destroyed window are taken out.                        *)
KeptPlaces(w) == {i \in 1..Len(Waiting) : Message[Waiting[i]].hwnd \notin Tree(w) \ Part}
KeepsOthers(w) ==
    \E m \in 0..Len(Waiting) : \E pos :
       Picks(pos, m, Len(Waiting), KeptPlaces(w)) /\ Waiting' = [i \in 1..m |-> Waiting[pos[i]]]

LEMMA PoolFlushed ==
    ASSUME SlotsOK, ~IsSystemQueue, NEW w, DestroyWindow(w)
    PROVE  SlotsOK' /\ Message' = Message /\ size' = size /\ KeepsOthers(w)
<1> DEFINE gone == {i \in 1..Len(Waiting) : Message[Waiting[i]].hwnd \in Tree(w) \ Part}
           kept == {i \in 1..Len(Waiting) : Message[Waiting[i]].hwnd \notin Tree(w) \ Part}
<1>1. /\ lpNextMsg \in NextFcn /\ size \in 0..QueueSize /\ size \in 1..QueueSize
      /\ Pool(lpNextMsg, lpQueueNext, lpQueueFree, size, Waiting, Free)
      /\ lpQueueFree \in Slot \cup {NULL} /\ Message \in [Slot -> Msg]
  BY SizeFits DEF SlotsOK, PoolOK
<1>2. /\ Waiting \in Seq(Slot) /\ Len(Waiting) \in Nat /\ DOMAIN Waiting = 1..Len(Waiting)
      /\ \A i, j \in 1..Len(Waiting) : Waiting[i] = Waiting[j] => i = j
      /\ \A i \in 1..Len(Waiting) : Waiting[i] \in Slot
  BY <1>1 DEF Pool, Linked
<1> DEFINE goneIn == {i \in DOMAIN Waiting : Message[Waiting[i]].hwnd \in Tree(w) \ Part}
           keptAfter(i) == {j \in DOMAIN Waiting \ goneIn : j > i}
           goneBefore(i) == {j \in goneIn : j < i}
           next(i) == IF keptAfter(i) = {} THEN NULL ELSE Waiting[Min(keptAfter(i))]
           freed(i) == IF goneBefore(i) = {} THEN lpQueueFree ELSE Waiting[Max(goneBefore(i))]
           place(s) == CHOOSE i \in DOMAIN Waiting : Waiting[i] = s
<1>3. /\ lpQueueNext' = next(0)
      /\ lpQueueFree' = freed(Len(Waiting) + 1)
      /\ lpNextMsg' = [s \in Slot |-> IF s \notin Range(Waiting) THEN lpNextMsg[s]
                                     ELSE IF place(s) \in goneIn THEN freed(place(s))
                                          ELSE next(place(s))]
      /\ Message' = Message /\ size' = size
  BY DEF DestroyWindow
<1>4. /\ goneIn = gone
      /\ \A i : next(i) = NextOf(Waiting, gone, i)
      /\ \A i : freed(i) = FreedOf(Waiting, gone, lpQueueFree, i)
  <2>1. goneIn = gone
    BY <1>2
  <2>2. ASSUME NEW i PROVE next(i) = NextOf(Waiting, gone, i)
    <3>1. keptAfter(i) = Above((1..Len(Waiting)) \ gone, i)
      BY <1>2, <2>1 DEF Above
    <3> QED
      BY <3>1 DEF NextOf
  <2>3. ASSUME NEW i PROVE freed(i) = FreedOf(Waiting, gone, lpQueueFree, i)
    <3>1. goneBefore(i) = Below(gone, i)
      BY <2>1 DEF Below
    <3> QED
      BY <3>1 DEF FreedOf
  <2> QED
    BY <2>1, <2>2, <2>3
<1> HIDE DEF gone, goneIn, next, freed
<1>5. gone \in SUBSET (1..Len(Waiting)) /\ (1..Len(Waiting)) \ gone = kept
  BY DEF gone
<1>6. \A s \in Slot : (\A i \in 1..Len(Waiting) : Waiting[i] # s) => lpNextMsg'[s] = lpNextMsg[s]
  <2>1. \A s \in Slot : (\A i \in 1..Len(Waiting) : Waiting[i] # s) => s \notin Range(Waiting)
    BY <1>2 DEF Range
  <2> QED
    BY <1>3, <2>1
<1>7. ASSUME NEW i \in 1..Len(Waiting)
      PROVE  lpNextMsg'[Waiting[i]] = IF i \in gone THEN FreedOf(Waiting, gone, lpQueueFree, i)
                                      ELSE NextOf(Waiting, gone, i)
  <2>1. Waiting[i] \in Slot /\ Waiting[i] \in Range(Waiting)
    BY <1>2 DEF Range
  <2>2. i = place(Waiting[i])
    BY <1>2
  <2> HIDE DEF place
  <2>3. lpNextMsg'[Waiting[i]] = IF i \in goneIn THEN freed(i) ELSE next(i)
    BY <1>3, <2>1, <2>2
  <2> QED
    BY <1>4, <2>3
<1>8. lpNextMsg' \in NextFcn
  <2>1. \A i : NextOf(Waiting, gone, i) \in Slot \cup {NULL}
    <3> TAKE i
    <3> DEFINE S == Above((1..Len(Waiting)) \ gone, i)
    <3>1. CASE S = {}
      BY <3>1 DEF NextOf
    <3>2. CASE S # {}
      <4>1. S \in SUBSET Nat /\ S \subseteq 1..Len(Waiting)
        BY DEF Above
      <4>2. Min(S) \in S
        BY <3>2, <4>1, MinOfNats
      <4> QED
        BY <1>2, <3>2, <4>1, <4>2 DEF NextOf
    <3> QED
      BY <3>1, <3>2
  <2>2. \A i : FreedOf(Waiting, gone, lpQueueFree, i) \in Slot \cup {NULL}
    <3> TAKE i
    <3> DEFINE S == Below(gone, i)
    <3>1. CASE S = {}
      BY <1>1, <3>1 DEF FreedOf
    <3>2. CASE S # {}
      <4>1. S \subseteq 1..Len(Waiting)
        BY <1>5 DEF Below
      <4> HIDE DEF S
      <4>3. S \in SUBSET Nat /\ \A x \in S : x <= Len(Waiting)
        BY <1>2, <4>1
      <4>4. Len(Waiting) \in Nat
        BY <1>2
      <4>2. Max(S) \in S
        BY <3>2, <4>3, <4>4, MaxOfNats
      <4> USE DEF S
      <4> QED
        BY <1>2, <3>2, <4>1, <4>2 DEF FreedOf
    <3> QED
      BY <3>1, <3>2
  <2>3. \A s \in Slot : lpNextMsg[s] \in Slot \cup {NULL}
    BY <1>1 DEF NextFcn
  <2> HIDE DEF place
  <2> QED
    BY <1>3, <1>4, <2>1, <2>2, <2>3 DEF NextFcn
<1>9. /\ lpQueueNext' = NextOf(Waiting, gone, 0)
       /\ lpQueueFree' = FreedOf(Waiting, gone, lpQueueFree, Len(Waiting) + 1)
  BY <1>3, <1>4
<1> DEFINE Flush(m, pos, g) ==
              /\ Picks(pos, m, Len(Waiting), (1..Len(Waiting)) \ gone)
              /\ Pool(lpNextMsg', NextOf(Waiting, gone, 0),
                      FreedOf(Waiting, gone, lpQueueFree, Len(Waiting) + 1), size,
                      [i \in 1..m |-> Waiting[pos[i]]], g)
<1>10. \E m \in 0..Len(Waiting) : \E pos, g : Flush(m, pos, g)
  <2>1. Relinked(lpNextMsg', lpNextMsg, Waiting, gone, lpQueueFree)
    BY <1>6, <1>7 DEF Relinked
  <2>2. /\ lpNextMsg \in NextFcn /\ lpNextMsg' \in NextFcn /\ size \in 0..QueueSize
        /\ Pool(lpNextMsg, lpQueueNext, lpQueueFree, size, Waiting, Free)
        /\ gone \in SUBSET (1..Len(Waiting))
    BY <1>1, <1>5, <1>8
  <2>3. FlushedPool(lpNextMsg', Waiting, gone, lpQueueFree, size)
    BY <2>1, <2>2, PoolFlush
  <2> QED
    BY <2>3 DEF FlushedPool
<1>11. PICK m \in 0..Len(Waiting) : \E pos, g : Flush(m, pos, g)
  BY <1>10
<1>14. PICK pos, g : Flush(m, pos, g)
  BY <1>11
<1>12. Pool(lpNextMsg', lpQueueNext', lpQueueFree', size', [i \in 1..m |-> Waiting[pos[i]]], g)
  BY <1>3, <1>14, <1>9
<1>13. SlotsOK' /\ Waiting' = [i \in 1..m |-> Waiting[pos[i]]]
  BY <1>1, <1>3, <1>8, <1>12, NewPool
<1> QED
  BY <1>3, <1>5, <1>14, <1>13 DEF KeepsOthers, KeptPlaces

-----------------------------------------------------------------------------
(* The variables other than the slots.                                      *)
WalksOK == scans \in Seq(ScanState) /\ Len(scans) <= MaxNest /\ ScansOK
OthersOK ==
    /\ ready \subseteq Task
    /\ fault \in BOOLEAN
    /\ posted \in 0..MaxPosted
    /\ window \subseteq Window
    /\ disabled \subseteq Window
    /\ got \in {<<>>} \cup (Calls \X (0..MaxPosted))

(* The inductive invariant, whatever window procedures do.                  *)
PoolInv == SlotsOK /\ WalksOK /\ OthersOK

LEMMA PoolInvTypes ==
    ASSUME PoolInv
    PROVE  TypeOK
BY DEF PoolInv, TypeOK, SlotsOK, NextFcn, WalksOK, OthersOK

LEMMA ScanFields ==
    ASSUME WalksOK, scans # <<>>
    PROVE  /\ Scan \in ScanState /\ Scan = scans[Len(scans)] /\ Len(scans) \in Nat \ {0}
           /\ Scan.call \in Calls /\ Scan.call \in Call
           /\ Scan.cur \in Slot \cup {NULL} /\ Scan.nxt \in Slot \cup {NULL}
           /\ Scan.pc \in {"test", "forward"} /\ Scan.target \in Window \cup {NoWnd}
           /\ Scan.pc = "forward" => Scan.cur # NULL
<1>1. Len(scans) \in Nat \ {0} /\ Scan = scans[Len(scans)] /\ Len(scans) \in 1..Len(scans)
      /\ Scan \in ScanState
  BY DEF WalksOK, Scan, Last
<1>2. /\ Scan.call \in Call
      /\ Scan.cur \in Slot \cup {NULL} /\ Scan.nxt \in Slot \cup {NULL}
      /\ Scan.pc \in {"test", "forward"} /\ Scan.target \in Window \cup {NoWnd}
  BY <1>1 DEF ScanState
<1>3. Scan.call \in Calls /\ (Scan.pc = "forward" => Scan.cur # NULL)
  BY <1>1 DEF WalksOK, ScansOK
<1> QED
  BY <1>1, <1>2, <1>3

LEMMA WalkSet ==
    ASSUME WalksOK, scans # <<>>, NEW r \in ScanState, SetScan(r), r.call \in Calls,
           r.pc = "forward" => r.cur # NULL
    PROVE  WalksOK' /\ scans' # <<>> /\ Len(scans') = Len(scans) /\ Scan' = r
<1>1. Len(scans) \in Nat \ {0} /\ scans \in Seq(ScanState)
  BY ScanFields DEF WalksOK
<1>2. scans' \in Seq(ScanState) /\ Len(scans') = Len(scans)
      /\ \A i \in 1..Len(scans) : scans'[i] = IF i = Len(scans) THEN r ELSE scans[i]
  BY <1>1 DEF SetScan
<1>3. Scan' = r
  BY <1>1, <1>2 DEF Scan, Last
<1>4. ScansOK'
  BY <1>1, <1>2 DEF WalksOK, ScansOK
<1> QED
  BY <1>1, <1>2, <1>3, <1>4 DEF WalksOK

LEMMA AdvancedWalk ==
    ASSUME NEW r \in ScanState, NEW q \in Slot \cup {NULL}, NEW x \in Slot \cup {NULL}
    PROVE  LET u == [r EXCEPT !.cur = q, !.pc = "test", !.target = NoWnd, !.nxt = x]
           IN /\ u \in ScanState /\ u.call = r.call /\ u.cur = q /\ u.pc = "test"
              /\ u.nxt = x
BY DEF ScanState

LEMMA WalkAdvanced ==
    ASSUME WalksOK, scans # <<>>, NEW q \in Slot \cup {NULL}, lpNextMsg' \in NextFcn, Advance(q)
    PROVE  /\ WalksOK' /\ scans' # <<>> /\ Len(scans') = Len(scans) /\ got' = got
           /\ Scan'.call = Scan.call /\ Scan'.cur = q /\ Scan'.pc = "test"
           /\ Scan'.nxt = IF q = NULL THEN NULL ELSE lpNextMsg'[q]
<1> DEFINE x == IF q = NULL THEN NULL ELSE lpNextMsg'[q]
           u == [Scan EXCEPT !.cur = q, !.pc = "test", !.target = NoWnd, !.nxt = x]
<1>1. x \in Slot \cup {NULL}
  BY DEF NextFcn
<1>2. SetScan(u) /\ got' = got
  BY DEF Advance
<1> HIDE DEF x
<1>3. Scan \in ScanState /\ Scan.call \in Calls
  BY ScanFields
<1>4. u \in ScanState /\ u.call = Scan.call /\ u.cur = q /\ u.pc = "test" /\ u.nxt = x
  BY <1>1, <1>3, AdvancedWalk DEF ScanState
<1> HIDE DEF u
<1>5. u.pc = "forward" => u.cur # NULL
  BY <1>4
<1>6. WalksOK' /\ scans' # <<>> /\ Len(scans') = Len(scans) /\ Scan' = u
  BY <1>2, <1>3, <1>4, <1>5, WalkSet
<1> QED
  BY <1>2, <1>4, <1>6 DEF x

LEMMA WalkReturned ==
    ASSUME WalksOK, scans # <<>>, NEW id \in 0..MaxPosted, Return(id)
    PROVE  /\ WalksOK' /\ Len(scans') = Len(scans) - 1
           /\ got' = <<Scan.call, id>> /\ got' \in Calls \X (0..MaxPosted)
<1>1. Len(scans) \in Nat \ {0} /\ scans \in Seq(ScanState) /\ Len(scans) <= MaxNest
      /\ Scan.call \in Calls
  BY ScanFields DEF WalksOK
<1>2. scans' = SubSeq(scans, 1, Len(scans) - 1)
  BY DEF Return, Front
<1>3. scans' \in Seq(ScanState) /\ Len(scans') = Len(scans) - 1
      /\ \A i \in 1..Len(scans') : scans'[i] = scans[i] /\ i \in 1..Len(scans)
  BY <1>1, <1>2, FrontOfSeq
<1>4. ScansOK'
  BY <1>3 DEF WalksOK, ScansOK
<1>5. MaxNest \in Nat
  BY ListAssumption
<1> QED
  BY <1>1, <1>3, <1>4, <1>5 DEF WalksOK, Return

LEMMA WalksSame ==
    ASSUME WalksOK, UNCHANGED scans
    PROVE  WalksOK' /\ Scan' = Scan
BY DEF WalksOK, ScansOK, Scan

-----------------------------------------------------------------------------
LEMMA InitPool ==
    ASSUME Init
    PROVE  PoolInv /\ Waiting = <<>>
<1> DEFINE w == <<>>
           f == [i \in 1..QueueSize |-> i]
<1>1. QueueSize \in 1..QueueSize /\ QueueSize \in 0..QueueSize
  BY DefsAssumption
<1>2. lpNextMsg \in NextFcn /\ Pool(lpNextMsg, NULL, 1, QueueSize, <<>>, f)
  BY <1>1, PoolNew DEF Init
<1>3. Chain(lpNextMsg, NULL, QueueSize, NULL) = <<>> /\ Chain(lpNextMsg, NULL, QueueSize, 1) = f
  BY <1>1, <1>2, PoolChains
<1>4. Waiting = <<>> /\ Free = f
  BY <1>3 DEF Waiting, Free, Init
<1>5. Message \in [Slot -> Msg]
  <2>1. Blank \in Msg
    BY DefsAssumption, ListAssumption DEF Blank, Msg, Posted
  <2> QED
    BY <2>1 DEF Init
<1>6. SlotsOK
  BY <1>1, <1>2, <1>4, <1>5, DefsAssumption DEF SlotsOK, PoolOK, Init, Slot, NULL
<1>7. WalksOK
  <2>1. MaxNest \in Nat
    BY ListAssumption
  <2> QED
    BY <2>1 DEF WalksOK, ScansOK, Init
<1>8. OthersOK
  <2>1. 0 \in 0..MaxPosted
    BY DefsAssumption
  <2> QED
    BY <2>1 DEF OthersOK, Init
<1> QED
  BY <1>4, <1>6, <1>7, <1>8 DEF PoolInv

LEMMA AddKeeps ==
    ASSUME PoolInv, NEW p \in Posts, QueueAddMsg(p[1], p[2], p[3])
    PROVE  PoolInv'
<1>1. SlotsOK /\ WalksOK /\ OthersOK
  BY DEF PoolInv
<1>2. p[1] \in {0, 1} /\ p[2] \in Window \cup {NoWnd} /\ p[3] \in Posted
  BY ListAssumption
<1>3. posted \in Nat /\ MaxPosted \in Nat /\ posted < MaxPosted
  BY <1>1, DefsAssumption DEF OthersOK, QueueAddMsg
<1>4. SlotsOK'
  <2>1. CASE lpQueueFree = NULL
    BY <1>1, <2>1, SamePool DEF QueueAddMsg
  <2>2. CASE lpQueueFree # NULL
    BY <1>1, <1>2, <1>3, <2>2, PoolAdded
  <2> QED
    BY <2>1, <2>2
<1>5. WalksOK'
  BY <1>1, WalksSame DEF QueueAddMsg
<1>6. posted' \in 0..MaxPosted
  BY <1>3 DEF QueueAddMsg
<1>7. OthersOK'
  BY <1>1, <1>6 DEF OthersOK, QueueAddMsg, windows
<1> QED
  BY <1>4, <1>5, <1>7 DEF PoolInv

LEMMA BegunWalk ==
    ASSUME NEW c \in Calls, NEW q \in Slot \cup {NULL}, NEW x \in Slot \cup {NULL}
    PROVE  LET u == [call |-> c, cur |-> q, pc |-> "test", target |-> NoWnd, nxt |-> x]
           IN u \in ScanState
BY DefsAssumption DEF ScanState

LEMMA CallKeeps ==
    ASSUME PoolInv, NEW c \in Calls, QueueGetMsg(c)
    PROVE  PoolInv'
<1>1. SlotsOK /\ WalksOK /\ OthersOK
  BY DEF PoolInv
<1>2. SlotsOK'
  BY <1>1, SamePool DEF QueueGetMsg
<1> DEFINE x == IF lpQueueNext = NULL THEN NULL ELSE lpNextMsg[lpQueueNext]
           u == [call |-> c, cur |-> lpQueueNext, pc |-> "test", target |-> NoWnd, nxt |-> x]
<1>3. x \in Slot \cup {NULL} /\ lpQueueNext \in Slot \cup {NULL}
  BY <1>1 DEF SlotsOK, NextFcn
<1>4. scans' = Append(scans, u) /\ Len(scans) < MaxNest
  BY DEF QueueGetMsg
<1> HIDE DEF x
<1>5. u \in ScanState /\ u.call = c /\ u.pc # "forward"
  BY <1>3, BegunWalk
<1> HIDE DEF u
<1>6. /\ scans \in Seq(ScanState) /\ Len(scans) \in Nat /\ scans' \in Seq(ScanState)
      /\ Len(scans') = Len(scans) + 1
      /\ \A i \in 1..Len(scans') : scans'[i] = IF i = Len(scans) + 1 THEN u ELSE scans[i]
  BY <1>1, <1>4, <1>5 DEF WalksOK
<1>7. ScansOK'
  <2>1. \A i \in 1..Len(scans') : i = Len(scans) + 1 \/ i \in 1..Len(scans)
    BY <1>6
  <2> QED
    BY <1>1, <1>5, <1>6, <2>1 DEF WalksOK, ScansOK
<1>8. Len(scans') <= MaxNest
  BY <1>4, <1>6, ListAssumption
<1>9. OthersOK'
  BY <1>1 DEF OthersOK, QueueGetMsg, windows
<1> QED
  BY <1>2, <1>6, <1>7, <1>8, <1>9 DEF WalksOK, PoolInv

LEMMA NoMessageKeeps ==
    ASSUME PoolInv, NoMessage
    PROVE  PoolInv'
<1>1. SlotsOK /\ WalksOK /\ OthersOK
  BY DEF PoolInv
<1>2. scans # <<>> /\ Return(0) /\ 0 \in 0..MaxPosted
  BY DefsAssumption DEF NoMessage, Running
<1>3. SlotsOK'
  BY <1>1, SamePool DEF NoMessage, Keep
<1>4. WalksOK' /\ got' \in Calls \X (0..MaxPosted)
  BY <1>1, <1>2, WalkReturned
<1>5. OthersOK'
  BY <1>1, <1>4 DEF OthersOK, NoMessage, Keep, windows
<1> QED
  BY <1>3, <1>4, <1>5 DEF PoolInv

(* Whether or not the message is taken out, the pool stays.                 *)
LEMMA KeepOrUnlink ==
    ASSUME SlotsOK, fault \in BOOLEAN, NEW s \in Slot, Unlink(s) \/ Keep
    PROVE  SlotsOK' /\ fault' \in BOOLEAN
<1>1. CASE Unlink(s)
  BY <1>1, PoolUnlinked
<1>2. CASE Keep
  BY <1>2, SamePool DEF Keep
<1> QED
  BY <1>1, <1>2

LEMMA PurgeKeeps ==
    ASSUME PoolInv, PurgeDead
    PROVE  PoolInv'
<1>1. SlotsOK /\ WalksOK /\ OthersOK
  BY DEF PoolInv
<1>2. scans # <<>> /\ Unlink(Scan.cur) /\ Advance(Scan.nxt) /\ Scan.cur # NULL
      /\ UNCHANGED <<ready, posted, windows>>
  BY DEF PurgeDead, Running
<1>3. Scan.cur \in Slot /\ Scan.nxt \in Slot \cup {NULL}
  BY <1>1, <1>2, ScanFields
<1>4. SlotsOK' /\ fault' \in BOOLEAN
  BY <1>1, <1>2, <1>3, KeepOrUnlink DEF OthersOK
<1>5. WalksOK' /\ got' = got
  <2>1. lpNextMsg' \in NextFcn
    BY <1>4 DEF SlotsOK
  <2> QED
    BY <1>1, <1>2, <1>3, <2>1, WalkAdvanced
<1>6. OthersOK'
  BY <1>1, <1>2, <1>4, <1>5 DEF OthersOK, windows
<1> QED
  BY <1>4, <1>5, <1>6 DEF PoolInv

LEMMA SettleKeeps ==
    ASSUME PoolInv, scans # <<>>, Scan.cur # NULL, NEW m, m.hwnd \in Window \cup {NoWnd},
           m.id \in 1..MaxPosted, Settle(m)
    PROVE  PoolInv'
<1>1. SlotsOK /\ WalksOK /\ OthersOK
  BY DEF PoolInv
<1>2. /\ Unlink(Scan.cur) \/ Keep
      /\ Advance(Scan.nxt) \/ Return(m.id)
      /\ ready' = ready \/ (m.hwnd # NoWnd /\ ready' = ready \cup {WndTask[m.hwnd]})
      /\ UNCHANGED <<posted, windows>>
  BY DEF Settle, Mine
<1>3. Scan.cur \in Slot /\ Scan.nxt \in Slot \cup {NULL}
  BY <1>1, ScanFields
<1>4. SlotsOK' /\ fault' \in BOOLEAN
  BY <1>1, <1>2, <1>3, KeepOrUnlink DEF OthersOK
<1>5. WalksOK' /\ (got' = got \/ got' \in Calls \X (0..MaxPosted))
  <2>1. CASE Advance(Scan.nxt)
    <3>1. lpNextMsg' \in NextFcn
      BY <1>4 DEF SlotsOK
    <3> QED
      BY <1>1, <1>3, <2>1, <3>1, WalkAdvanced
  <2>2. CASE Return(m.id)
    <3>1. m.id \in 0..MaxPosted
      BY DefsAssumption
    <3> QED
      BY <1>1, <2>2, <3>1, WalkReturned
  <2> QED
    BY <1>2, <2>1, <2>2
<1>6. ready' \subseteq Task
  BY <1>1, <1>2, DefsAssumption DEF OthersOK
<1>7. OthersOK'
  BY <1>1, <1>2, <1>4, <1>5, <1>6 DEF OthersOK, windows
<1> QED
  BY <1>4, <1>5, <1>7 DEF PoolInv

LEMMA MsgFields ==
    ASSUME NEW m \in Msg
    PROVE  m.hwnd \in Window \cup {NoWnd} /\ m.id \in 1..MaxPosted
BY DEF Msg

LEMMA ForwardedMsg ==
    ASSUME NEW m \in Msg, NEW h, NEW k
    PROVE  LET u == [m EXCEPT !.hwnd = h, !.message = k]
           IN u.hwnd = h /\ u.message = k /\ u.id = m.id /\ u.front = m.front
BY DEF Msg

LEMMA WalkKeeps ==
    ASSUME PoolInv, \/ Examine
                    \/ \E w \in Window \cup {NoWnd} : Forward(w)
                    \/ ForwardEaten
                    \/ \E m \in {WM_MOUSE, WM_NCMOUSE} : Forwarded(m)
    PROVE  PoolInv'
<1>1. SlotsOK /\ WalksOK /\ OthersOK
  BY DEF PoolInv
<1>2. CASE Examine
  <2>1. scans # <<>> /\ Scan.cur # NULL /\ Settle(Message[Scan.cur])
    BY <1>2 DEF Examine, Running
  <2>2. Message[Scan.cur] \in Msg
    BY <1>1, <2>1, ScanFields DEF SlotsOK
  <2> QED
    BY <2>1, <2>2, MsgFields, SettleKeeps
<1>3. ASSUME NEW w \in Window \cup {NoWnd}, Forward(w) PROVE PoolInv'
  <2> DEFINE u == [Scan EXCEPT !.pc = "forward", !.target = w]
  <2>1. scans # <<>> /\ Scan.cur # NULL /\ SetScan(u) /\ Keep
        /\ UNCHANGED <<ready, posted, windows, got>>
    BY <1>3 DEF Forward, Running
  <2>2. Scan \in ScanState /\ Scan.call \in Calls
    BY <1>1, <2>1, ScanFields
  <2>3. u \in ScanState /\ u.call = Scan.call /\ u.cur = Scan.cur
    BY <2>2 DEF ScanState
  <2> HIDE DEF u
  <2>4. WalksOK'
    BY <1>1, <2>1, <2>2, <2>3, WalkSet
  <2>5. SlotsOK'
    BY <1>1, <2>1, SamePool DEF Keep
  <2>6. OthersOK'
    BY <1>1, <2>1 DEF OthersOK, Keep, windows
  <2> QED
    BY <2>4, <2>5, <2>6 DEF PoolInv
<1>4. CASE ForwardEaten
  <2>1. scans # <<>> /\ Keep /\ Advance(Scan.nxt) /\ UNCHANGED <<ready, posted, windows>>
    BY <1>4 DEF ForwardEaten, Forwarding
  <2>2. SlotsOK'
    BY <1>1, <2>1, SamePool DEF Keep
  <2>3. WalksOK' /\ got' = got
    <3>1. lpNextMsg' \in NextFcn /\ Scan.nxt \in Slot \cup {NULL}
      BY <1>1, <2>1, <2>2, ScanFields DEF SlotsOK
    <3> QED
      BY <1>1, <2>1, <3>1, WalkAdvanced
  <2>4. OthersOK'
    BY <1>1, <2>1, <2>3 DEF OthersOK, Keep, windows
  <2> QED
    BY <2>2, <2>3, <2>4 DEF PoolInv
<1>5. ASSUME NEW k \in {WM_MOUSE, WM_NCMOUSE}, Forwarded(k) PROVE PoolInv'
  <2> DEFINE u == [Message[Scan.cur] EXCEPT !.hwnd = Scan.target, !.message = k]
  <2>1. scans # <<>> /\ Scan.pc = "forward" /\ Settle(u)
    BY <1>5 DEF Forwarded, Forwarding
  <2>2. Scan.cur \in Slot /\ Scan.cur # NULL /\ Scan.target \in Window \cup {NoWnd}
    BY <1>1, <2>1, ScanFields
  <2>3. Message[Scan.cur] \in Msg
    BY <1>1, <2>2 DEF SlotsOK
  <2>4. u.hwnd \in Window \cup {NoWnd} /\ u.id \in 1..MaxPosted
    BY <2>2, <2>3, ForwardedMsg, MsgFields
  <2> HIDE DEF u
  <2> QED
    BY <2>1, <2>2, <2>4, SettleKeeps
<1> QED
  BY <1>2, <1>3, <1>4, <1>5

LEMMA WindowsKeep ==
    ASSUME PoolInv, NEW w \in Window, DestroyWindow(w) \/ CreateWindow(w) \/ EnableWindow(w)
    PROVE  PoolInv'
<1>1. SlotsOK /\ WalksOK /\ OthersOK
  BY DEF PoolInv
<1>2. WalksOK' /\ got' = <<>> /\ UNCHANGED <<ready, fault, posted>>
  BY <1>1, WalksSame DEF DestroyWindow, CreateWindow, EnableWindow
<1>3. SlotsOK'
  <2>1. CASE DestroyWindow(w) /\ ~IsSystemQueue
    BY <1>1, <2>1, PoolFlushed
  <2>2. CASE UNCHANGED slots
    BY <1>1, <2>2, SamePool
  <2>3. (DestroyWindow(w) /\ ~IsSystemQueue) \/ UNCHANGED slots
    BY DEF DestroyWindow, CreateWindow, EnableWindow
  <2> QED
    BY <2>1, <2>2, <2>3
<1>4. window' \subseteq Window /\ disabled' \subseteq Window
  <2>1. CASE DestroyWindow(w)
    BY <1>1, <2>1 DEF OthersOK, DestroyWindow
  <2>2. CASE CreateWindow(w)
    BY <1>1, <2>2, DefsAssumption DEF OthersOK, CreateWindow, NewTree
  <2>3. CASE EnableWindow(w)
    BY <1>1, <2>3 DEF OthersOK, EnableWindow
  <2> QED
    BY <2>1, <2>2, <2>3
<1>5. OthersOK'
  BY <1>1, <1>2, <1>4 DEF OthersOK
<1> QED
  BY <1>2, <1>3, <1>5 DEF PoolInv

LEMMA ReplaceKeeps ==
    ASSUME PoolInv, NEW n \in 1..QueueSize, SetMessageQueue(n)
    PROVE  PoolInv'
<1>1. SlotsOK /\ WalksOK /\ OthersOK
  BY DEF PoolInv
<1>2. SlotsOK'
  BY FreshPool DEF SetMessageQueue
<1>3. WalksOK'
  BY <1>1, WalksSame DEF SetMessageQueue
<1>4. OthersOK'
  BY <1>1 DEF OthersOK, SetMessageQueue, windows
<1> QED
  BY <1>2, <1>3, <1>4 DEF PoolInv

LEMMA StutterKeeps ==
    ASSUME PoolInv, UNCHANGED vars
    PROVE  PoolInv'
<1>1. SlotsOK /\ WalksOK /\ OthersOK
  BY DEF PoolInv
<1>2. SlotsOK' /\ WalksOK' /\ OthersOK'
  BY <1>1, SamePool, WalksSame DEF vars, slots, OthersOK
<1> QED
  BY <1>2 DEF PoolInv

(* The pool and the walks stay as PoolInv says.                             *)
THEOREM PoolInvHolds == Spec => []PoolInv
<1>1. Init => PoolInv
  BY InitPool
<1>2. PoolInv /\ [Next]_vars => PoolInv'
  <2> SUFFICES ASSUME PoolInv, [Next]_vars PROVE PoolInv'
    OBVIOUS
  <2>1. ASSUME NEW p \in Posts, QueueAddMsg(p[1], p[2], p[3]) PROVE PoolInv'
    BY <2>1, AddKeeps
  <2>2. ASSUME NEW c \in Calls, QueueGetMsg(c) PROVE PoolInv'
    BY <2>2, CallKeeps
  <2>3. CASE NoMessage
    BY <2>3, NoMessageKeeps
  <2>4. CASE PurgeDead
    BY <2>4, PurgeKeeps
  <2>5. CASE \/ Examine \/ ForwardEaten
             \/ \E w \in Window \cup {NoWnd} : Forward(w)
             \/ \E m \in {WM_MOUSE, WM_NCMOUSE} : Forwarded(m)
    BY <2>5, WalkKeeps
  <2>6. ASSUME NEW w \in Window, DestroyWindow(w) \/ CreateWindow(w) \/ EnableWindow(w)
        PROVE  PoolInv'
    BY <2>6, WindowsKeep
  <2>7. ASSUME NEW n \in 1..QueueSize, SetMessageQueue(n) PROVE PoolInv'
    BY <2>7, ReplaceKeeps
  <2>8. CASE UNCHANGED vars
    BY <2>8, StutterKeeps
  <2> QED
    BY <2>1, <2>2, <2>3, <2>4, <2>5, <2>6, <2>7, <2>8 DEF Next
<1> QED
  BY <1>1, <1>2, PTL DEF Spec

(* No slot is ever leaked, shared between the two lists, or freed twice, by  *)
(* QueueAddMsg, QueueGetMsg, TWIN_FlushWindowMessages and SetMessageQueue,  *)
(* in any number of slots, even when window procedures called during a walk  *)
(* use the queue.                                                           *)
THEOREM PoolStaysPartitioned == Spec => []PoolIsPartitioned
<1>1. PoolInv => PoolIsPartitioned
  <2> SUFFICES ASSUME PoolInv PROVE PoolIsPartitioned
    OBVIOUS
  <2>1. TypeOK /\ SlotsOK
    BY PoolInvTypes DEF PoolInv
  <2>2. Pool(lpNextMsg, lpQueueNext, lpQueueFree, size, Waiting, Free)
        /\ size \in 1..QueueSize /\ 1..size \subseteq Slot
    BY <2>1, DefsAssumption DEF SlotsOK, PoolOK, Slot
  <2>3. /\ Waiting \in Seq(Slot) /\ Free \in Seq(Slot) /\ Len(Waiting) + Len(Free) = size
        /\ \A s \in Slot : s \in 1..size <=> \/ \E i \in 1..Len(Waiting) : Waiting[i] = s
                                            \/ \E j \in 1..Len(Free) : Free[j] = s
    BY <2>2 DEF Pool, Linked
  <2>4. /\ \A s : s \in Range(Waiting) <=> \E i \in 1..Len(Waiting) : Waiting[i] = s
        /\ \A s : s \in Range(Free) <=> \E i \in 1..Len(Free) : Free[i] = s
        /\ Range(Waiting) \subseteq Slot /\ Range(Free) \subseteq Slot
    BY <2>3 DEF Range
  <2>5. Range(Waiting) \cup Range(Free) = 1..size
    BY <2>2, <2>3, <2>4
  <2> QED
    BY <2>1, <2>3, <2>5 DEF PoolIsPartitioned
<1> QED
  BY <1>1, PoolInvHolds, PTL

-----------------------------------------------------------------------------
(* What MsgQueue sees: the waiting messages, in order.                      *)
Contents == [i \in DOMAIN Waiting |-> Message[Waiting[i]]]

LEMMA ContentsValues ==
    ASSUME SlotsOK
    PROVE  /\ Waiting \in Seq(Slot) /\ Len(Waiting) \in Nat /\ DOMAIN Waiting = 1..Len(Waiting)
           /\ \A i \in 1..Len(Waiting) : Waiting[i] \in Slot
           /\ Len(Contents) = Len(Waiting)
           /\ Contents = [i \in 1..Len(Waiting) |-> Message[Waiting[i]]]
           /\ \A i \in 1..Len(Waiting) : Contents[i] = Message[Waiting[i]] /\ Contents[i] \in Msg
<1>1. /\ Waiting \in Seq(Slot) /\ Len(Waiting) \in Nat /\ DOMAIN Waiting = 1..Len(Waiting)
      /\ \A i \in 1..Len(Waiting) : Waiting[i] \in Slot
  BY DEF SlotsOK, PoolOK, Pool, Linked
<1>2. Contents = [i \in 1..Len(Waiting) |-> Message[Waiting[i]]]
  BY <1>1 DEF Contents
<1>3. Contents \in [1..Len(Waiting) -> Msg]
  BY <1>1, <1>2 DEF SlotsOK
<1>4. Len(Contents) = Len(Waiting)
  BY <1>1, <1>3, FcnIsSeq
<1> QED
  BY <1>1, <1>2, <1>3, <1>4

(* MsgQueue's operators, in terms of this module's.                         *)
LEMMA AbsOperators ==
    /\ \A m, c : Abs!For(m, c) <=> PassesFilter(m, c) /\ Mine(m, c)
    /\ \A m : Abs!Dead(m) <=> m.hwnd # NoWnd /\ m.hwnd \notin window
    /\ \A m : Abs!Undeliverable(m) <=> \/ m.hwnd # NoWnd /\ m.hwnd \notin window
                                       \/ IsSystemQueue /\ m.hwnd \in disabled
                                       \/ IsMouse(m)
<1>1. \A m, c : Abs!For(m, c) <=> PassesFilter(m, c) /\ Mine(m, c)
  BY DEF Abs!For, Abs!PassesFilter, Abs!Mine, PassesFilter, Mine
<1>2. \A m : Abs!Dead(m) <=> m.hwnd # NoWnd /\ m.hwnd \notin window
  BY DEF Abs!Dead
<1>3. \A m : Abs!IsMouse(m) <=> IsMouse(m)
  BY DEF Abs!IsMouse, IsMouse, Abs!WM_MOUSE, WM_MOUSE
<1> QED
  BY <1>1, <1>2, <1>3 DEF Abs!Undeliverable

LEMMA AbsStutters ==
    ASSUME Contents' = Contents, UNCHANGED <<size, posted, window, disabled, got>>
    PROVE  UNCHANGED Abs!vars
BY DEF Abs!vars, Contents

LEMMA AbsBegins ==
    ASSUME Contents' = Contents, UNCHANGED <<size, posted, window, disabled>>, got' = <<>>
    PROVE  Abs!Begin
BY DEF Abs!Begin, Contents

LEMMA AbsDiscards ==
    ASSUME NEW k \in 1..Len(Contents), Abs!Undeliverable(Contents[k]),
           Contents' = Abs!Without(Contents, k), got' = <<>>,
           UNCHANGED <<size, posted, window, disabled>>
    PROVE  Abs!Discard
BY DEF Abs!Discard, Contents

LEMMA AbsDelivers ==
    ASSUME NEW k \in 1..Len(Contents), NEW c \in Calls, 
           ~IsMouse(Contents[k]) => ~Abs!Dead(Contents[k]) /\ Abs!For(Contents[k], c),
           c.remove \/ ~IsSystemQueue =>
              \A j \in 1..(k - 1) : Abs!For(Contents[j], c) => Abs!Undeliverable(Contents[j]),
           got' = <<c, Contents[k].id>>,
           Contents' = IF c.remove THEN Abs!Without(Contents, k) ELSE Contents,
           UNCHANGED <<size, posted, window, disabled>>
    PROVE  Abs!Deliver
<1>1. \A m : Abs!IsMouse(m) <=> IsMouse(m)
  BY DEF Abs!IsMouse, IsMouse, Abs!WM_MOUSE, WM_MOUSE
<1>2. Abs!IsFirstFor(k, c)
  BY <1>1 DEF Abs!IsFirstFor, Contents
<1> QED
  BY <1>2 DEF Abs!Deliver, Contents

LEMMA AbsEmpty ==
    ASSUME NEW c \in Calls, got' = <<c, 0>>, Contents' = Contents,
           ~IsSystemQueue => \A i \in 1..Len(Contents) : ~Abs!For(Contents[i], c),
           UNCHANGED <<size, posted, window, disabled>>
    PROVE  Abs!Empty
BY DEF Abs!Empty, Contents

-----------------------------------------------------------------------------
(* The i-th slot of a list; NULL after its end.                             *)
At(q, i) == IF i \in 1..Len(q) THEN q[i] ELSE NULL

(* Message m has been passed over by call c: c may not have it, or it is    *)
(* mouse input or c only looks at the system queue; and if it is for        *)
(* another task, that task is ready.                                        *)
Passed(m, c, r) ==
    /\ (c.remove \/ ~IsSystemQueue) /\ PassesFilter(m, c) /\ Mine(m, c) => IsMouse(m)
    /\ ~IsMouse(m) /\ PassesFilter(m, c) /\ ~Mine(m, c) => WndTask[m.hwnd] \in r

(* The walk is at the k-th message.                                         *)
AtWalk(k) ==
    /\ Scan.cur = At(Waiting, k) /\ Scan.nxt = At(Waiting, k + 1)
    /\ Scan.pc = "forward" => Scan.cur # NULL /\ IsMouse(Message[Scan.cur])
    /\ \A j \in 1..(k - 1) : Passed(Message[Waiting[j]], Scan.call, ready)

(* The inductive invariant of a queue that window procedures leave alone.   *)
WalkInv ==
    /\ fault = FALSE
    /\ scans # <<>> =>
          Len(scans) = 1 /\ got = <<>> /\ \E k \in 1..(Len(Waiting) + 1) : AtWalk(k)

LEMMA NextLinked ==
    ASSUME NEW next, NEW p, NEW q, Linked(next, p, q)
    PROVE  /\ \A k \in 1..Len(q) : q[k] # NULL /\ next[q[k]] = At(q, k + 1)
           /\ p = At(q, 1)
<1>1. /\ \A i \in 1..Len(q) : next[q[i]] = IF i = Len(q) THEN NULL ELSE q[i + 1]
      /\ p = IF Len(q) = 0 THEN NULL ELSE q[1]
  BY DEF Linked
<1>2. Len(q) \in Nat /\ \A i \in 1..Len(q) : q[i] \in Slot
  BY DEF Linked
<1>3. ASSUME NEW k \in 1..Len(q) PROVE q[k] # NULL /\ next[q[k]] = At(q, k + 1)
  <2>1. k + 1 \in 1..Len(q) <=> k # Len(q)
    BY <1>2
  <2> QED
    BY <1>1, <1>2, <2>1 DEF At, Slot, NULL
<1>4. p = At(q, 1)
  <2>1. 1 \in 1..Len(q) <=> Len(q) # 0
    BY <1>2
  <2> QED
    BY <1>1, <2>1 DEF At
<1> QED
  BY <1>3, <1>4

LEMMA NextWaiting ==
    ASSUME SlotsOK
    PROVE  /\ \A k \in 1..Len(Waiting) : /\ Waiting[k] # NULL
                                         /\ lpNextMsg[Waiting[k]] = At(Waiting, k + 1)
           /\ lpQueueNext = At(Waiting, 1)
           /\ \A i, j \in 1..Len(Waiting) : Waiting[i] = Waiting[j] => i = j
<1>1. /\ Linked(lpNextMsg, lpQueueNext, Waiting)
      /\ \A i, j \in 1..Len(Waiting) : Waiting[i] = Waiting[j] => i = j
  BY DEF SlotsOK, PoolOK, Pool
<1> QED
  BY <1>1, NextLinked

LEMMA ContentsSame ==
    ASSUME SlotsOK, UNCHANGED slots
    PROVE  Contents' = Contents /\ Waiting' = Waiting
BY SamePool DEF slots, Contents

(* A waiting slot is taken out.                                             *)
LEMMA Removed ==
    ASSUME SlotsOK, NEW k \in 1..Len(Waiting), Unlink(Waiting[k])
    PROVE  /\ SlotsOK' /\ Message' = Message /\ size' = size /\ fault' = fault
           /\ Waiting' = Cut(Waiting, k) /\ Contents' = Abs!Without(Contents, k)
<1>1. /\ Waiting \in Seq(Slot) /\ Len(Waiting) \in Nat /\ Waiting[k] \in Slot
      /\ Len(Contents) = Len(Waiting)
      /\ \A i \in 1..Len(Waiting) : Contents[i] = Message[Waiting[i]]
  BY ContentsValues
<1>2. \A i, j \in 1..Len(Waiting) : Waiting[i] = Waiting[j] => i = j
  BY NextWaiting
<1>3. /\ SlotsOK' /\ Message' = Message /\ size' = size /\ fault' = fault
      /\ Waiting' = Cut(Waiting, k)
  BY <1>1, <1>2, PoolUnlinked
<1>4. /\ Cut(Waiting, k) \in Seq(Slot) /\ Len(Cut(Waiting, k)) = Len(Waiting) - 1
      /\ \A i \in 1..(Len(Waiting) - 1) :
            Cut(Waiting, k)[i] = IF i < k THEN Waiting[i] ELSE Waiting[i + 1]
  BY <1>1, CutSeq
<1>5. Contents' = [i \in 1..(Len(Waiting) - 1) |-> Message[Cut(Waiting, k)[i]]]
  <2>1. DOMAIN Cut(Waiting, k) = 1..(Len(Waiting) - 1)
    BY <1>4
  <2> QED
    BY <1>3, <2>1 DEF Contents
<1>6. Abs!Without(Contents, k) = [i \in 1..(Len(Waiting) - 1) |->
                                    IF i < k THEN Contents[i] ELSE Contents[i + 1]]
  BY <1>1 DEF Abs!Without
<1>7. ASSUME NEW i \in 1..(Len(Waiting) - 1)
      PROVE  Message[Cut(Waiting, k)[i]] = IF i < k THEN Contents[i] ELSE Contents[i + 1]
  <2>1. i \in 1..Len(Waiting) /\ i + 1 \in 1..Len(Waiting)
    BY <1>1
  <2> QED
    BY <1>1, <1>4, <2>1
<1>8. Contents' = Abs!Without(Contents, k)
  BY <1>5, <1>6, <1>7
<1> QED
  BY <1>3, <1>8

(* Where the walk is.                                                       *)
LEMMA WalkPlace ==
    ASSUME PoolInv, WalkInv, scans # <<>>, Scan.cur # NULL,
           NEW k \in 1..(Len(Waiting) + 1), AtWalk(k)
    PROVE  k \in 1..Len(Waiting) /\ Waiting[k] = Scan.cur /\ Contents[k] = Message[Scan.cur]
<1>1. k \in 1..Len(Waiting) /\ Waiting[k] = Scan.cur
  BY DEF AtWalk, At
<1> QED
  BY <1>1, ContentsValues DEF PoolInv

(* The walk goes on to the next message, and the list stays as it is.       *)
LEMMA PassOver ==
    ASSUME PoolInv, WalkInv, scans # <<>>, Scan.cur # NULL,
           NEW k \in 1..(Len(Waiting) + 1), AtWalk(k), Keep, Advance(Scan.nxt),
           ready \subseteq ready', Passed(Message[Scan.cur], Scan.call, ready')
    PROVE  WalkInv' /\ Contents' = Contents /\ size' = size /\ got' = got
<1>1. SlotsOK /\ WalksOK /\ Scan.nxt \in Slot \cup {NULL} /\ Len(scans) = 1 /\ got = <<>>
      /\ fault = FALSE
  BY ScanFields DEF PoolInv, WalkInv
<1>2. SlotsOK' /\ Waiting' = Waiting /\ Contents' = Contents /\ UNCHANGED slots /\ fault' = fault
  BY <1>1, SamePool, ContentsSame DEF Keep
<1>3. k \in 1..Len(Waiting) /\ Waiting[k] = Scan.cur /\ Len(Waiting) \in Nat
  BY <1>1, WalkPlace, ContentsValues
<1>4. /\ Len(scans') = Len(scans) /\ got' = got /\ Scan'.call = Scan.call /\ Scan'.cur = Scan.nxt
      /\ Scan'.pc = "test" /\ Scan'.nxt = IF Scan.nxt = NULL THEN NULL ELSE lpNextMsg[Scan.nxt]
  <2>1. lpNextMsg' \in NextFcn /\ lpNextMsg' = lpNextMsg
    BY <1>2 DEF SlotsOK, slots
  <2> QED
    BY <1>1, <2>1, WalkAdvanced
<1>5. k + 1 \in 1..(Len(Waiting) + 1) /\ k + 1 - 1 = k
  BY <1>3
<1>6. Scan'.nxt = At(Waiting, k + 1 + 1)
  <2>1. CASE k + 1 \in 1..Len(Waiting)
    BY <1>1, <1>4, <2>1, NextWaiting DEF AtWalk, At
  <2>2. CASE k + 1 \notin 1..Len(Waiting)
    <3>1. k + 1 + 1 \notin 1..Len(Waiting)
      BY <1>3, <2>2
    <3> QED
      BY <1>4, <2>2, <3>1 DEF AtWalk, At
  <2> QED
    BY <2>1, <2>2
<1>7. \A j \in 1..k : Passed(Message[Waiting[j]], Scan.call, ready')
  <2>1. \A j \in 1..k : j = k \/ j \in 1..(k - 1)
    BY <1>3
  <2>2. \A j \in 1..(k - 1) : Passed(Message[Waiting[j]], Scan.call, ready')
    BY DEF AtWalk, Passed
  <2> QED
    BY <1>3, <2>1, <2>2
<1>8. AtWalk(k + 1)'
  BY <1>2, <1>4, <1>5, <1>6, <1>7 DEF AtWalk, slots
<1> QED
  BY <1>1, <1>2, <1>4, <1>5, <1>8 DEF WalkInv, slots

(* The walk goes on to the next message, and this one is taken out.         *)
LEMMA PassRemoved ==
    ASSUME PoolInv, WalkInv, scans # <<>>, Scan.cur # NULL,
           NEW k \in 1..(Len(Waiting) + 1), AtWalk(k), Unlink(Scan.cur), Advance(Scan.nxt),
           ready \subseteq ready'
    PROVE  /\ WalkInv' /\ k \in 1..Len(Contents) /\ Contents' = Abs!Without(Contents, k)
           /\ size' = size /\ got' = <<>>
<1>1. SlotsOK /\ WalksOK /\ Scan.nxt \in Slot \cup {NULL} /\ Len(scans) = 1 /\ got = <<>>
      /\ fault = FALSE
  BY ScanFields DEF PoolInv, WalkInv
<1>2. k \in 1..Len(Waiting) /\ Waiting[k] = Scan.cur /\ Len(Waiting) \in Nat
      /\ Waiting \in Seq(Slot) /\ Len(Contents) = Len(Waiting)
  BY <1>1, WalkPlace, ContentsValues
<1>3. /\ SlotsOK' /\ Message' = Message /\ size' = size /\ fault' = fault
      /\ Waiting' = Cut(Waiting, k) /\ Contents' = Abs!Without(Contents, k)
  BY <1>1, <1>2, Removed
<1>4. /\ Len(scans') = Len(scans) /\ got' = got /\ Scan'.call = Scan.call /\ Scan'.cur = Scan.nxt
      /\ Scan'.pc = "test" /\ Scan'.nxt = IF Scan.nxt = NULL THEN NULL ELSE lpNextMsg'[Scan.nxt]
  <2>1. lpNextMsg' \in NextFcn
    BY <1>3 DEF SlotsOK
  <2> QED
    BY <1>1, <2>1, WalkAdvanced
<1>5. /\ Len(Waiting') = Len(Waiting) - 1
      /\ \A i \in 1..(Len(Waiting) - 1) : Waiting'[i] = IF i < k THEN Waiting[i] ELSE Waiting[i + 1]
  BY <1>2, <1>3, CutSeq
<1>6. k \in 1..(Len(Waiting') + 1)
  BY <1>2, <1>5
<1>7. At(Waiting', k) = At(Waiting, k + 1)
  <2>1. k \in 1..Len(Waiting') <=> k + 1 \in 1..Len(Waiting)
    BY <1>2, <1>5
  <2> QED
    BY <1>2, <1>5, <2>1 DEF At
<1>8. Scan'.nxt = At(Waiting', k + 1)
  <2>1. CASE k \in 1..Len(Waiting')
    <3>1. lpNextMsg'[Waiting'[k]] = At(Waiting', k + 1) /\ Waiting'[k] # NULL
      <4>1. \A j \in 1..Len(Waiting') : /\ Waiting'[j] # NULL
                                         /\ lpNextMsg'[Waiting'[j]] = At(Waiting', j + 1)
        <5>1. Linked(lpNextMsg', lpQueueNext', Waiting')
          BY <1>3 DEF SlotsOK, PoolOK, Pool
        <5> QED
          BY <5>1, NextLinked
      <4> QED
        BY <2>1, <4>1
    <3>2. At(Waiting', k) = Waiting'[k]
      BY <2>1 DEF At
    <3> QED
      BY <1>4, <1>7, <3>1, <3>2 DEF AtWalk
  <2>2. CASE k \notin 1..Len(Waiting')
    <3>1. k + 1 \notin 1..Len(Waiting')
      BY <1>2, <1>5, <2>2
    <3>2. At(Waiting', k) = NULL /\ At(Waiting', k + 1) = NULL
      BY <2>2, <3>1 DEF At
    <3> QED
      BY <1>4, <1>7, <3>2 DEF AtWalk
  <2> QED
    BY <2>1, <2>2
<1>9. \A j \in 1..(k - 1) : Passed(Message[Waiting'[j]], Scan.call, ready')
  <2>1. \A j \in 1..(k - 1) : j < k /\ j \in 1..(Len(Waiting) - 1)
    BY <1>2
  <2>2. \A j \in 1..(k - 1) : Passed(Message[Waiting[j]], Scan.call, ready')
    BY DEF AtWalk, Passed
  <2> QED
    BY <1>5, <2>1, <2>2
<1>10. AtWalk(k)'
  BY <1>3, <1>4, <1>7, <1>8, <1>9 DEF AtWalk
<1> QED
  BY <1>1, <1>2, <1>3, <1>4, <1>6, <1>10 DEF WalkInv

(* The walk ends.                                                           *)
LEMMA WalkEnds ==
    ASSUME PoolInv, WalkInv, scans # <<>>, NEW id \in 0..MaxPosted, Return(id), fault' = FALSE
    PROVE  WalkInv' /\ got' = <<Scan.call, id>> /\ Scan.call \in Calls
<1>1. WalksOK /\ Len(scans) = 1
  BY DEF PoolInv, WalkInv
<1>2. WalksOK' /\ Len(scans') = Len(scans) - 1 /\ got' = <<Scan.call, id>>
  BY <1>1, WalkReturned
<1>3. scans' \in Seq(ScanState) /\ Len(scans') = 0
  BY <1>1, <1>2 DEF WalksOK
<1>4. scans' = <<>>
  BY <1>3
<1> QED
  BY <1>1, <1>2, <1>4, ScanFields DEF WalkInv

(* A message that the call may have is returned: all before it are passed.  *)
LEMMA Found ==
    ASSUME PoolInv, WalkInv, scans # <<>>, Scan.cur # NULL,
           NEW k \in 1..(Len(Waiting) + 1), AtWalk(k),
           IF Scan.call.remove THEN Unlink(Scan.cur) ELSE Keep,
           Return(Message[Scan.cur].id),
           ~IsMouse(Message[Scan.cur]) =>
              /\ Message[Scan.cur].hwnd \in window \cup {NoWnd}
              /\ PassesFilter(Message[Scan.cur], Scan.call) /\ Mine(Message[Scan.cur], Scan.call),
           UNCHANGED <<posted, window, disabled>>
    PROVE  WalkInv' /\ Abs!Deliver
<1>1. SlotsOK /\ fault = FALSE /\ MaxPosted \in Nat
  BY DefsAssumption DEF PoolInv, WalkInv
<1>2. k \in 1..Len(Waiting) /\ Waiting[k] = Scan.cur /\ Contents[k] = Message[Scan.cur]
      /\ Len(Contents) = Len(Waiting) /\ Len(Waiting) \in Nat
      /\ \A i \in 1..Len(Waiting) : Contents[i] = Message[Waiting[i]] /\ Contents[i] \in Msg
  BY <1>1, WalkPlace, ContentsValues
<1>3. Contents[k].id \in 0..MaxPosted
  BY <1>1, <1>2, MsgFields
<1>4. /\ size' = size /\ fault' = FALSE
      /\ Contents' = IF Scan.call.remove THEN Abs!Without(Contents, k) ELSE Contents
  <2>1. CASE Scan.call.remove
    BY <1>1, <1>2, <2>1, Removed
  <2>2. CASE ~Scan.call.remove
    BY <1>1, <2>2, ContentsSame DEF Keep, slots
  <2> QED
    BY <2>1, <2>2
<1>5. WalkInv' /\ got' = <<Scan.call, Contents[k].id>> /\ Scan.call \in Calls
  BY <1>2, <1>3, <1>4, WalkEnds
<1>6. ~IsMouse(Contents[k]) => ~Abs!Dead(Contents[k]) /\ Abs!For(Contents[k], Scan.call)
  BY <1>2, AbsOperators
<1>7. ASSUME Scan.call.remove \/ ~IsSystemQueue, NEW j \in 1..(k - 1),
             Abs!For(Contents[j], Scan.call)
      PROVE  Abs!Undeliverable(Contents[j])
  <2>1. j \in 1..Len(Waiting) /\ Passed(Message[Waiting[j]], Scan.call, ready)
    BY <1>2 DEF AtWalk
  <2>2. IsMouse(Contents[j])
    BY <1>2, <1>7, <2>1, AbsOperators DEF Passed
  <2> QED
    BY <2>2, AbsOperators
<1>8. Abs!Deliver
  BY <1>2, <1>4, <1>5, <1>6, <1>7, AbsDelivers
<1> QED
  BY <1>5, <1>8

(* What a step does to the queue that MsgQueue sees.                        *)
AbsStep == Abs!Next \/ UNCHANGED Abs!vars

LEMMA SettleStep ==
    ASSUME PoolInv, WalkInv, scans # <<>>, Scan.cur # NULL, NEW m, Settle(m),
           m.id = Message[Scan.cur].id,
           \/ IsMouse(Message[Scan.cur])
           \/ m = Message[Scan.cur] /\ m.hwnd \in window \cup {NoWnd}
    PROVE  WalkInv' /\ AbsStep
<1> DEFINE c == Scan.call
           dead == m.hwnd \notin window \cup {NoWnd}
           skip == ~PassesFilter(m, c) \/ (~dead /\ ~Mine(m, c))
           drop == dead \/ (IsSystemQueue /\ m.hwnd \in disabled)
<1>1. /\ IF ~skip /\ c.remove THEN Unlink(Scan.cur) ELSE Keep
      /\ IF skip \/ drop THEN Advance(Scan.nxt) ELSE Return(m.id)
      /\ ready' = IF ~dead /\ PassesFilter(m, c) /\ ~Mine(m, c)
                  THEN ready \cup {WndTask[m.hwnd]} ELSE ready
      /\ UNCHANGED <<posted, window, disabled>>
  BY DEF Settle, windows
<1>2. PICK k \in 1..(Len(Waiting) + 1) : AtWalk(k)
  BY DEF WalkInv
<1>3. k \in 1..Len(Waiting) /\ Waiting[k] = Scan.cur /\ Contents[k] = Message[Scan.cur]
  BY <1>2, WalkPlace
<1>4. ready \subseteq ready'
  BY <1>1
<1>5. CASE Keep /\ Advance(Scan.nxt) /\ (skip \/ (drop /\ ~c.remove))
  <2>1. Passed(Message[Scan.cur], c, ready')
    <3>1. CASE IsMouse(Message[Scan.cur])
      BY <3>1 DEF Passed
    <3>2. CASE ~IsMouse(Message[Scan.cur])
      <4>1. m = Message[Scan.cur] /\ ~dead
        BY <3>2
      <4>2. (c.remove \/ ~IsSystemQueue) => ~(PassesFilter(m, c) /\ Mine(m, c))
        BY <1>1, <1>5, <4>1
      <4>3. PassesFilter(m, c) /\ ~Mine(m, c) => WndTask[m.hwnd] \in ready'
        BY <1>1, <4>1
      <4> QED
        BY <4>1, <4>2, <4>3 DEF Passed
    <3> QED
      BY <3>1, <3>2
  <2>2. WalkInv' /\ Contents' = Contents /\ size' = size /\ got' = got
    BY <1>2, <1>4, <1>5, <2>1, PassOver
  <2>3. UNCHANGED Abs!vars
    BY <1>1, <2>2, AbsStutters
  <2> QED
    BY <2>2, <2>3 DEF AbsStep
<1>6. CASE Unlink(Scan.cur) /\ Advance(Scan.nxt) /\ ~skip /\ drop
  <2>1. /\ WalkInv' /\ k \in 1..Len(Contents) /\ Contents' = Abs!Without(Contents, k)
        /\ size' = size /\ got' = <<>>
    BY <1>2, <1>4, <1>6, PassRemoved
  <2>2. Abs!Undeliverable(Contents[k])
    BY <1>3, <1>6, AbsOperators
  <2>3. Abs!Discard
    BY <1>1, <2>1, <2>2, AbsDiscards
  <2> QED
    BY <2>1, <2>3 DEF AbsStep, Abs!Next
<1>7. CASE ~skip /\ ~drop
  <2>1. (IF c.remove THEN Unlink(Scan.cur) ELSE Keep) /\ Return(Message[Scan.cur].id)
    BY <1>1, <1>7
  <2>2. ~IsMouse(Message[Scan.cur]) =>
           /\ Message[Scan.cur].hwnd \in window \cup {NoWnd}
           /\ PassesFilter(Message[Scan.cur], c) /\ Mine(Message[Scan.cur], c)
    BY <1>7
  <2>3. WalkInv' /\ Abs!Deliver
    BY <1>1, <1>2, <2>1, <2>2, Found
  <2> QED
    BY <2>3 DEF AbsStep, Abs!Next
<1> QED
  BY <1>1, <1>5, <1>6, <1>7

-----------------------------------------------------------------------------
LEMMA AbsPosts ==
    ASSUME NEW m \in Msg, m.id = posted + 1, ~IsSystemQueue => ~Abs!Dead(m),
           Len(Contents) < size, posted < MaxPosted, posted' = posted + 1, got' = <<>>,
           Contents' = IF m.front THEN <<m>> \o Contents ELSE Append(Contents, m),
           UNCHANGED <<size, window, disabled>>
    PROVE  Abs!Post
<1>1. m \in Abs!Msg
  BY DEF Msg, Posted, WM_QUIT, WM_KEY, WM_MOUSE,
         Abs!Msg, Abs!Posted, Abs!WM_QUIT, Abs!WM_KEY, Abs!WM_MOUSE
<1> QED
  BY <1>1 DEF Abs!Post, Contents

(* The messages in the slots of a list.                                     *)
Image(M, w) == [i \in 1..Len(w) |-> M[w[i]]]

LEMMA ImageValues ==
    ASSUME NEW M \in [Slot -> Msg], NEW w \in Seq(Slot)
    PROVE  /\ Image(M, w) \in Seq(Msg) /\ Len(Image(M, w)) = Len(w)
           /\ \A i \in 1..Len(w) : Image(M, w)[i] = M[w[i]]
<1>1. Len(w) \in Nat /\ Image(M, w) \in [1..Len(w) -> Msg]
  BY DEF Image
<1>2. Image(M, w) \in Seq(Msg) /\ Len(Image(M, w)) = Len(w)
  BY <1>1, FcnIsSeq
<1> QED
  BY <1>2 DEF Image

LEMMA ContentsImage ==
    SlotsOK => Contents = Image(Message, Waiting)
BY ContentsValues DEF Image

LEMMA ImagePushed ==
    ASSUME NEW M \in [Slot -> Msg], NEW N \in [Slot -> Msg], NEW w \in Seq(Slot),
           NEW s \in Slot, \A i \in 1..Len(w) : w[i] # s,
           \A x \in Slot : x # s => N[x] = M[x]
    PROVE  /\ Image(N, <<s>> \o w) = <<N[s]>> \o Image(M, w)
           /\ Image(N, Append(w, s)) = Append(Image(M, w), N[s])
<1>1. PICK q \in Seq(Msg) : /\ q = Image(M, w) /\ Len(q) = Len(w) /\ Len(w) \in Nat
                            /\ \A i \in 1..Len(w) : q[i] = N[w[i]]
  <2>1. \A i \in 1..Len(w) : M[w[i]] = N[w[i]]
    OBVIOUS
  <2> QED
    BY <2>1, ImageValues
<1>2. N[s] \in Msg
  OBVIOUS
<1>3. Image(N, <<s>> \o w) = <<N[s]>> \o q
  <2>1. PICK v \in Seq(Slot) : v = <<s>> \o w /\ HasFirst(v, s, w)
    BY PushedSeq
  <2>2. PICK a \in Seq(Msg) : a = <<N[s]>> \o q /\ HasFirst(a, N[s], q)
    BY <1>2, PushedSeq
  <2>3. PICK b \in Seq(Msg) : b = Image(N, v) /\ Len(b) = Len(v) /\ \A i \in 1..Len(v) : b[i] = N[v[i]]
    BY ImageValues
  <2>4. HasFirst(b, N[s], q)
    <3>1. Len(v) = Len(w) + 1
      BY <2>1 DEF HasFirst
    <3>2. ASSUME NEW i \in 1..(Len(w) + 1) PROVE b[i] = IF i = 1 THEN N[s] ELSE q[i - 1]
      <4>1. v[i] = IF i = 1 THEN s ELSE w[i - 1]
        BY <2>1 DEF HasFirst
      <4>2. i # 1 => i - 1 \in 1..Len(w)
        BY <1>1
      <4> QED
        BY <1>1, <2>3, <3>1, <4>1, <4>2
    <3> QED
      BY <1>1, <2>3, <3>1, <3>2 DEF HasFirst
  <2> QED
    BY <2>1, <2>2, <2>3, <2>4, FirstUnique
<1>4. Image(N, Append(w, s)) = Append(q, N[s])
  <2>1. PICK v \in Seq(Slot) : v = Append(w, s) /\ HasLast(v, s, w)
    BY AppendedSeq
  <2>2. PICK a \in Seq(Msg) : a = Append(q, N[s]) /\ HasLast(a, N[s], q)
    BY <1>2, AppendedSeq
  <2>3. PICK b \in Seq(Msg) : b = Image(N, v) /\ Len(b) = Len(v) /\ \A i \in 1..Len(v) : b[i] = N[v[i]]
    BY ImageValues
  <2>4. HasLast(b, N[s], q)
    <3>1. Len(v) = Len(w) + 1
      BY <2>1 DEF HasLast
    <3>2. ASSUME NEW i \in 1..(Len(w) + 1)
          PROVE  b[i] = IF i = Len(w) + 1 THEN N[s] ELSE q[i]
      <4>1. v[i] = IF i = Len(w) + 1 THEN s ELSE w[i]
        BY <2>1 DEF HasLast
      <4>2. i # Len(w) + 1 => i \in 1..Len(w)
        BY <1>1
      <4> QED
        BY <1>1, <2>3, <3>1, <4>1, <4>2
    <3> QED
      BY <1>1, <2>3, <3>1, <3>2 DEF HasLast
  <2> QED
    BY <2>1, <2>2, <2>3, <2>4, LastUnique
<1> QED
  BY <1>1, <1>3, <1>4

LEMMA AddStep ==
    ASSUME PoolInv, WalkInv, ~Reentrant, NEW p \in Posts, QueueAddMsg(p[1], p[2], p[3])
    PROVE  WalkInv' /\ AbsStep
<1>1. SlotsOK /\ scans = <<>> /\ scans' = scans /\ fault' = FALSE /\ got' = <<>>
      /\ posted \in Nat /\ MaxPosted \in Nat /\ posted < MaxPosted
      /\ UNCHANGED <<size, window, disabled>>
  BY DefsAssumption DEF PoolInv, OthersOK, WalkInv, QueueAddMsg, CanCall, windows, slots
<1>2. WalkInv'
  BY <1>1 DEF WalkInv
<1>3. CASE lpQueueFree = NULL
  <2>1. Contents' = Contents /\ posted' = posted
    BY <1>1, <1>3, ContentsSame DEF QueueAddMsg
  <2>2. Abs!Begin
    BY <1>1, <2>1, AbsBegins
  <2> QED
    BY <1>2, <2>2 DEF AbsStep, Abs!Next
<1>4. CASE lpQueueFree # NULL
  <2>1. p[1] \in {0, 1} /\ p[2] \in Window \cup {NoWnd} /\ p[3] \in Posted
    BY ListAssumption
  <2> DEFINE m == [hwnd |-> p[2], message |-> p[3], id |-> posted + 1, front |-> p[1] = 0]
             s == lpQueueFree
  <2>2. m \in Msg /\ m.id = posted + 1 /\ m.hwnd = p[2] /\ (m.front <=> p[1] = 0)
    <3>1. posted + 1 \in 1..MaxPosted
      BY <1>1
    <3> QED
      BY <2>1, <3>1 DEF Msg
  <2>3. /\ SlotsOK' /\ Message' = [Message EXCEPT ![s] = m]
        /\ \A i \in 1..Len(Waiting) : Waiting[i] # s
        /\ Waiting' = IF p[1] = 0 \/ lpQueueNext = NULL THEN <<s>> \o Waiting
                      ELSE Append(Waiting, s)
    <3>1. PICK I, h, k : I = p[1] /\ h = p[2] /\ k = p[3]
      OBVIOUS
    <3>2. I \in {0, 1} /\ h \in Window \cup {NoWnd} /\ k \in Posted /\ QueueAddMsg(I, h, k)
      BY <2>1, <3>1
    <3>3. SlotsOK' /\ \A i \in 1..Len(Waiting) : Waiting[i] # s
      BY <1>1, <1>4, <3>2, PoolAdded
    <3>4. Message' = [Message EXCEPT ![s] = m]
      BY <1>4 DEF QueueAddMsg
    <3>5. Waiting' = IF I = 0 \/ lpQueueNext = NULL THEN <<s>> \o Waiting
                     ELSE Append(Waiting, s)
      BY <1>1, <1>4, <3>2, PoolAdded
    <3> QED
      BY <3>1, <3>3, <3>4, <3>5
  <2> HIDE DEF m
  <2>4. s \in Slot /\ Message \in [Slot -> Msg] /\ Message' \in [Slot -> Msg] /\ Message'[s] = m
        /\ \A x \in Slot : x # s => Message'[x] = Message[x]
    BY <1>1, <1>4, <2>3 DEF SlotsOK
  <2>5. Waiting \in Seq(Slot) /\ Len(Contents) = Len(Waiting) /\ Len(Waiting) \in Nat
    BY <1>1, ContentsValues
  <2>6. /\ Image(Message', <<s>> \o Waiting) = <<m>> \o Contents
        /\ Image(Message', Append(Waiting, s)) = Append(Contents, m)
    <3>1. PICK M, N : M = Message /\ N = Message'
      OBVIOUS
    <3>2. PICK w \in Seq(Slot) : w = Waiting
      BY <2>5
    <3>3. /\ M \in [Slot -> Msg] /\ N \in [Slot -> Msg] /\ \A i \in 1..Len(w) : w[i] # s
          /\ \A x \in Slot : x # s => N[x] = M[x]
      BY <2>3, <2>4, <3>1, <3>2
    <3>4. /\ Image(N, <<s>> \o w) = <<N[s]>> \o Image(M, w)
          /\ Image(N, Append(w, s)) = Append(Image(M, w), N[s])
      BY <2>4, <3>3, ImagePushed
    <3>5. Contents = Image(M, w) /\ N[s] = m
      BY <1>1, <2>4, <3>1, <3>2, ContentsImage
    <3> QED
      BY <3>1, <3>2, <3>4, <3>5
  <2>7. Contents' = Image(Message', Waiting')
    <3>1. DOMAIN Waiting' = 1..Len(Waiting')
      BY <2>3 DEF SlotsOK, PoolOK, Pool, Linked
    <3> QED
      BY <3>1 DEF Contents, Image
  <2>8. Contents' = IF m.front THEN <<m>> \o Contents ELSE Append(Contents, m)
    <3>1. CASE p[1] = 0
      BY <2>2, <2>3, <2>6, <2>7, <3>1
    <3>2. CASE p[1] # 0 /\ lpQueueNext # NULL
      BY <2>2, <2>3, <2>6, <2>7, <3>2
    <3>3. CASE p[1] # 0 /\ lpQueueNext = NULL
      <4>1. Len(Waiting) = 0
        <5>1. Len(Waiting) # 0 => 1 \in 1..Len(Waiting)
          BY <2>5
        <5> QED
          BY <1>1, <3>3, <5>1, NextWaiting DEF At
      <4>2. Waiting = <<>>
        BY <2>5, <4>1
      <4>3. <<s>> \o Waiting = Append(Waiting, s)
        BY <4>2
      <4> QED
        BY <2>2, <2>3, <2>6, <2>7, <3>3, <4>3
    <3> QED
      BY <3>1, <3>2, <3>3
  <2>9. Len(Contents) < size
    <3>1. Len(Waiting) + Len(Free) = size /\ Len(Free) # 0 /\ Len(Free) \in Nat
      BY <1>1, <1>4 DEF SlotsOK, PoolOK, Pool, Linked
    <3> QED
      BY <2>5, <3>1
  <2>10. posted' = posted + 1 /\ (~IsSystemQueue => ~Abs!Dead(m))
    BY <1>4, <2>2, AbsOperators DEF QueueAddMsg
  <2>11. Abs!Post
    BY <1>1, <2>2, <2>8, <2>9, <2>10, AbsPosts
  <2> QED
    BY <1>2, <2>11 DEF AbsStep, Abs!Next
<1> QED
  BY <1>3, <1>4

LEMMA CallStep ==
    ASSUME PoolInv, WalkInv, ~Reentrant, NEW c \in Calls, QueueGetMsg(c)
    PROVE  WalkInv' /\ AbsStep
<1>1. SlotsOK /\ scans = <<>> /\ fault' = FALSE /\ got' = <<>>
      /\ UNCHANGED <<slots, posted, window, disabled>>
  BY DEF PoolInv, WalkInv, QueueGetMsg, CanCall, windows
<1>2. Waiting' = Waiting /\ Contents' = Contents /\ size' = size
  BY <1>1, ContentsSame DEF slots
<1> DEFINE x == IF lpQueueNext = NULL THEN NULL ELSE lpNextMsg[lpQueueNext]
           u == [call |-> c, cur |-> lpQueueNext, pc |-> "test", target |-> NoWnd, nxt |-> x]
<1>3. scans' = Append(scans, u)
  BY DEF QueueGetMsg
<1>4. u.call = c /\ u.cur = lpQueueNext /\ u.pc = "test" /\ u.nxt = x
  OBVIOUS
<1> HIDE DEF u
<1>5. scans' = <<u>>
  BY <1>1, <1>3
<1>6. Len(scans') = 1 /\ Scan' = u
  BY <1>5 DEF Scan, Last
<1>7. u.cur = At(Waiting, 1) /\ u.nxt = At(Waiting, 1 + 1) /\ 1 \in 1..(Len(Waiting) + 1)
  <2>1. Len(Waiting) \in Nat
    BY <1>1, ContentsValues
  <2>2. CASE 1 \in 1..Len(Waiting)
    BY <1>1, <1>4, <2>1, <2>2, NextWaiting DEF At
  <2>3. CASE 1 \notin 1..Len(Waiting)
    <3>1. 1 + 1 \notin 1..Len(Waiting)
      BY <2>1, <2>3
    <3> QED
      BY <1>1, <1>4, <2>1, <2>3, <3>1, NextWaiting DEF At
  <2> QED
    BY <2>2, <2>3
<1>8. AtWalk(1)'
  BY <1>2, <1>4, <1>6, <1>7 DEF AtWalk
<1>9. WalkInv'
  BY <1>1, <1>2, <1>6, <1>7, <1>8 DEF WalkInv
<1>10. Abs!Begin
  BY <1>1, <1>2, AbsBegins
<1> QED
  BY <1>9, <1>10 DEF AbsStep, Abs!Next

LEMMA NoMessageStep ==
    ASSUME PoolInv, WalkInv, NoMessage
    PROVE  WalkInv' /\ AbsStep
<1>1. SlotsOK /\ scans # <<>> /\ Scan.cur = NULL /\ Return(0) /\ UNCHANGED slots /\ fault' = FALSE
      /\ UNCHANGED <<posted, window, disabled>> /\ 0 \in 0..MaxPosted
  BY DefsAssumption DEF PoolInv, WalkInv, NoMessage, Running, Keep, windows
<1>2. Contents' = Contents /\ size' = size
  BY <1>1, ContentsSame DEF slots
<1>3. WalkInv' /\ got' = <<Scan.call, 0>> /\ Scan.call \in Calls
  BY <1>1, WalkEnds
<1>4. PICK k \in 1..(Len(Waiting) + 1) : AtWalk(k)
  BY <1>1 DEF WalkInv
<1>5. Len(Waiting) \in Nat /\ Len(Contents) = Len(Waiting)
      /\ \A i \in 1..Len(Waiting) : Contents[i] = Message[Waiting[i]] /\ Waiting[i] # NULL
  BY <1>1, ContentsValues, NextWaiting
<1>6. k - 1 = Len(Waiting)
  <2>1. k \notin 1..Len(Waiting)
    BY <1>1, <1>4, <1>5 DEF AtWalk, At
  <2> QED
    BY <1>5, <2>1
<1>7. ASSUME ~IsSystemQueue, NEW i \in 1..Len(Contents) PROVE ~Abs!For(Contents[i], Scan.call)
  <2>1. Passed(Contents[i], Scan.call, ready)
    BY <1>4, <1>5, <1>6 DEF AtWalk
  <2> QED
    BY <1>7, <2>1, AbsOperators DEF Passed, IsMouse
<1>8. Abs!Empty
  BY <1>1, <1>2, <1>3, <1>7, AbsEmpty
<1> QED
  BY <1>3, <1>8 DEF AbsStep, Abs!Next

LEMMA PurgeStep ==
    ASSUME PoolInv, WalkInv, PurgeDead
    PROVE  WalkInv' /\ AbsStep
<1>1. /\ scans # <<>> /\ Scan.cur # NULL /\ Unlink(Scan.cur) /\ Advance(Scan.nxt)
      /\ Message[Scan.cur].hwnd \notin window \cup {NoWnd}
      /\ ready' = ready /\ UNCHANGED <<posted, window, disabled>>
  BY DEF PurgeDead, Running, windows
<1>2. PICK k \in 1..(Len(Waiting) + 1) : AtWalk(k)
  BY <1>1 DEF WalkInv
<1>3. /\ WalkInv' /\ k \in 1..Len(Contents) /\ Contents' = Abs!Without(Contents, k)
      /\ size' = size /\ got' = <<>>
  BY <1>1, <1>2, PassRemoved
<1>4. Abs!Undeliverable(Contents[k])
  BY <1>1, <1>2, WalkPlace, AbsOperators
<1>5. Abs!Discard
  BY <1>1, <1>3, <1>4, AbsDiscards
<1> QED
  BY <1>3, <1>5 DEF AbsStep, Abs!Next

LEMMA ExamineStep ==
    ASSUME PoolInv, WalkInv, Examine
    PROVE  WalkInv' /\ AbsStep
<1>1. /\ scans # <<>> /\ Scan.cur # NULL /\ Settle(Message[Scan.cur])
      /\ Message[Scan.cur].hwnd \in window \cup {NoWnd}
  BY DEF Examine, Running
<1>2. PICK m : m = Message[Scan.cur]
  OBVIOUS
<1>3. Settle(m) /\ m.id = Message[Scan.cur].id /\ m.hwnd \in window \cup {NoWnd}
  BY <1>1, <1>2
<1> QED
  BY <1>1, <1>2, <1>3, SettleStep

(* The walk is waiting for TWIN_ForwardButtonEvent.                         *)
LEMMA ForwardingScan ==
    ASSUME NEW r \in ScanState, NEW t \in Window \cup {NoWnd}
    PROVE  LET u == [r EXCEPT !.pc = "forward", !.target = t]
           IN /\ u \in ScanState /\ u.call = r.call /\ u.cur = r.cur /\ u.nxt = r.nxt
              /\ u.pc = "forward"
BY DEF ScanState

LEMMA ForwardStep ==
    ASSUME PoolInv, WalkInv, NEW t \in Window \cup {NoWnd}, Forward(t)
    PROVE  WalkInv' /\ AbsStep
<1>1. /\ scans # <<>> /\ Scan.cur # NULL /\ IsMouse(Message[Scan.cur])
      /\ SetScan([Scan EXCEPT !.pc = "forward", !.target = t])
      /\ UNCHANGED slots /\ fault' = fault /\ ready' = ready /\ got' = got
      /\ UNCHANGED <<posted, window, disabled>>
  BY DEF Forward, Running, Keep, windows
<1>2. SlotsOK /\ WalksOK
  BY DEF PoolInv
<1>3. PICK k \in 1..(Len(Waiting) + 1) : AtWalk(k)
  BY <1>1 DEF WalkInv
<1>4. PICK u : u = [Scan EXCEPT !.pc = "forward", !.target = t]
  OBVIOUS
<1>5. u \in ScanState /\ u.call = Scan.call /\ u.cur = Scan.cur /\ u.nxt = Scan.nxt
      /\ u.pc = "forward" /\ u.call \in Calls
  BY <1>1, <1>2, <1>4, ScanFields, ForwardingScan
<1>6. SetScan(u)
  BY <1>1, <1>4
<1>7. scans' # <<>> /\ Len(scans') = Len(scans) /\ Scan' = u
  BY <1>1, <1>2, <1>5, <1>6, WalkSet
<1>8. Contents' = Contents /\ Waiting' = Waiting /\ Message' = Message /\ size' = size
  BY <1>1, <1>2, ContentsSame DEF slots
<1>9. AtWalk(k)'
  BY <1>1, <1>3, <1>5, <1>7, <1>8 DEF AtWalk
<1>10. WalkInv'
  BY <1>1, <1>7, <1>8, <1>9 DEF WalkInv
<1>11. UNCHANGED Abs!vars
  BY <1>1, <1>8, AbsStutters
<1> QED
  BY <1>10, <1>11 DEF AbsStep

(* Only mouse input is forwarded.                                           *)
LEMMA ForwardedIsMouse ==
    ASSUME PoolInv, WalkInv, Forwarding
    PROVE  /\ scans # <<>> /\ Scan.cur # NULL /\ IsMouse(Message[Scan.cur]) /\ IsSystemQueue
           /\ Message[Scan.cur] \in Msg
<1>1. scans # <<>> /\ Scan.pc = "forward"
  BY DEF Forwarding
<1>2. PICK k \in 1..(Len(Waiting) + 1) : AtWalk(k)
  BY <1>1 DEF WalkInv
<1>3. Scan.cur # NULL /\ IsMouse(Message[Scan.cur])
  BY <1>1, <1>2 DEF AtWalk
<1>4. Scan.cur \in Slot
  BY <1>1, <1>3, ScanFields DEF PoolInv
<1> QED
  BY <1>1, <1>3, <1>4 DEF IsMouse, PoolInv, SlotsOK

LEMMA EatenStep ==
    ASSUME PoolInv, WalkInv, ForwardEaten
    PROVE  WalkInv' /\ AbsStep
<1>1. /\ Forwarding /\ Keep /\ Advance(Scan.nxt) /\ ready' = ready
      /\ UNCHANGED <<posted, window, disabled>>
  BY DEF ForwardEaten, windows
<1>2. scans # <<>> /\ Scan.cur # NULL /\ IsMouse(Message[Scan.cur])
  BY <1>1, ForwardedIsMouse
<1>3. PICK k \in 1..(Len(Waiting) + 1) : AtWalk(k)
  BY <1>2 DEF WalkInv
<1>4. Passed(Message[Scan.cur], Scan.call, ready')
  BY <1>2 DEF Passed
<1>5. WalkInv' /\ Contents' = Contents /\ size' = size /\ got' = got
  BY <1>1, <1>2, <1>3, <1>4, PassOver
<1>6. UNCHANGED Abs!vars
  BY <1>1, <1>5, AbsStutters
<1> QED
  BY <1>5, <1>6 DEF AbsStep

LEMMA ForwardedStep ==
    ASSUME PoolInv, WalkInv, NEW n \in {WM_MOUSE, WM_NCMOUSE}, Forwarded(n)
    PROVE  WalkInv' /\ AbsStep
<1>1. Forwarding /\ Settle([Message[Scan.cur] EXCEPT !.hwnd = Scan.target, !.message = n])
  BY DEF Forwarded
<1>2. scans # <<>> /\ Scan.cur # NULL /\ IsMouse(Message[Scan.cur]) /\ Message[Scan.cur] \in Msg
  BY <1>1, ForwardedIsMouse
<1>3. PICK m : m = [Message[Scan.cur] EXCEPT !.hwnd = Scan.target, !.message = n]
  OBVIOUS
<1>4. Settle(m) /\ m.id = Message[Scan.cur].id
  BY <1>1, <1>2, <1>3, ForwardedMsg
<1> QED
  BY <1>2, <1>4, SettleStep

(* The walk and the list stay as they are.                                  *)
LEMMA WalkStays ==
    ASSUME PoolInv, WalkInv, UNCHANGED <<slots, scans, ready, fault>>, got' = <<>> \/ got' = got
    PROVE  WalkInv' /\ Contents' = Contents /\ size' = size
<1>1. SlotsOK /\ WalksOK
  BY DEF PoolInv
<1>2. Contents' = Contents /\ Waiting' = Waiting /\ Message' = Message /\ size' = size
  BY <1>1, ContentsSame DEF slots
<1>3. Scan' = Scan
  BY DEF Scan
<1>4. ASSUME NEW k, AtWalk(k) PROVE AtWalk(k)'
  BY <1>2, <1>3, <1>4 DEF AtWalk
<1>5. fault' = FALSE
  BY DEF WalkInv
<1>6. ASSUME scans # <<>>
      PROVE  Len(scans') = 1 /\ got' = <<>> /\ \E k \in 1..(Len(Waiting') + 1) : AtWalk(k)'
  <2>1. PICK k \in 1..(Len(Waiting) + 1) : AtWalk(k)
    BY <1>6 DEF WalkInv
  <2> QED
    BY <1>2, <1>4, <1>6, <2>1 DEF WalkInv
<1> QED
  BY <1>2, <1>5, <1>6 DEF WalkInv

LEMMA AbsFlushes ==
    ASSUME NEW ws, NEW m \in 0..Len(Contents), NEW pos,
           Picks(pos, m, Len(Contents), {i \in 1..Len(Contents) : Contents[i].hwnd \notin ws}),
           Contents' = [i \in 1..m |-> Contents[pos[i]]]
    PROVE  Abs!Flushed(ws)
<1>1. /\ pos \in [1..m -> 1..Len(Contents)]
      /\ \A i, j \in 1..m : i < j => pos[i] < pos[j]
      /\ \A k \in 1..Len(Contents) : Contents[k].hwnd \notin ws <=> \E i \in 1..m : pos[i] = k
  BY DEF Picks
<1> QED
  BY <1>1 DEF Abs!Flushed, Contents

LEMMA DestroyStep ==
    ASSUME PoolInv, WalkInv, ~Reentrant, NEW w \in Window, DestroyWindow(w)
    PROVE  WalkInv' /\ AbsStep
<1>1. /\ w \in window \ Part /\ window' = window \ Tree(w) /\ ~Running
      /\ got' = <<>> /\ UNCHANGED <<scans, ready, fault, posted, disabled>>
  BY DEF DestroyWindow
<1>2. Tree(w) = Abs!Tree(w)
  BY DEF Tree, Abs!Tree
<1>3. CASE IsSystemQueue
  <2>1. UNCHANGED slots
    BY <1>3 DEF DestroyWindow
  <2>2. WalkInv' /\ Contents' = Contents /\ size' = size
    BY <1>1, <2>1, WalkStays
  <2>3. Abs!Destroy
    BY <1>1, <1>2, <1>3, <2>2 DEF Abs!Destroy, Contents
  <2> QED
    BY <2>2, <2>3 DEF AbsStep, Abs!Next
<1>4. CASE ~IsSystemQueue
  <2>1. SlotsOK /\ WalksOK
    BY DEF PoolInv
  <2>2. scans = <<>>
    <3>1. SUFFICES ASSUME scans # <<>> PROVE FALSE
      OBVIOUS
    <3>2. Scan.pc = "forward"
      BY <1>1, <2>1, <3>1, ScanFields DEF Running
    <3> QED
      BY <1>4, <3>1, <3>2, ForwardedIsMouse DEF Forwarding
  <2>3. WalkInv'
    BY <1>1, <2>2 DEF WalkInv
  <2>4. SlotsOK' /\ Message' = Message /\ size' = size /\ KeepsOthers(w)
    BY <1>4, <2>1, PoolFlushed
  <2>5. PICK m \in 0..Len(Waiting) : \E pos :
              /\ Picks(pos, m, Len(Waiting), KeptPlaces(w))
              /\ Waiting' = [i \in 1..m |-> Waiting[pos[i]]]
    BY <2>4 DEF KeepsOthers
  <2>12. PICK pos : /\ Picks(pos, m, Len(Waiting), KeptPlaces(w))
                    /\ Waiting' = [i \in 1..m |-> Waiting[pos[i]]]
    BY <2>5
  <2>6. /\ Len(Waiting) \in Nat /\ Len(Contents) = Len(Waiting)
        /\ \A i \in 1..Len(Waiting) : Contents[i] = Message[Waiting[i]]
    BY <2>1, ContentsValues
  <2>7. KeptPlaces(w) = {i \in 1..Len(Contents) : Contents[i].hwnd \notin Tree(w) \ Part}
    BY <2>6 DEF KeptPlaces
  <2>8. Picks(pos, m, Len(Contents), {i \in 1..Len(Contents) : Contents[i].hwnd \notin Tree(w) \ Part})
    BY <2>12, <2>6, <2>7
  <2>9. Contents' = [i \in 1..m |-> Contents[pos[i]]]
    <3>1. \A i \in 1..m : pos[i] \in 1..Len(Waiting)
      BY <2>12 DEF Picks
    <3>2. DOMAIN Waiting' = 1..m /\ \A i \in 1..m : Waiting'[i] = Waiting[pos[i]]
      BY <2>12
    <3> QED
      BY <2>4, <2>6, <3>1, <3>2 DEF Contents
  <2>10. Abs!Flushed(Tree(w) \ Part)
    BY <2>6, <2>8, <2>9, AbsFlushes
  <2>11. Abs!Destroy
    BY <1>1, <1>2, <1>4, <2>4, <2>10 DEF Abs!Destroy
  <2> QED
    BY <2>3, <2>11 DEF AbsStep, Abs!Next
<1> QED
  BY <1>3, <1>4

LEMMA WindowStep ==
    ASSUME PoolInv, WalkInv, ~Reentrant, NEW w \in Window,
           DestroyWindow(w) \/ CreateWindow(w) \/ EnableWindow(w)
    PROVE  WalkInv' /\ AbsStep
<1>1. CASE DestroyWindow(w)
  BY <1>1, DestroyStep
<1>2. CASE CreateWindow(w)
  <2>1. /\ w \in Window \ (window \cup Part) /\ Parents(w) \subseteq window
        /\ window' = window \cup NewTree(w, window) /\ got' = <<>>
        /\ UNCHANGED <<slots, scans, ready, fault>> /\ UNCHANGED <<posted, disabled>>
    BY <1>2 DEF CreateWindow
  <2>2. WalkInv' /\ Contents' = Contents /\ size' = size
    BY <2>1, WalkStays
  <2>3. NewTree(w, window) = Abs!NewTree(w, window) /\ Parents(w) = Abs!Parents(w)
    BY DEF NewTree, Parents, Abs!NewTree, Abs!Parents
  <2>4. Abs!Create
    BY <2>1, <2>2, <2>3 DEF Abs!Create, Contents
  <2> QED
    BY <2>2, <2>4 DEF AbsStep, Abs!Next
<1>3. CASE EnableWindow(w)
  <2>1. /\ disabled' \in SUBSET Window /\ got' = <<>>
        /\ UNCHANGED <<slots, scans, ready, fault>> /\ UNCHANGED <<posted, window>>
    BY <1>3 DEF EnableWindow, PoolInv, OthersOK
  <2>2. WalkInv' /\ Contents' = Contents /\ size' = size
    BY <2>1, WalkStays
  <2>3. Abs!Enable
    BY <2>1, <2>2 DEF Abs!Enable, Contents
  <2> QED
    BY <2>2, <2>3 DEF AbsStep, Abs!Next
<1> QED
  BY <1>1, <1>2, <1>3

LEMMA ReplaceStep ==
    ASSUME PoolInv, WalkInv, ~Reentrant, NEW n \in 1..QueueSize, SetMessageQueue(n)
    PROVE  WalkInv' /\ AbsStep
<1>1. /\ scans = <<>> /\ ~IsSystemQueue /\ AllocQueue(n) /\ got' = <<>>
      /\ UNCHANGED <<scans, ready, fault, posted, window, disabled>>
  BY DEF SetMessageQueue, CanCall, windows
<1>2. WalkInv'
  BY <1>1 DEF WalkInv
<1>3. SlotsOK' /\ Waiting' = <<>> /\ size' = n
  BY <1>1, FreshPool DEF AllocQueue
<1>4. Contents' = <<>>
  BY <1>3 DEF Contents
<1>5. Abs!Replace
  BY <1>1, <1>3, <1>4 DEF Abs!Replace, Contents
<1> QED
  BY <1>2, <1>5 DEF AbsStep, Abs!Next

(* Every step keeps WalkInv and is a step of MsgQueue, or does not show.    *)
LEMMA EachStep ==
    ASSUME PoolInv, WalkInv, ~Reentrant, [Next]_vars
    PROVE  WalkInv' /\ AbsStep
<1>1. CASE \E p \in Posts : QueueAddMsg(p[1], p[2], p[3])
  BY <1>1, AddStep
<1>2. CASE \E c \in Calls : QueueGetMsg(c)
  BY <1>2, CallStep
<1>3. CASE NoMessage
  BY <1>3, NoMessageStep
<1>4. CASE PurgeDead
  BY <1>4, PurgeStep
<1>5. CASE Examine
  BY <1>5, ExamineStep
<1>6. CASE \E w \in Window \cup {NoWnd} : Forward(w)
  BY <1>6, ForwardStep
<1>7. CASE ForwardEaten
  BY <1>7, EatenStep
<1>8. CASE \E m \in {WM_MOUSE, WM_NCMOUSE} : Forwarded(m)
  BY <1>8, ForwardedStep
<1>9. CASE \E w \in Window : DestroyWindow(w) \/ CreateWindow(w) \/ EnableWindow(w)
  BY <1>9, WindowStep
<1>10. CASE \E n \in 1..QueueSize : SetMessageQueue(n)
  BY <1>10, ReplaceStep
<1>11. CASE UNCHANGED vars
  <2>1. UNCHANGED <<slots, scans, ready, fault>> /\ got' = got
        /\ UNCHANGED <<posted, window, disabled>>
    BY <1>11 DEF vars, slots
  <2>2. WalkInv' /\ Contents' = Contents /\ size' = size
    BY <2>1, WalkStays
  <2>3. UNCHANGED Abs!vars
    BY <2>1, <2>2, AbsStutters
  <2> QED
    BY <2>2, <2>3 DEF AbsStep
<1> QED
  BY <1>1, <1>2, <1>3, <1>4, <1>5, <1>6, <1>7, <1>8, <1>9, <1>10, <1>11 DEF Next

(* When window procedures leave the queue alone, at most one walk is under  *)
(* way; it is at a waiting message or at the end, and has passed over all   *)
(* before it, for good reason (QueueGetMsg).                                *)
THEOREM WalkInvHolds == ~Reentrant => (Spec => []WalkInv)
<1> SUFFICES ASSUME ~Reentrant PROVE Spec => []WalkInv
  OBVIOUS
<1>1. Init => WalkInv
  BY DEF Init, WalkInv
<1>2. PoolInv /\ WalkInv /\ [Next]_vars => WalkInv'
  BY EachStep
<1> QED
  BY <1>1, <1>2, PoolInvHolds, PTL DEF Spec

(* The walk to the message before the one that is taken out finds it: no    *)
(* NULL lpNextMsg is followed (QueueGetMsg's removal).                      *)
THEOREM RemovalsFindTheirSlot == ~Reentrant => (Spec => []RemovedIsQueued)
<1> SUFFICES ASSUME ~Reentrant PROVE Spec => []RemovedIsQueued
  OBVIOUS
<1>1. WalkInv => RemovedIsQueued
  BY DEF WalkInv, RemovedIsQueued
<1> QED
  BY <1>1, WalkInvHolds, PTL

(* lpQueueNext, which the walk fetched before it dealt with a message, is    *)
(* still the slot after it.                                                 *)
THEOREM NextSlotIsFresh == ~Reentrant => (Spec => []CursorIsQueued)
<1> SUFFICES ASSUME ~Reentrant PROVE Spec => []CursorIsQueued
  OBVIOUS
<1>1. PoolInv /\ WalkInv => CursorIsQueued
  <2> SUFFICES ASSUME PoolInv, WalkInv, scans # <<>>, Scan.cur # NULL
               PROVE  \E i \in DOMAIN Waiting :
                         /\ Waiting[i] = Scan.cur
                         /\ Scan.nxt = IF i = Len(Waiting) THEN NULL ELSE Waiting[i + 1]
    BY DEF CursorIsQueued
  <2>1. PICK k \in 1..(Len(Waiting) + 1) : AtWalk(k)
    BY DEF WalkInv
  <2>2. k \in 1..Len(Waiting) /\ Waiting[k] = Scan.cur
    BY <2>1, WalkPlace
  <2>3. DOMAIN Waiting = 1..Len(Waiting) /\ Len(Waiting) \in Nat
    BY ContentsValues DEF PoolInv
  <2>4. Scan.nxt = IF k = Len(Waiting) THEN NULL ELSE Waiting[k + 1]
    <3>1. k + 1 \in 1..Len(Waiting) <=> k # Len(Waiting)
      <4>1. PICK n \in Nat : n = Len(Waiting)
        BY <2>3
      <4>2. k \in 1..n
        BY <2>2, <4>1
      <4>3. k + 1 \in 1..n <=> k # n
        BY <4>2
      <4> QED
        BY <4>1, <4>3
    <3> QED
      BY <2>1, <3>1 DEF AtWalk, At
  <2> QED
    BY <2>2, <2>3, <2>4
<1> QED
  BY <1>1, PoolInvHolds, WalkInvHolds, PTL

(* A walk that ends without a message has woken the owner of every message  *)
(* it left for another task (ReadyTask in QueueGetMsg).                     *)
THEOREM LeftInputWakesItsOwner == ~Reentrant => (Spec => []OwnersWoken)
<1> SUFFICES ASSUME ~Reentrant PROVE Spec => []OwnersWoken
  OBVIOUS
<1>1. PoolInv /\ WalkInv => OwnersWoken
  <2> SUFFICES ASSUME PoolInv, WalkInv, Running, Scan.cur = NULL, NEW i \in DOMAIN Waiting,
                      ~IsMouse(Message[Waiting[i]]), PassesFilter(Message[Waiting[i]], Scan.call),
                      ~Mine(Message[Waiting[i]], Scan.call)
               PROVE  WndTask[Message[Waiting[i]].hwnd] \in ready
    BY DEF OwnersWoken
  <2>1. PICK k \in 1..(Len(Waiting) + 1) : AtWalk(k)
    BY DEF WalkInv, Running
  <2>2. /\ DOMAIN Waiting = 1..Len(Waiting) /\ Len(Waiting) \in Nat
        /\ \A j \in 1..Len(Waiting) : Waiting[j] # NULL
    BY ContentsValues, NextWaiting DEF PoolInv
  <2>3. k \notin 1..Len(Waiting)
    BY <2>1, <2>2 DEF AtWalk, At
  <2>4. i \in 1..(k - 1)
    BY <2>2, <2>3
  <2> QED
    BY <2>1, <2>4 DEF AtWalk, Passed
<1> QED
  BY <1>1, PoolInvHolds, WalkInvHolds, PTL

(* The linked list, read as the sequence of its waiting messages, does what  *)
(* MsgQueue says a message queue does: every QueueAddMsg, QueueGetMsg,      *)
(* DestroyWindow and SetMessageQueue is a step of it, or shows nothing.     *)
THEOREM ListImplementsQueue == ~Reentrant => (Spec => ImplementsMsgQueue)
<1> SUFFICES ASSUME ~Reentrant PROVE Spec => ImplementsMsgQueue
  OBVIOUS
<1>1. Init => Abs!Init
  <2>1. Init => Contents = <<>>
    BY InitPool DEF Contents
  <2> QED
    BY <2>1 DEF Init, Abs!Init, Contents
<1>2. PoolInv /\ WalkInv /\ [Next]_vars => [Abs!Next]_Abs!vars
  BY EachStep DEF AbsStep
<1> QED
  BY <1>1, <1>2, PoolInvHolds, WalkInvHolds, PTL DEF Spec, ImplementsMsgQueue, Abs!Spec
=============================================================================
