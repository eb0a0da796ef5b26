------------------------- MODULE WindowTree_proofs --------------------------
(***************************************************************************)
(* Proofs about WindowTree, for any finite set of windows and any tasks.   *)
(***************************************************************************)
EXTENDS WindowTree, FiniteSetTheorems, Lemmas

-----------------------------------------------------------------------------
(* Sequences without the element at k, and with w after the first j.        *)
Cut(q, k) == [i \in 1..(Len(q) - 1) |-> IF i < k THEN q[i] ELSE q[i + 1]]
Put(q, j, w) ==
    [i \in 1..(Len(q) + 1) |-> IF i <= j THEN q[i] ELSE IF i = j + 1 THEN w ELSE q[i - 1]]

(* x is before y in q. *)
Precedes(q, x, y) == \E i, j \in DOMAIN q : i < j /\ q[i] = x /\ q[j] = y

LEMMA CutSeq ==
    ASSUME NEW S, NEW q \in Seq(S), IsInjective(q), NEW k \in 1..Len(q)
    PROVE  /\ Cut(q, k) \in Seq(S) /\ Len(Cut(q, k)) = Len(q) - 1
           /\ \A i \in 1..(Len(q) - 1) : Cut(q, k)[i] = IF i < k THEN q[i] ELSE q[i + 1]
           /\ IsInjective(Cut(q, k))
           /\ ToSet(Cut(q, k)) = ToSet(q) \ {q[k]}
           /\ \A x, y : Precedes(q, x, y) /\ x # q[k] /\ y # q[k] => Precedes(Cut(q, k), x, y)
<1> DEFINE c == Cut(q, k)
<1>1. Len(q) \in Nat \ {0} /\ Len(q) - 1 \in Nat
  OBVIOUS
<1>2. PICK n \in Nat : n = Len(q) - 1
  BY <1>1
<1>3. c = [i \in 1..n |-> IF i < k THEN q[i] ELSE q[i + 1]]
  BY <1>2 DEF Cut
<1>4. \A i \in 1..n : (IF i < k THEN q[i] ELSE q[i + 1]) \in S
  BY <1>1, <1>2
<1>5. c \in [1..n -> S]
  BY <1>3, <1>4
<1>6. c \in Seq(S) /\ Len(c) = n
  BY <1>5, FcnIsSeq
<1>7. \A i \in 1..n : c[i] = IF i < k THEN q[i] ELSE q[i + 1]
  BY <1>3
<1> HIDE DEF c
<1>8. DOMAIN c = 1..n /\ DOMAIN q = 1..(n + 1) /\ k \in 1..(n + 1)
  BY <1>1, <1>2, <1>5
<1>11. \A j \in DOMAIN c : \E i \in DOMAIN q : i # k /\ c[j] = q[i] /\ i = IF j < k THEN j ELSE j + 1
  <2> TAKE j \in DOMAIN c
  <2>1. CASE j < k
    BY <1>7, <1>8, <2>1
  <2>2. CASE ~(j < k)
    <3>1. j + 1 \in 1..(n + 1) /\ c[j] = q[j + 1]
      BY <1>7, <1>8, <2>2
    <3> QED
      BY <1>8, <2>2, <3>1
  <2> QED
    BY <2>1, <2>2
<1>9. IsInjective(c)
  <2> SUFFICES ASSUME NEW a \in DOMAIN c, NEW b \in DOMAIN c, c[a] = c[b] PROVE a = b
    BY DEF IsInjective
  <2>1. PICK a2 \in DOMAIN q : c[a] = q[a2] /\ a2 = IF a < k THEN a ELSE a + 1
    BY <1>11
  <2>2. PICK b2 \in DOMAIN q : c[b] = q[b2] /\ b2 = IF b < k THEN b ELSE b + 1
    BY <1>11
  <2>3. a2 = b2
    BY <2>1, <2>2 DEF IsInjective
  <2> QED
    BY <1>8, <2>1, <2>2, <2>3
<1>10. \A i \in DOMAIN q : i # k => \E j \in DOMAIN c : c[j] = q[i] /\ j = IF i < k THEN i ELSE i - 1
  <2> TAKE i \in DOMAIN q
  <2> HAVE i # k
  <2>1. CASE i < k
    <3>1. i \in 1..n /\ c[i] = q[i]
      BY <1>7, <1>8, <2>1
    <3> QED
      BY <1>8, <2>1, <3>1
  <2>2. CASE ~(i < k)
    <3>1. i - 1 \in 1..n /\ c[i - 1] = q[i]
      BY <1>7, <1>8, <2>2
    <3> QED
      BY <1>8, <2>2, <3>1
  <2> QED
    BY <2>1, <2>2
<1>12. ToSet(c) = ToSet(q) \ {q[k]}
  BY <1>8, <1>10, <1>11 DEF ToSet, IsInjective
<1>13. \A x, y : Precedes(q, x, y) /\ x # q[k] /\ y # q[k] => Precedes(c, x, y)
  <2> SUFFICES ASSUME NEW x, NEW y, Precedes(q, x, y), x # q[k], y # q[k]
               PROVE  Precedes(c, x, y)
    OBVIOUS
  <2>1. PICK i \in DOMAIN q, j \in DOMAIN q : i < j /\ q[i] = x /\ q[j] = y
    BY DEF Precedes
  <2>2. i # k /\ j # k
    BY <2>1
  <2>3. PICK i2 \in DOMAIN c : c[i2] = x /\ i2 = IF i < k THEN i ELSE i - 1
    BY <1>10, <2>1, <2>2
  <2>4. PICK j2 \in DOMAIN c : c[j2] = y /\ j2 = IF j < k THEN j ELSE j - 1
    BY <1>10, <2>1, <2>2
  <2>5. i2 < j2
    BY <1>8, <2>1, <2>2, <2>3, <2>4
  <2> QED
    BY <2>3, <2>4, <2>5 DEF Precedes
<1> QED
  BY <1>2, <1>6, <1>7, <1>9, <1>12, <1>13 DEF c

LEMMA PutSeq ==
    ASSUME NEW S, NEW q \in Seq(S), IsInjective(q), NEW w \in S, w \notin ToSet(q),
           NEW j \in 0..Len(q)
    PROVE  /\ Put(q, j, w) \in Seq(S) /\ Len(Put(q, j, w)) = Len(q) + 1
           /\ \A i \in 1..(Len(q) + 1) :
                 Put(q, j, w)[i] = IF i <= j THEN q[i] ELSE IF i = j + 1 THEN w ELSE q[i - 1]
           /\ IsInjective(Put(q, j, w))
           /\ ToSet(Put(q, j, w)) = ToSet(q) \cup {w}
           /\ \A x, y : Precedes(q, x, y) => Precedes(Put(q, j, w), x, y)
           /\ \A i \in 1..Len(q) : i > j => Precedes(Put(q, j, w), w, q[i])
<1> DEFINE c == Put(q, j, w)
<1>1. Len(q) \in Nat
  OBVIOUS
<1>2. PICK n \in Nat : n = Len(q) + 1
  BY <1>1
<1>3. c = [i \in 1..n |-> IF i <= j THEN q[i] ELSE IF i = j + 1 THEN w ELSE q[i - 1]]
  BY <1>2 DEF Put
<1>4. \A i \in 1..n : (IF i <= j THEN q[i] ELSE IF i = j + 1 THEN w ELSE q[i - 1]) \in S
  BY <1>1, <1>2
<1>5. c \in [1..n -> S]
  BY <1>3, <1>4
<1>6. c \in Seq(S) /\ Len(c) = n
  BY <1>5, FcnIsSeq
<1>7. \A i \in 1..n : c[i] = IF i <= j THEN q[i] ELSE IF i = j + 1 THEN w ELSE q[i - 1]
  BY <1>3
<1> HIDE DEF c
<1>8. DOMAIN c = 1..n /\ DOMAIN q = 1..(n - 1) /\ j \in 0..(n - 1)
  BY <1>1, <1>2, <1>5
<1>9. \A i \in DOMAIN q : q[i] # w
  BY DEF ToSet
<1>13. \A k \in DOMAIN c : k # j + 1 =>
           \E i \in DOMAIN q : c[k] = q[i] /\ i = IF k <= j THEN k ELSE k - 1
  <2> TAKE k \in DOMAIN c
  <2> HAVE k # j + 1
  <2>1. CASE k <= j
    BY <1>7, <1>8, <2>1
  <2>2. CASE ~(k <= j)
    <3>1. k - 1 \in 1..(n - 1) /\ c[k] = q[k - 1]
      BY <1>7, <1>8, <2>2
    <3> QED
      BY <1>8, <2>2, <3>1
  <2> QED
    BY <2>1, <2>2
<1>12. j + 1 \in DOMAIN c /\ c[j + 1] = w
  BY <1>7, <1>8
<1>10. IsInjective(c)
  <2> SUFFICES ASSUME NEW a \in DOMAIN c, NEW b \in DOMAIN c, c[a] = c[b] PROVE a = b
    BY DEF IsInjective
  <2>1. CASE a # j + 1 /\ b # j + 1
    <3>1. PICK a2 \in DOMAIN q : c[a] = q[a2] /\ a2 = IF a <= j THEN a ELSE a - 1
      BY <1>13, <2>1
    <3>2. PICK b2 \in DOMAIN q : c[b] = q[b2] /\ b2 = IF b <= j THEN b ELSE b - 1
      BY <1>13, <2>1
    <3>3. a2 = b2
      BY <3>1, <3>2 DEF IsInjective
    <3> QED
      BY <1>8, <2>1, <3>1, <3>2, <3>3
  <2>2. CASE a = j + 1 \/ b = j + 1
    BY <1>9, <1>12, <1>13, <2>2
  <2> QED
    BY <2>1, <2>2
<1>11. \A i \in DOMAIN q : \E k \in DOMAIN c : c[k] = q[i] /\ k = IF i <= j THEN i ELSE i + 1
  <2> TAKE i \in DOMAIN q
  <2>1. CASE i <= j
    BY <1>7, <1>8, <2>1
  <2>2. CASE ~(i <= j)
    <3>1. i + 1 \in 1..n /\ c[i + 1] = q[i]
      BY <1>7, <1>8, <2>2
    <3> QED
      BY <1>8, <2>2, <3>1
  <2> QED
    BY <2>1, <2>2
<1>14. ToSet(c) = ToSet(q) \cup {w}
  BY <1>11, <1>12, <1>13 DEF ToSet
<1>15. \A x, y : Precedes(q, x, y) => Precedes(c, x, y)
  <2> SUFFICES ASSUME NEW x, NEW y, Precedes(q, x, y) PROVE Precedes(c, x, y)
    OBVIOUS
  <2>1. PICK a \in DOMAIN q, b \in DOMAIN q : a < b /\ q[a] = x /\ q[b] = y
    BY DEF Precedes
  <2>2. PICK a2 \in DOMAIN c : c[a2] = x /\ a2 = IF a <= j THEN a ELSE a + 1
    BY <1>11, <2>1
  <2>3. PICK b2 \in DOMAIN c : c[b2] = y /\ b2 = IF b <= j THEN b ELSE b + 1
    BY <1>11, <2>1
  <2>4. a2 < b2
    BY <1>8, <2>1, <2>2, <2>3
  <2> QED
    BY <2>2, <2>3, <2>4 DEF Precedes
<1>16. \A i \in 1..Len(q) : i > j => Precedes(c, w, q[i])
  <2> TAKE i \in 1..Len(q)
  <2> HAVE i > j
  <2>1. PICK k \in DOMAIN c : c[k] = q[i] /\ k = i + 1
    BY <1>8, <1>11
  <2>2. j + 1 < k
    BY <1>8, <2>1
  <2> QED
    BY <1>12, <2>1, <2>2 DEF Precedes
<1> QED
  BY <1>2, <1>6, <1>7, <1>10, <1>14, <1>15, <1>16 DEF c

-----------------------------------------------------------------------------
(* The windows that up leads to: the least set with w that is closed.       *)
Leads(up) == \A x \in Win : up[x] \in Handle
ClosedUp(up, S) == \A x \in S : up[x] \in S \cup {None}

LEMMA WinCount == Cardinality(Win) \in Nat /\ IsFiniteSet(Win) /\ None \notin Win
BY FS_CardinalityType, WindowAssumption

LEMMA ReachSteps ==
    ASSUME NEW up, Leads(up), NEW w \in Win
    PROVE  LET at == After(up, None, Cardinality(Win), w)
               C == Cardinality(Win)
           IN /\ at[0] = w
              /\ \A n \in 0..C : at[n] \in Handle
              /\ \A n \in 0..C : n > 0 => at[n] = IF at[n - 1] = None THEN None ELSE up[at[n - 1]]
<1> DEFINE C == Cardinality(Win)
           at == After(up, None, C, w)
           T == {n \in Nat : n <= C => at[n] \in Handle}
<1>1. C \in Nat
  BY WinCount
<1>2. \A n \in 0..C : at[n] = IF n = 0 THEN w ELSE Following(up, None, at[n - 1])
  BY <1>1, AfterValues
<1> HIDE DEF at, C
<1>3. at[0] = w
  BY <1>1, <1>2
<1>4. \A n \in 0..C : n > 0 => at[n] = IF at[n - 1] = None THEN None ELSE up[at[n - 1]]
  BY <1>2 DEF Following
<1>5. 0 \in T
  BY <1>3 DEF Handle
<1>6. ASSUME NEW n \in Nat, n \in T PROVE n + 1 \in T
  <2> SUFFICES ASSUME n + 1 <= C PROVE at[n + 1] \in Handle
    OBVIOUS
  <2>1. at[n] \in Handle
    BY <1>1, <1>6
  <2>2. at[n + 1] = IF at[n] = None THEN None ELSE up[at[n]]
    BY <1>1, <1>4
  <2> QED
    BY <2>1, <2>2 DEF Handle, Leads
<1> HIDE DEF T
<1>7. Nat \subseteq T
  BY <1>5, <1>6, SetInduction
<1>8. \A n \in 0..C : at[n] \in Handle
  BY <1>1, <1>7 DEF T
<1> QED
  BY <1>3, <1>4, <1>8 DEF at, C

LEMMA ReachLeast ==
    ASSUME NEW up, Leads(up), NEW w \in Win
    PROVE  /\ w \in Reach(up, w) /\ Reach(up, w) \subseteq Win
           /\ \A S : w \in S /\ ClosedUp(up, S) => Reach(up, w) \subseteq S
<1> DEFINE C == Cardinality(Win)
           at == After(up, None, C, w)
<1>1. C \in Nat /\ None \notin Win
  BY WinCount
<1>2. /\ at[0] = w
      /\ \A n \in 0..C : at[n] \in Handle
      /\ \A n \in 0..C : n > 0 => at[n] = IF at[n - 1] = None THEN None ELSE up[at[n - 1]]
  BY ReachSteps
<1>3. Reach(up, w) = {at[n] : n \in 0..C} \ {None}
  BY DEF Reach
<1> HIDE DEF at, C
<1>4. w \in Reach(up, w)
  BY <1>1, <1>2, <1>3
<1>5. Reach(up, w) \subseteq Win
  BY <1>2, <1>3 DEF Handle
<1>6. ASSUME NEW S, w \in S, ClosedUp(up, S) PROVE Reach(up, w) \subseteq S
  <2> DEFINE T == {n \in Nat : n <= C => at[n] \in S \cup {None}}
  <2>1. 0 \in T
    BY <1>2, <1>6
  <2>2. ASSUME NEW n \in Nat, n \in T PROVE n + 1 \in T
    <3> SUFFICES ASSUME n + 1 <= C PROVE at[n + 1] \in S \cup {None}
      OBVIOUS
    <3>1. at[n] \in S \cup {None}
      BY <1>1, <2>2
    <3>2. at[n + 1] = IF at[n] = None THEN None ELSE up[at[n]]
      BY <1>1, <1>2
    <3> QED
      BY <1>6, <3>1, <3>2 DEF ClosedUp
  <2> HIDE DEF T
  <2>3. Nat \subseteq T
    BY <2>1, <2>2, SetInduction
  <2>4. \A n \in 0..C : at[n] \in S \cup {None}
    BY <1>1, <2>3 DEF T
  <2> QED
    BY <1>3, <2>4
<1> QED
  BY <1>4, <1>5, <1>6

(* Some place comes again, or the way ends, within as many steps as there    *)
(* are windows.                                                             *)
LEMMA ReachClosed ==
    ASSUME NEW up, Leads(up), NEW w \in Win
    PROVE  ClosedUp(up, Reach(up, w))
<1> DEFINE C == Cardinality(Win)
           at == After(up, None, C, w)
<1>1. C \in Nat /\ None \notin Win /\ IsFiniteSet(Win)
  BY WinCount
<1>2. /\ at[0] = w
      /\ \A n \in 0..C : at[n] \in Handle
      /\ \A n \in 0..C : n > 0 => at[n] = IF at[n - 1] = None THEN None ELSE up[at[n - 1]]
  BY ReachSteps
<1>3. Reach(up, w) = {at[n] : n \in 0..C} \ {None}
  BY DEF Reach
<1> HIDE DEF at, C
<1>4. CASE \E n \in 0..C : at[n] = None
  <2>1. PICK n \in 0..C : at[n] = None
    BY <1>4
  <2> DEFINE T == {m \in Nat : m <= C /\ m >= n => at[m] = None}
  <2>2. 0 \in T
    BY <1>1, <2>1
  <2>3. ASSUME NEW m \in Nat, m \in T PROVE m + 1 \in T
    <3> SUFFICES ASSUME m + 1 <= C, m + 1 >= n PROVE at[m + 1] = None
      OBVIOUS
    <3>1. CASE m + 1 = n
      BY <2>1, <3>1
    <3>2. CASE m + 1 # n
      <4>1. at[m] = None
        BY <1>1, <2>1, <2>3, <3>2
      <4> QED
        BY <1>1, <1>2, <4>1
    <3> QED
      BY <3>1, <3>2
  <2> HIDE DEF T
  <2>4. Nat \subseteq T
    BY <2>2, <2>3, SetInduction
  <2>5. at[C] = None
    BY <1>1, <2>1, <2>4 DEF T
  <2> SUFFICES ASSUME NEW x \in Reach(up, w) PROVE up[x] \in Reach(up, w) \cup {None}
    BY DEF ClosedUp
  <2>6. PICK m \in 0..C : at[m] = x /\ x # None
    BY <1>3
  <2>7. m + 1 \in 0..C
    BY <1>1, <2>5, <2>6
  <2>8. at[m + 1] = up[x]
    BY <1>1, <1>2, <2>6, <2>7
  <2> QED
    BY <1>3, <2>7, <2>8
<1>5. CASE \A n \in 0..C : at[n] # None
  <2> DEFINE f == [n \in 0..C |-> at[n]]
  <2>1. f \in [0..C -> Win]
    BY <1>2, <1>5 DEF Handle
  <2>2. IsFiniteSet(0..C) /\ Cardinality(0..C) = C + 1
    <3>1. IsFiniteSet(0..C) /\ Cardinality(0..C) = IF 0 > C THEN 0 ELSE C - 0 + 1
      BY <1>1, FS_Interval
    <3> QED
      BY <1>1, <3>1
  <2>3. PICK i \in 0..C, j \in 0..C : i # j /\ f[i] = f[j]
    <3>1. Cardinality(Win) < Cardinality(0..C)
      BY <1>1, <2>2 DEF C
    <3> HIDE DEF f
    <3> QED
      BY <1>1, <2>1, <2>2, <3>1, FS_PigeonHole
  <2>4. PICK a \in 0..C, b \in 0..C : a < b /\ at[a] = at[b]
    <3>1. at[i] = at[j]
      BY <2>3
    <3>2. i < j \/ j < i
      BY <2>3
    <3> QED
      BY <3>1, <3>2
  <2> DEFINE S == {at[n] : n \in 0..(b - 1)}
  <2>5. ClosedUp(up, S)
    <3> SUFFICES ASSUME NEW x \in S PROVE up[x] \in S
      BY DEF ClosedUp
    <3>1. PICK m \in 0..(b - 1) : at[m] = x
      OBVIOUS
    <3>2. m + 1 \in 0..C /\ m \in 0..C
      BY <1>1, <2>4, <3>1
    <3>3. at[m + 1] = up[x]
      BY <1>2, <1>5, <3>1, <3>2
    <3>4. CASE m + 1 = b
      <4>1. a \in 0..(b - 1) /\ at[a] = up[x]
        BY <2>4, <3>3, <3>4
      <4> QED
        BY <4>1
    <3>5. CASE m + 1 # b
      <4>1. m + 1 \in 0..(b - 1)
        BY <2>4, <3>1, <3>5
      <4> QED
        BY <3>3, <4>1
    <3> QED
      BY <3>4, <3>5
  <2>6. w \in S
    <3>1. 0 \in 0..(b - 1)
      BY <2>4
    <3> QED
      BY <1>2, <3>1
  <2>7. S \subseteq Reach(up, w)
    <3>1. \A n \in 0..(b - 1) : n \in 0..C
      BY <1>1, <2>4
    <3> QED
      BY <1>3, <1>5, <3>1
  <2>8. Reach(up, w) \subseteq S
    <3> HIDE DEF S
    <3> QED
      BY <2>5, <2>6, ReachLeast
  <2>9. S = Reach(up, w)
    BY <2>7, <2>8
  <2> QED
    BY <2>5, <2>9
<1> QED
  BY <1>4, <1>5

(* Reach one step further up. *)
LEMMA ReachUp ==
    ASSUME NEW up, Leads(up), NEW w \in Win
    PROVE  Reach(up, w) = {w} \cup (IF up[w] = None THEN {} ELSE Reach(up, up[w]))
<1> DEFINE R == {w} \cup (IF up[w] = None THEN {} ELSE Reach(up, up[w]))
<1>1. up[w] \in Handle
  BY DEF Leads
<1>2. up[w] # None => /\ up[w] \in Win /\ up[w] \in Reach(up, up[w])
                      /\ ClosedUp(up, Reach(up, up[w]))
                      /\ \A S : up[w] \in S /\ ClosedUp(up, S) => Reach(up, up[w]) \subseteq S
  BY <1>1, ReachLeast, ReachClosed DEF Handle
<1>3. Reach(up, w) \subseteq R
  <2>1. w \in R /\ ClosedUp(up, R)
    BY <1>2 DEF ClosedUp
  <2> HIDE DEF R
  <2> QED
    BY <2>1, ReachLeast
<1>4. w \in Reach(up, w) /\ ClosedUp(up, Reach(up, w))
  BY ReachLeast, ReachClosed
<1>5. up[w] # None => Reach(up, up[w]) \subseteq Reach(up, w)
  BY <1>2, <1>4 DEF ClosedUp
<1> QED
  BY <1>3, <1>4, <1>5

(* Two ways that agree on S, which both stay in. *)
LEMMA ReachSame ==
    ASSUME NEW up, NEW vp, Leads(up), Leads(vp), NEW S, ClosedUp(up, S),
           \A x \in S : up[x] = vp[x], NEW w \in Win, w \in S
    PROVE  Reach(up, w) = Reach(vp, w)
<1> DEFINE R == Reach(up, w) \cap S
           V == Reach(vp, w) \cap S
<1>1. ClosedUp(vp, S)
  BY DEF ClosedUp
<1>2. w \in Reach(up, w) /\ ClosedUp(up, Reach(up, w)) /\ w \in Reach(vp, w) /\ ClosedUp(vp, Reach(vp, w))
  BY ReachLeast, ReachClosed
<1>3. w \in R /\ ClosedUp(vp, R)
  BY <1>1, <1>2 DEF ClosedUp
<1>4. w \in V /\ ClosedUp(up, V)
  BY <1>1, <1>2 DEF ClosedUp
<1>5. Reach(vp, w) \subseteq R
  <2> HIDE DEF R
  <2> QED
    BY <1>3, ReachLeast
<1>6. Reach(up, w) \subseteq V
  <2> HIDE DEF V
  <2> QED
    BY <1>4, ReachLeast
<1> QED
  BY <1>5, <1>6

-----------------------------------------------------------------------------
(* The lists.  The children of p are q, in this order.                      *)
Trees == [Win \cup {Root} -> Hwnd]
Listed(t, p, q) ==
    /\ q \in Seq(Win) /\ IsInjective(q) /\ p \notin ToSet(q)
    /\ t[p].hWndChild = IF Len(q) = 0 THEN None ELSE q[1]
    /\ \A i \in 1..Len(q) : t[q[i]].hWndSibling = IF i = Len(q) THEN None ELSE q[i + 1]

(* What an operation on the lists leaves alone: the tree, the rings, the     *)
(* links of windows outside S and the head of every list but p's.           *)
TreeKept(t, u) ==
    \A y \in Win \cup {Root} :
       /\ u[y].kind = t[y].kind /\ u[y].hWndParent = t[y].hWndParent
       /\ u[y].hWndOwner = t[y].hWndOwner /\ u[y].group = t[y].group
RingsKept(t, u) ==
    \A y \in Win \cup {Root} :
       u[y].hWndGroup = t[y].hWndGroup /\ u[y].hWndLastChild = t[y].hWndLastChild
LinksKept(t, u, p, S) ==
    \A y \in Win \cup {Root} :
       /\ y \notin S => u[y].hWndSibling = t[y].hWndSibling
       /\ y # p => u[y].hWndChild = t[y].hWndChild

LEMMA ListIsShort ==
    ASSUME NEW q \in Seq(Win), IsInjective(q)
    PROVE  Len(q) <= Cardinality(Win)
<1>1. Cardinality(Win) \in Nat /\ IsFiniteSet(Win) /\ Len(q) \in Nat
  BY WinCount
<1> SUFFICES ASSUME Cardinality(Win) < Len(q) PROVE FALSE
  BY <1>1
<1>2. IsFiniteSet(1..Len(q)) /\ Cardinality(1..Len(q)) = Len(q)
  <2>1. IsFiniteSet(1..Len(q)) /\ Cardinality(1..Len(q)) = IF 1 > Len(q) THEN 0 ELSE Len(q) - 1 + 1
    BY <1>1, FS_Interval
  <2> QED
    BY <1>1, <2>1
<1>3. q \in [1..Len(q) -> Win]
  OBVIOUS
<1>4. PICK i \in 1..Len(q), j \in 1..Len(q) : i # j /\ q[i] = q[j]
  BY <1>1, <1>2, <1>3, FS_PigeonHole
<1> QED
  BY <1>4 DEF IsInjective

LEMMA ListedIsChildren ==
    ASSUME NEW t, NEW p, NEW q, Listed(t, p, q)
    PROVE  Children(t, p) = q
<1> DEFINE next == [x \in Win |-> t[x].hWndSibling]
<1>1. Len(q) <= Cardinality(Win) + 1 /\ Cardinality(Win) + 1 \in Nat /\ None \notin Win
  BY ListIsShort, WinCount DEF Listed
<1>2. \A i \in 1..Len(q) : next[q[i]] = IF i = Len(q) THEN None ELSE q[i + 1]
  BY DEF Listed
<1>3. q \in Seq(Win) /\ t[p].hWndChild = IF Len(q) = 0 THEN None ELSE q[1]
  BY DEF Listed
<1> HIDE DEF next
<1>4. Chain(next, None, Cardinality(Win) + 1, t[p].hWndChild) = q
  BY <1>1, <1>2, <1>3, ChainOfLinks
<1> QED
  BY <1>4 DEF Children, Siblings, next

(* The list from one of its windows on. *)
LEMMA ListedFrom ==
    ASSUME NEW t, NEW p, NEW q, Listed(t, p, q), NEW a \in 1..Len(q)
    PROVE  LET r == Siblings(t, q[a])
               n == Len(q) - a + 1
           IN DOMAIN r = 1..n /\ \A i \in 1..n : r[i] = q[a + i - 1]
<1> DEFINE next == [x \in Win |-> t[x].hWndSibling]
           n == Len(q) - a + 1
           r == [i \in 1..n |-> q[a + i - 1]]
<1>1. Len(q) <= Cardinality(Win) /\ Cardinality(Win) \in Nat /\ None \notin Win
  BY ListIsShort, WinCount DEF Listed
<1>2. \A i \in 1..Len(q) : next[q[i]] = IF i = Len(q) THEN None ELSE q[i + 1]
  BY DEF Listed
<1>3. q \in Seq(Win) /\ Len(q) \in Nat /\ n \in 1..Len(q)
  BY DEF Listed
<1>4. \A i \in 1..n : a + i - 1 \in 1..Len(q)
  BY <1>3
<1>5. r \in [1..n -> Win]
  BY <1>3, <1>4
<1>6. r \in Seq(Win) /\ Len(r) = n
  BY <1>3, <1>5, FcnIsSeq
<1>7. \A i \in 1..n : r[i] = q[a + i - 1]
  OBVIOUS
<1> HIDE DEF next, r
<1>8. \A i \in 1..n : next[r[i]] = IF i = n THEN None ELSE r[i + 1]
  <2> TAKE i \in 1..n
  <2>1. r[i] = q[a + i - 1] /\ a + i - 1 \in 1..Len(q)
    BY <1>4, <1>7
  <2>2. CASE i = n
    BY <1>2, <2>1, <2>2
  <2>3. CASE i # n
    <3>1. i + 1 \in 1..n /\ a + i - 1 # Len(q) /\ a + (i + 1) - 1 = (a + i - 1) + 1
      BY <1>3, <2>3
    <3>2. r[i + 1] = q[(a + i - 1) + 1]
      BY <1>7, <3>1
    <3> QED
      BY <1>2, <2>1, <2>3, <3>1, <3>2
  <2> QED
    BY <2>2, <2>3
<1>9. q[a] = r[1]
  <2>1. 1 \in 1..n /\ a + 1 - 1 = a
    BY <1>3
  <2> QED
    BY <1>7, <2>1
<1>10. n # 0 /\ n <= Cardinality(Win) + 1 /\ Cardinality(Win) + 1 \in Nat
  BY <1>1, <1>3
<1>11. Chain(next, None, Cardinality(Win) + 1, q[a]) = r
  <2>1. q[a] = IF Len(r) = 0 THEN None ELSE r[1]
    BY <1>6, <1>9, <1>10
  <2>2. \A i \in 1..Len(r) : next[r[i]] = IF i = Len(r) THEN None ELSE r[i + 1]
    BY <1>6, <1>8
  <2> HIDE DEF n
  <2> QED
    BY <1>1, <1>6, <1>10, <2>1, <2>2, ChainOfLinks
<1>12. Siblings(t, q[a]) = r /\ DOMAIN r = 1..n
  BY <1>5, <1>11 DEF Siblings, next
<1> QED
  BY <1>7, <1>12

LEMMA NoSiblings ==
    ASSUME NEW t
    PROVE  Siblings(t, None) = << >>
<1> DEFINE next == [x \in Win |-> t[x].hWndSibling]
<1>1. Cardinality(Win) + 1 \in Nat /\ None \notin Win
  BY WinCount
<1>2. PICK e \in Seq(Win) : e = << >> /\ Len(e) = 0
  <2>1. << >> \in Seq(Win) /\ Len(<< >>) = 0
    OBVIOUS
  <2> QED
    BY <2>1
<1> HIDE DEF next
<1>3. Len(e) <= Cardinality(Win) + 1 /\ \A i \in 1..Len(e) : next[e[i]] = IF i = Len(e) THEN None ELSE e[i + 1]
  BY <1>1, <1>2
<1>4. None = IF Len(e) = 0 THEN None ELSE e[1]
  BY <1>2
<1>5. Chain(next, None, Cardinality(Win) + 1, None) = e
  BY <1>1, <1>3, <1>4, ChainOfLinks
<1> QED
  BY <1>2, <1>5 DEF Siblings, next

LEMMA OtherList ==
    ASSUME NEW t, NEW u, NEW p \in Win \cup {Root}, NEW q, Listed(t, p, q),
           NEW p2, p # p2, NEW S, LinksKept(t, u, p2, S), S \cap ToSet(q) = {}
    PROVE  Listed(u, p, q)
<1>1. \A i \in 1..Len(q) : q[i] \in Win /\ q[i] \notin S
  BY DEF Listed, ToSet
<1> QED
  BY <1>1 DEF Listed, LinksKept

-----------------------------------------------------------------------------
(* Taking a window out of its list. *)
Headed(t, p, x) == [t EXCEPT ![p].hWndChild = x]
Followed(t, y, x) == [t EXCEPT ![y].hWndSibling = x]

LEMMA RelinkedValue ==
    ASSUME NEW t \in Trees, NEW p \in Win \cup {Root}, NEW q, Listed(t, p, q),
           NEW k \in 1..Len(q), ListOwner(t, q[k]) = p, NEW x
    PROVE  Relinked(t, q[k], x) = IF k = 1 THEN Headed(t, p, x) ELSE Followed(t, q[k - 1], x)
<1> DEFINE before == {y \in ToSet(Children(t, p)) : t[y].hWndSibling = q[k]}
<1>1. Children(t, p) = q
  BY ListedIsChildren
<1>2. q \in Seq(Win) /\ Len(q) \in Nat /\ None \notin Win /\ IsInjective(q) /\ p \notin ToSet(q)
  BY WinCount DEF Listed
<1>3. CASE k = 1
  <2>1. t[p].hWndChild = q[k]
    BY <1>2, <1>3 DEF Listed
  <2>2. PrevTree(t, q[k]) = p
    BY <2>1 DEF PrevTree
  <2> QED
    BY <1>3, <2>2 DEF Relinked, Headed
<1>4. CASE k # 1
  <2>1. k - 1 \in 1..Len(q)
    BY <1>2, <1>4
  <2>2. t[p].hWndChild # q[k]
    <3>1. t[p].hWndChild = q[1] /\ 1 \in 1..Len(q)
      BY <1>2 DEF Listed
    <3> QED
      BY <1>2, <1>4, <3>1 DEF IsInjective
  <2>3. t[q[k - 1]].hWndSibling = q[k]
    BY <1>2, <2>1 DEF Listed
  <2>4. ASSUME NEW i \in 1..Len(q), t[q[i]].hWndSibling = q[k] PROVE i = k - 1
    <3>1. i # Len(q)
      BY <1>2, <2>4 DEF Listed
    <3>2. i + 1 \in 1..Len(q) /\ q[i + 1] = q[k]
      BY <1>2, <2>4, <3>1 DEF Listed
    <3>3. i + 1 = k
      BY <1>2, <3>2 DEF IsInjective
    <3> QED
      BY <1>2, <3>3
  <2>5. before = {q[k - 1]}
    BY <1>1, <1>2, <2>1, <2>3, <2>4 DEF ToSet
  <2>6. PrevTree(t, q[k]) = q[k - 1]
    BY <2>2, <2>5 DEF PrevTree
  <2>7. q[k - 1] # p
    BY <1>2, <2>1 DEF ToSet
  <2> QED
    BY <1>4, <2>6, <2>7 DEF Relinked, Followed
<1> QED
  BY <1>3, <1>4

LEMMA Unlinked ==
    ASSUME NEW t \in Trees, NEW p \in Win \cup {Root}, NEW q, Listed(t, p, q),
           NEW k \in 1..Len(q), ListOwner(t, q[k]) = p
    PROVE  LET u == Relinked(t, q[k], t[q[k]].hWndSibling)
           IN /\ u \in Trees /\ TreeKept(t, u) /\ RingsKept(t, u)
              /\ LinksKept(t, u, p, ToSet(Cut(q, k)))
              /\ Listed(u, p, Cut(q, k))
<1> DEFINE w == q[k]
           x == t[w].hWndSibling
           u == Relinked(t, w, x)
           c == Cut(q, k)
<1>1. q \in Seq(Win) /\ Len(q) \in Nat /\ None \notin Win /\ IsInjective(q) /\ p \notin ToSet(q)
  BY WinCount DEF Listed
<1>2. /\ c \in Seq(Win) /\ Len(c) = Len(q) - 1 /\ IsInjective(c) /\ ToSet(c) = ToSet(q) \ {w}
      /\ \A i \in 1..(Len(q) - 1) : c[i] = IF i < k THEN q[i] ELSE q[i + 1]
  BY <1>1, CutSeq
<1>3. u = IF k = 1 THEN Headed(t, p, x) ELSE Followed(t, q[k - 1], x)
  <2> HIDE DEF x
  <2>1. Relinked(t, q[k], x) = IF k = 1 THEN Headed(t, p, x) ELSE Followed(t, q[k - 1], x)
    BY RelinkedValue
  <2> QED
    BY <2>1
<1>4. w \in Win /\ x \in Handle
  BY <1>1 DEF Trees, Hwnd
<1>5. x = IF k = Len(q) THEN None ELSE q[k + 1]
  BY DEF Listed
<1>6. k # 1 => k - 1 \in 1..Len(q) /\ q[k - 1] \in Win
  BY <1>1
<1> HIDE DEF c, u, x
<1>7. u \in Trees
  BY <1>3, <1>4, <1>6 DEF Trees, Hwnd, Headed, Followed
<1>8. TreeKept(t, u) /\ RingsKept(t, u)
  BY <1>3, <1>6 DEF Headed, Followed, Trees, TreeKept, RingsKept
<1>9. \A y \in Win \cup {Root} :
        /\ u[y].hWndSibling = IF k # 1 /\ y = q[k - 1] THEN x ELSE t[y].hWndSibling
        /\ u[y].hWndChild = IF k = 1 /\ y = p THEN x ELSE t[y].hWndChild
  BY <1>3, <1>6 DEF Trees, Headed, Followed
<1>10. k # 1 => q[k - 1] \in ToSet(c)
  <2>1. ASSUME k # 1 PROVE q[k - 1] # q[k] /\ q[k - 1] \in ToSet(q)
    BY <1>1, <1>6, <2>1 DEF IsInjective, ToSet
  <2> QED
    BY <1>2, <2>1
<1>11. LinksKept(t, u, p, ToSet(c))
  BY <1>9, <1>10 DEF LinksKept
<1>12. u[p].hWndChild = IF Len(c) = 0 THEN None ELSE c[1]
  <2>1. t[p].hWndChild = q[1]
    BY <1>1 DEF Listed
  <2>2. CASE k = 1
    BY <1>1, <1>2, <1>5, <1>9, <2>2
  <2>3. CASE k # 1
    BY <1>1, <1>2, <1>9, <2>1, <2>3
  <2> QED
    BY <2>2, <2>3
<1>13. ASSUME NEW i \in 1..Len(c) PROVE u[c[i]].hWndSibling = IF i = Len(c) THEN None ELSE c[i + 1]
  <2>1. \A j \in 1..Len(q) : /\ q[j] \in Win
                             /\ t[q[j]].hWndSibling = IF j = Len(q) THEN None ELSE q[j + 1]
                             /\ k # 1 => (q[j] = q[k - 1] <=> j = k - 1)
    BY <1>1, <1>6 DEF Listed, IsInjective
  <2>2. CASE i < k - 1
    <3>1. c[i] = q[i] /\ i \in 1..Len(q) /\ i # k - 1 /\ k # 1
      BY <1>1, <1>2, <2>2
    <3>2. u[c[i]].hWndSibling = t[q[i]].hWndSibling
      BY <1>9, <2>1, <3>1
    <3>3. i # Len(c) /\ i # Len(q) /\ c[i + 1] = q[i + 1]
      BY <1>1, <1>2, <2>2
    <3> QED
      BY <2>1, <3>1, <3>2, <3>3
  <2>3. CASE i = k - 1
    <3>1. i \in 1..Len(q) /\ c[i] = q[k - 1] /\ k # 1 /\ i + 1 \in 1..Len(q)
      BY <1>1, <1>2, <2>3
    <3>2. u[c[i]].hWndSibling = x
      BY <1>6, <1>9, <3>1
    <3>3. i = Len(c) <=> k = Len(q)
      BY <1>1, <1>2, <2>3
    <3>4. i # Len(c) => c[i + 1] = q[k + 1]
      BY <1>1, <1>2, <2>3
    <3> QED
      BY <1>5, <3>2, <3>3, <3>4
  <2>4. CASE i >= k
    <3>1. c[i] = q[i + 1] /\ i + 1 \in 1..Len(q) /\ i + 1 # k - 1
      BY <1>1, <1>2, <2>4
    <3>2. u[c[i]].hWndSibling = t[q[i + 1]].hWndSibling
      BY <1>9, <2>1, <3>1
    <3>3. i # Len(c) => c[i + 1] = q[i + 2]
      BY <1>1, <1>2, <2>4
    <3> QED
      BY <1>1, <1>2, <2>1, <3>1, <3>2, <3>3
  <2> QED
    BY <1>1, <1>2, <2>2, <2>3, <2>4
<1>14. Listed(u, p, c)
  BY <1>1, <1>2, <1>12, <1>13 DEF Listed
<1> QED
  BY <1>7, <1>8, <1>11, <1>14 DEF u, c, x

(* Putting a window into a list, behind the first j. *)
LinkedIn(u, v, p, q, j, w) ==
    /\ \A y \in Win \cup {Root} :
          /\ v[y].hWndSibling =
                IF y = w THEN IF j = Len(q) THEN None ELSE q[j + 1]
                ELSE IF j > 0 /\ y = q[j] THEN w ELSE u[y].hWndSibling
          /\ v[y].hWndChild = IF y = p /\ j = 0 THEN w ELSE u[y].hWndChild

LEMMA Inserted ==
    ASSUME NEW u, NEW v, NEW p \in Win \cup {Root}, NEW q, Listed(u, p, q),
           NEW w \in Win, w \notin ToSet(q), w # p, NEW j \in 0..Len(q),
           LinkedIn(u, v, p, q, j, w)
    PROVE  Listed(v, p, Put(q, j, w)) /\ LinksKept(u, v, p, ToSet(Put(q, j, w)))
<1> DEFINE c == Put(q, j, w)
<1>1. q \in Seq(Win) /\ Len(q) \in Nat /\ None \notin Win /\ IsInjective(q) /\ p \notin ToSet(q)
  BY WinCount DEF Listed
<1>2. /\ c \in Seq(Win) /\ Len(c) = Len(q) + 1 /\ IsInjective(c) /\ ToSet(c) = ToSet(q) \cup {w}
      /\ \A i \in 1..(Len(q) + 1) :
            c[i] = IF i <= j THEN q[i] ELSE IF i = j + 1 THEN w ELSE q[i - 1]
  BY <1>1, PutSeq
<1> HIDE DEF c
<1>3. LinksKept(u, v, p, ToSet(c))
  <2>1. j > 0 => q[j] \in ToSet(q)
    BY <1>1 DEF ToSet
  <2> QED
    BY <1>2, <2>1 DEF LinksKept, LinkedIn
<1>4. v[p].hWndChild = IF Len(c) = 0 THEN None ELSE c[1]
  BY <1>1, <1>2 DEF Listed, LinkedIn
<1>5. \A i \in 1..Len(q) : /\ q[i] \in Win /\ q[i] # w
                           /\ u[q[i]].hWndSibling = IF i = Len(q) THEN None ELSE q[i + 1]
                           /\ j > 0 => (q[i] = q[j] <=> i = j)
  BY <1>1 DEF Listed, IsInjective, ToSet
<1>6. ASSUME NEW i \in 1..Len(c) PROVE v[c[i]].hWndSibling = IF i = Len(c) THEN None ELSE c[i + 1]
  <2>1. CASE i < j
    <3>1. c[i] = q[i] /\ c[i + 1] = q[i + 1] /\ i \in 1..Len(q) /\ i # Len(q) /\ i # Len(c)
      BY <1>1, <1>2, <2>1
    <3>2. v[c[i]].hWndSibling = u[q[i]].hWndSibling
      BY <1>5, <2>1, <3>1 DEF LinkedIn
    <3> QED
      BY <1>5, <3>1, <3>2
  <2>2. CASE i = j
    <3>1. c[i] = q[j] /\ c[i + 1] = w /\ i \in 1..Len(q) /\ i # Len(c) /\ j > 0
      BY <1>1, <1>2, <2>2
    <3>2. v[c[i]].hWndSibling = w
      BY <1>5, <2>2, <3>1 DEF LinkedIn
    <3> QED
      BY <3>1, <3>2
  <2>3. CASE i = j + 1
    <3>1. c[i] = w /\ (i = Len(c) <=> j = Len(q)) /\ (i # Len(c) => c[i + 1] = q[j + 1])
      BY <1>1, <1>2, <2>3
    <3>2. v[w].hWndSibling = IF j = Len(q) THEN None ELSE q[j + 1]
      BY DEF LinkedIn
    <3> QED
      BY <3>1, <3>2
  <2>4. CASE i > j + 1
    <3>1. c[i] = q[i - 1] /\ i - 1 \in 1..Len(q) /\ i - 1 # j
      BY <1>1, <1>2, <2>4
    <3>2. (i = Len(c) <=> i - 1 = Len(q)) /\ (i # Len(c) => c[i + 1] = q[i])
      BY <1>1, <1>2, <2>4
    <3>3. v[c[i]].hWndSibling = u[q[i - 1]].hWndSibling
      BY <1>5, <3>1 DEF LinkedIn
    <3>4. u[q[i - 1]].hWndSibling = IF i - 1 = Len(q) THEN None ELSE q[i]
      BY <1>1, <1>5, <3>1
    <3> QED
      BY <3>2, <3>3, <3>4
  <2> QED
    BY <1>1, <1>2, <2>1, <2>2, <2>3, <2>4
<1>7. Listed(v, p, c)
  BY <1>1, <1>2, <1>4, <1>6 DEF Listed
<1> QED
  BY <1>3, <1>7 DEF c

-----------------------------------------------------------------------------
(* All lists and rings; A are the windows that are in them.                 *)
Owners(t) == Live(t) \cup {Root}
ListedAll(t, A, p, q) == Listed(t, p, q) /\ ToSet(q) = {x \in A : ListOwner(t, x) = p}
HasLists(t, A) ==
    /\ A \subseteq Win /\ \A x \in A : ListOwner(t, x) \in Owners(t)
    /\ \A p \in Owners(t) : ListedAll(t, A, p, Children(t, p))
HasRings(t, A) ==
    /\ A \subseteq Win
    /\ \A x \in A : t[x].hWndGroup \in A /\ ListOwner(t, t[x].hWndGroup) = ListOwner(t, x)
    /\ \A x \in A : \E y \in A : t[y].hWndGroup = x
    /\ \A x \in A, y \in A : t[x].hWndGroup = t[y].hWndGroup => x = y
    /\ \A p \in Owners(t) : t[p].hWndLastChild # None =>
          t[p].hWndLastChild \in A /\ ListOwner(t, t[p].hWndLastChild) = p

(* x is before y in a list. *)
Above(t, x, y) == \E p \in Owners(t) : Precedes(Children(t, p), x, y)

LEMMA TreeFacts ==
    ASSUME NEW t \in Trees
    PROVE  /\ Live(t) \subseteq Win /\ TopLevel(t) \subseteq Live(t)
           /\ \A x \in Live(t) : t[x].kind # "free"
           /\ None \notin Win /\ Root \notin Win /\ Root # None
           /\ Owners(t) \subseteq Win \cup {Root}
           /\ Leads(Parents(t)) /\ Leads(Keepers(t))
           /\ \A x \in Win : /\ ListOwner(t, x) \in Handle \cup {Root}
                             /\ t[x].hWndParent \in Handle /\ t[x].hWndOwner \in Handle
                             /\ t[x].hWndGroup \in Handle /\ t[x].hWndSibling \in Handle
           /\ \A x \in Win \cup {Root} : t[x].hWndChild \in Handle /\ t[x].hWndLastChild \in Handle
<1>1. None \notin Win /\ Root \notin Win /\ Root # None
  BY WindowAssumption
<1>2. \A x \in Win \cup {Root} :
        /\ t[x].hWndParent \in Handle /\ t[x].hWndOwner \in Handle
        /\ t[x].hWndGroup \in Handle /\ t[x].hWndSibling \in Handle
        /\ t[x].hWndChild \in Handle /\ t[x].hWndLastChild \in Handle
  BY DEF Trees, Hwnd
<1>3. DOMAIN t = Win \cup {Root} /\ None \in Handle
  BY DEF Trees, Handle
<1>4. Leads(Parents(t)) /\ Leads(Keepers(t))
  BY <1>2, <1>3 DEF Leads, Parents, Keepers
<1>5. Live(t) \subseteq Win /\ TopLevel(t) \subseteq Live(t) /\ \A x \in Live(t) : t[x].kind # "free"
  BY DEF Live, TopLevel, IsWindow
<1>6. \A x \in Win : ListOwner(t, x) \in Handle \cup {Root}
  BY <1>2 DEF ListOwner
<1> QED
  BY <1>1, <1>2, <1>4, <1>5, <1>6 DEF Owners

LEMMA KeptTree ==
    ASSUME NEW t \in Trees, NEW u \in Trees, TreeKept(t, u)
    PROVE  /\ Live(u) = Live(t) /\ TopLevel(u) = TopLevel(t) /\ Owners(u) = Owners(t)
           /\ \A x \in Win : ListOwner(u, x) = ListOwner(t, x) /\ IsWindow(u, x) = IsWindow(t, x)
           /\ \A x \in Win \cup {Root} : IsChildStyle(u, x) = IsChildStyle(t, x)
           /\ Parents(u) = Parents(t) /\ Keepers(u) = Keepers(t)
           /\ \A x : Ancestors(u, x) = Ancestors(t, x) /\ Subtree(u, x) = Subtree(t, x)
           /\ \A x : Doomed(u, x) = Doomed(t, x)
<1>1. \A x \in Win \cup {Root} : IsChildStyle(u, x) = IsChildStyle(t, x)
  BY DEF TreeKept, IsChildStyle
<1>2. \A x : IsWindow(u, x) = IsWindow(t, x)
  BY DEF TreeKept, IsWindow
<1>3. \A x \in Win : ListOwner(u, x) = ListOwner(t, x)
  BY <1>1 DEF TreeKept, ListOwner
<1>4. Live(u) = Live(t)
  BY <1>2 DEF Live
<1>5. TopLevel(u) = TopLevel(t)
  BY <1>1, <1>4 DEF TopLevel, Live
<1>6. DOMAIN u = DOMAIN t /\ DOMAIN t = Win \cup {Root}
  BY DEF Trees
<1>7. Parents(u) = Parents(t)
  BY <1>1, <1>6 DEF Parents, TreeKept
<1>8. Keepers(u) = Keepers(t)
  BY <1>1 DEF Keepers, TreeKept
<1>9. \A x : Ancestors(u, x) = Ancestors(t, x)
  BY <1>7 DEF Ancestors
<1>10. \A x : Subtree(u, x) = Subtree(t, x)
  BY <1>4, <1>9 DEF Subtree
<1>11. \A x : Doomed(u, x) = Doomed(t, x)
  BY <1>4, <1>8 DEF Doomed
<1> QED
  BY <1>1, <1>2, <1>3, <1>4, <1>5, <1>7, <1>8, <1>9, <1>10, <1>11 DEF Owners

LEMMA KeptTwice ==
    ASSUME NEW t, NEW u, NEW v
    PROVE  /\ TreeKept(t, u) /\ TreeKept(u, v) => TreeKept(t, v)
           /\ RingsKept(t, u) /\ RingsKept(u, v) => RingsKept(t, v)
           /\ TreeKept(t, t) /\ RingsKept(t, t)
           /\ \A p, S : LinksKept(t, u, p, S) /\ LinksKept(u, v, p, S) => LinksKept(t, v, p, S)
           /\ \A p, S, T : LinksKept(t, u, p, S) /\ S \subseteq T => LinksKept(t, u, p, T)
<1>1. TreeKept(t, u) /\ TreeKept(u, v) => TreeKept(t, v)
  BY DEF TreeKept
<1>2. RingsKept(t, u) /\ RingsKept(u, v) => RingsKept(t, v)
  BY DEF RingsKept
<1>3. TreeKept(t, t) /\ RingsKept(t, t)
  BY DEF TreeKept, RingsKept
<1>4. \A p, S : LinksKept(t, u, p, S) /\ LinksKept(u, v, p, S) => LinksKept(t, v, p, S)
  BY DEF LinksKept
<1>5. \A p, S, T : LinksKept(t, u, p, S) /\ S \subseteq T => LinksKept(t, u, p, T)
  BY DEF LinksKept
<1> QED
  BY <1>1, <1>2, <1>3, <1>4, <1>5

(* One list becomes r; the others stay. *)
Placed(t, B) == B \subseteq Win /\ \A x \in B : ListOwner(t, x) \in Owners(t)
SameBut(t, A, B, p) == \A x \in Win : ListOwner(t, x) # p => (x \in A <=> x \in B)
AllIn(t, S, p) == \A x \in S : ListOwner(t, x) = p

LEMMA ListChanged ==
    ASSUME NEW t \in Trees, NEW u \in Trees, TreeKept(t, u), NEW A, HasLists(t, A),
           NEW p \in Owners(t), NEW B, Placed(t, B), SameBut(t, A, B, p),
           NEW r, ListedAll(u, B, p, r), NEW S, LinksKept(t, u, p, S), AllIn(t, S, p)
    PROVE  /\ HasLists(u, B) /\ Children(u, p) = r
           /\ \A p2 \in Owners(t) \ {p} : Children(u, p2) = Children(t, p2)
<1>1. /\ Owners(u) = Owners(t) /\ Owners(t) \subseteq Win \cup {Root}
      /\ \A x \in Win : ListOwner(u, x) = ListOwner(t, x)
  BY KeptTree, TreeFacts
<1>2. Children(u, p) = r
  BY ListedIsChildren DEF ListedAll
<1>3. ASSUME NEW p2 \in Owners(t) \ {p}
      PROVE  Children(u, p2) = Children(t, p2) /\ ListedAll(u, B, p2, Children(u, p2))
  <2> DEFINE q == Children(t, p2)
  <2>1. ListedAll(t, A, p2, q)
    BY DEF HasLists
  <2> HIDE DEF q
  <2>2. S \cap ToSet(q) = {}
    BY <1>3, <2>1 DEF ListedAll, AllIn
  <2>3. Listed(u, p2, q)
    BY <1>1, <2>1, <2>2, OtherList DEF ListedAll
  <2>4. Children(u, p2) = q
    BY <2>3, ListedIsChildren
  <2>5. {x \in A : ListOwner(t, x) = p2} = {x \in B : ListOwner(u, x) = p2}
    BY <1>1, <1>3 DEF HasLists, SameBut, Placed
  <2> QED
    BY <2>1, <2>3, <2>4, <2>5 DEF ListedAll, q
<1>4. HasLists(u, B)
  BY <1>1, <1>2, <1>3 DEF HasLists, Placed
<1> QED
  BY <1>2, <1>3, <1>4

(* Rings are a matter of the windows in them, their owners and their links. *)
LEMMA RingsUntouched ==
    ASSUME NEW t \in Trees, NEW u \in Trees, TreeKept(t, u), RingsKept(t, u), NEW A, HasRings(t, A)
    PROVE  HasRings(u, A)
<1>1. /\ Owners(u) = Owners(t) /\ Owners(t) \subseteq Win \cup {Root}
      /\ \A x \in Win : ListOwner(u, x) = ListOwner(t, x)
  BY KeptTree, TreeFacts
<1>2. A \subseteq Win
  BY DEF HasRings
<1>3. \A y \in Win \cup {Root} :
         u[y].hWndGroup = t[y].hWndGroup /\ u[y].hWndLastChild = t[y].hWndLastChild
  BY DEF RingsKept
<1>4. \A x \in A : u[x].hWndGroup \in A /\ ListOwner(u, u[x].hWndGroup) = ListOwner(u, x)
  BY <1>1, <1>2, <1>3 DEF HasRings
<1>5. \A x \in A : \E y \in A : u[y].hWndGroup = x
  BY <1>2, <1>3 DEF HasRings
<1>6. \A x \in A, y \in A : u[x].hWndGroup = u[y].hWndGroup => x = y
  BY <1>2, <1>3 DEF HasRings
<1>7. \A p \in Owners(u) : u[p].hWndLastChild # None =>
          u[p].hWndLastChild \in A /\ ListOwner(u, u[p].hWndLastChild) = p
  BY <1>1, <1>2, <1>3 DEF HasRings
<1> QED
  BY <1>2, <1>4, <1>5, <1>6, <1>7 DEF HasRings

(* The place of a window in its list. *)
LEMMA PlaceInList ==
    ASSUME NEW t \in Trees, NEW A, HasLists(t, A), NEW w \in A
    PROVE  LET p == ListOwner(t, w)
               q == Children(t, p)
           IN /\ p \in Owners(t) /\ Listed(t, p, q) /\ p # w
              /\ ToSet(q) = {x \in A : ListOwner(t, x) = p}
              /\ \E k \in 1..Len(q) : q[k] = w
<1> DEFINE p == ListOwner(t, w)
           q == Children(t, p)
<1>1. p \in Owners(t)
  BY DEF HasLists
<1>2. ListedAll(t, A, p, q)
  BY <1>1 DEF HasLists
<1>3. w \in ToSet(q)
  BY <1>2 DEF ListedAll
<1>4. q \in Seq(Win) /\ p \notin ToSet(q)
  BY <1>2 DEF ListedAll, Listed
<1>5. DOMAIN q = 1..Len(q)
  BY <1>4
<1>6. PICK k \in DOMAIN q : q[k] = w
  BY <1>3 DEF ToSet
<1> QED
  BY <1>1, <1>2, <1>3, <1>4, <1>5, <1>6 DEF ListedAll

(* u is t without w, the k-th in the list q of p. *)
IsUnlinked(t, A, w, p, q, k, u) ==
    /\ u \in Trees /\ TreeKept(t, u) /\ RingsKept(t, u)
    /\ HasLists(u, A \ {w}) /\ Children(u, p) = Cut(q, k)
    /\ LinksKept(t, u, p, ToSet(Cut(q, k)))
    /\ \A p2 \in Owners(t) \ {p} : Children(u, p2) = Children(t, p2)
    /\ Cut(q, k) \in Seq(Win) /\ Len(Cut(q, k)) = Len(q) - 1
    /\ ToSet(Cut(q, k)) = ToSet(q) \ {w}
    /\ \A x, y : Above(t, x, y) /\ x # w /\ y # w => Above(u, x, y)

LEMMA UnlinkedAll ==
    ASSUME NEW t \in Trees, NEW A, HasLists(t, A), NEW w \in A,
           NEW k \in 1..Len(Children(t, ListOwner(t, w))), Children(t, ListOwner(t, w))[k] = w
    PROVE  IsUnlinked(t, A, w, ListOwner(t, w), Children(t, ListOwner(t, w)), k,
                      Relinked(t, w, t[w].hWndSibling))
<1> DEFINE p == ListOwner(t, w)
           q == Children(t, p)
           u == Relinked(t, w, t[w].hWndSibling)
           c == Cut(q, k)
<1>1. p \in Owners(t) /\ Listed(t, p, q) /\ ToSet(q) = {x \in A : ListOwner(t, x) = p}
  BY PlaceInList
<1>2. Owners(t) \subseteq Win \cup {Root}
  BY TreeFacts
<1> HIDE DEF q, p
<1>3. /\ Relinked(t, q[k], t[q[k]].hWndSibling) \in Trees
      /\ TreeKept(t, Relinked(t, q[k], t[q[k]].hWndSibling))
      /\ RingsKept(t, Relinked(t, q[k], t[q[k]].hWndSibling))
      /\ LinksKept(t, Relinked(t, q[k], t[q[k]].hWndSibling), p, ToSet(c))
      /\ Listed(Relinked(t, q[k], t[q[k]].hWndSibling), p, c)
  <2>1. k \in 1..Len(q) /\ ListOwner(t, q[k]) = p
    BY DEF p, q
  <2> QED
    BY <1>1, <1>2, <2>1, Unlinked
<1>4. q[k] = w
  BY DEF p, q
<1>5. u \in Trees /\ TreeKept(t, u) /\ RingsKept(t, u) /\ LinksKept(t, u, p, ToSet(c)) /\ Listed(u, p, c)
  BY <1>3, <1>4
<1>6. /\ c \in Seq(Win) /\ Len(c) = Len(q) - 1 /\ ToSet(c) = ToSet(q) \ {w}
      /\ \A x, y : Precedes(q, x, y) /\ x # w /\ y # w => Precedes(c, x, y)
  <2>1. q \in Seq(Win) /\ IsInjective(q) /\ k \in 1..Len(q)
    BY <1>1 DEF Listed, p, q
  <2> QED
    BY <1>4, <2>1, CutSeq
<1> HIDE DEF u, c
<1>7. /\ Owners(u) = Owners(t) /\ \A x \in Win : ListOwner(u, x) = ListOwner(t, x)
  BY <1>5, KeptTree
<1>8. A \subseteq Win
  BY DEF HasLists
<1>9. ListedAll(u, A \ {w}, p, c)
  BY <1>1, <1>5, <1>6, <1>7, <1>8 DEF ListedAll
<1>10. /\ HasLists(u, A \ {w}) /\ Children(u, p) = c
       /\ \A p2 \in Owners(t) \ {p} : Children(u, p2) = Children(t, p2)
  <2>1. Placed(t, A \ {w})
    BY <1>8 DEF HasLists, Placed
  <2>2. AllIn(t, ToSet(c), p)
    BY <1>1, <1>6 DEF AllIn
  <2>3. SameBut(t, A, A \ {w}, p)
    BY DEF p, SameBut
  <2> QED
    BY <1>1, <1>5, <1>9, <2>1, <2>2, <2>3, ListChanged
<1>11. \A x, y : Above(t, x, y) /\ x # w /\ y # w => Above(u, x, y)
  <2> SUFFICES ASSUME NEW x, NEW y, Above(t, x, y), x # w, y # w PROVE Above(u, x, y)
    OBVIOUS
  <2>1. PICK p2 \in Owners(t) : Precedes(Children(t, p2), x, y)
    BY DEF Above
  <2>2. CASE p2 = p
    BY <1>1, <1>6, <1>7, <1>10, <2>1, <2>2 DEF Above, q
  <2>3. CASE p2 # p
    BY <1>7, <1>10, <2>1, <2>3 DEF Above
  <2> QED
    BY <2>2, <2>3
<1> QED
  BY <1>5, <1>6, <1>10, <1>11 DEF u, c, q, p, IsUnlinked

(* Putting a window into the list of its owner. *)
LEMMA InsertedAll ==
    ASSUME NEW u \in Trees, NEW v \in Trees, TreeKept(u, v), NEW A, HasLists(u, A),
           NEW w \in Win, w \notin A, ListOwner(u, w) \in Owners(u), ListOwner(u, w) # w,
           NEW j \in 0..Len(Children(u, ListOwner(u, w))),
           LinkedIn(u, v, ListOwner(u, w), Children(u, ListOwner(u, w)), j, w)
    PROVE  LET p == ListOwner(u, w)
               q == Children(u, p)
           IN /\ HasLists(v, A \cup {w})
              /\ \A x, y : Above(u, x, y) => Above(v, x, y)
              /\ \A i \in 1..Len(q) : i > j => Above(v, w, q[i])
<1> DEFINE p == ListOwner(u, w)
           q == Children(u, p)
           c == Put(q, j, w)
<1>1. Owners(u) \subseteq Win \cup {Root} /\ A \subseteq Win
  BY TreeFacts DEF HasLists
<1>2. ListedAll(u, A, p, q)
  BY DEF HasLists
<1>3. p \in Owners(u) /\ p # w /\ LinkedIn(u, v, p, q, j, w) /\ j \in 0..Len(q)
  OBVIOUS
<1> HIDE DEF q
<1>4. Listed(u, p, q) /\ w \notin ToSet(q) /\ q \in Seq(Win) /\ IsInjective(q)
  BY <1>2 DEF ListedAll, Listed
<1>5. Listed(v, p, c) /\ LinksKept(u, v, p, ToSet(c))
  <2> HIDE DEF p
  <2> QED
    BY <1>1, <1>3, <1>4, Inserted
<1>6. /\ ToSet(c) = ToSet(q) \cup {w}
      /\ \A x, y : Precedes(q, x, y) => Precedes(c, x, y)
      /\ \A i \in 1..Len(q) : i > j => Precedes(c, w, q[i])
  BY <1>3, <1>4, PutSeq
<1>7. /\ Owners(u) = Owners(v) /\ \A x \in Win : ListOwner(u, x) = ListOwner(v, x)
  BY KeptTree
<1> HIDE DEF c
<1>8. ListedAll(v, A \cup {w}, p, c)
  BY <1>1, <1>2, <1>5, <1>6, <1>7 DEF ListedAll
<1>9. /\ HasLists(v, A \cup {w}) /\ Children(v, p) = c
      /\ \A p2 \in Owners(u) \ {p} : Children(v, p2) = Children(u, p2)
  <2>1. Placed(u, A \cup {w})
    BY <1>1, <1>3 DEF HasLists, Placed
  <2>2. AllIn(u, ToSet(c), p)
    BY <1>2, <1>6 DEF ListedAll, AllIn
  <2>3. SameBut(u, A, A \cup {w}, p)
    BY DEF SameBut
  <2> HIDE DEF p
  <2> QED
    BY <1>3, <1>5, <1>8, <2>1, <2>2, <2>3, ListChanged
<1>10. \A x, y : Above(u, x, y) => Above(v, x, y)
  <2> SUFFICES ASSUME NEW x, NEW y, Above(u, x, y) PROVE Above(v, x, y)
    OBVIOUS
  <2>1. PICK p2 \in Owners(u) : Precedes(Children(u, p2), x, y)
    BY DEF Above
  <2>2. CASE p2 = p
    BY <1>6, <1>7, <1>9, <2>1, <2>2 DEF Above, q
  <2>3. CASE p2 # p
    BY <1>7, <1>9, <2>1, <2>3 DEF Above
  <2> QED
    BY <2>2, <2>3
<1>11. \A i \in 1..Len(q) : i > j => Above(v, w, q[i])
  BY <1>3, <1>6, <1>7, <1>9 DEF Above
<1> QED
  BY <1>9, <1>10, <1>11 DEF q, p

(* Taking a window out of its list and putting it back behind the first j of *)
(* the others.                                                              *)
LEMMA Moved ==
    ASSUME NEW t \in Trees, NEW A, HasLists(t, A), HasRings(t, A), NEW w \in A,
           NEW k \in 1..Len(Children(t, ListOwner(t, w))), Children(t, ListOwner(t, w))[k] = w,
           NEW v \in Trees,
           TreeKept(Relinked(t, w, t[w].hWndSibling), v), RingsKept(Relinked(t, w, t[w].hWndSibling), v),
           NEW j \in 0..(Len(Children(t, ListOwner(t, w))) - 1),
           LinkedIn(Relinked(t, w, t[w].hWndSibling), v, ListOwner(t, w),
                    Cut(Children(t, ListOwner(t, w)), k), j, w)
    PROVE  /\ TreeKept(t, v) /\ RingsKept(t, v) /\ HasLists(v, A) /\ HasRings(v, A)
           /\ \A x, y : Above(t, x, y) /\ x # w /\ y # w => Above(v, x, y)
           /\ j < k => \A y : Above(t, w, y) => Above(v, w, y)
<1> DEFINE p == ListOwner(t, w)
           q == Children(t, p)
           u == Relinked(t, w, t[w].hWndSibling)
           c == Cut(q, k)
<1>1. /\ u \in Trees /\ TreeKept(t, u) /\ RingsKept(t, u)
      /\ HasLists(u, A \ {w}) /\ Children(u, p) = c
      /\ Len(c) = Len(q) - 1
      /\ \A p2 \in Owners(t) \ {p} : Children(u, p2) = Children(t, p2)
      /\ \A x, y : Above(t, x, y) /\ x # w /\ y # w => Above(u, x, y)
  <2>1. IsUnlinked(t, A, w, p, q, k, u)
    BY UnlinkedAll
  <2> QED
    BY <2>1 DEF IsUnlinked
<1>2. A \subseteq Win /\ w \in Win
  BY DEF HasLists
<1>3. p \in Owners(t) /\ p # w /\ Listed(t, p, q) /\ k \in 1..Len(q) /\ q[k] = w
  BY PlaceInList
<1>4. TreeKept(u, v) /\ RingsKept(u, v) /\ LinkedIn(u, v, p, c, j, w) /\ j \in 0..(Len(q) - 1)
  OBVIOUS
<1> HIDE DEF u, c, q
<1>5. ListOwner(u, w) = p /\ Owners(u) = Owners(t)
  BY <1>1, <1>2, KeptTree
<1>6. /\ HasLists(v, (A \ {w}) \cup {w})
      /\ \A x, y : Above(u, x, y) => Above(v, x, y)
      /\ \A i \in 1..Len(c) : i > j => Above(v, w, c[i])
  <2>1. j \in 0..Len(c)
    BY <1>1, <1>4
  <2> HIDE DEF p
  <2>2. ListOwner(u, w) \in Owners(u) /\ ListOwner(u, w) # w /\ Children(u, ListOwner(u, w)) = c
    BY <1>1, <1>3, <1>5
  <2>3. j \in 0..Len(Children(u, ListOwner(u, w)))
        /\ LinkedIn(u, v, ListOwner(u, w), Children(u, ListOwner(u, w)), j, w)
    BY <1>4, <1>5, <2>1, <2>2
  <2>4. w \notin A \ {w}
    OBVIOUS
  <2>5. /\ HasLists(v, (A \ {w}) \cup {w})
        /\ \A x, y : Above(u, x, y) => Above(v, x, y)
        /\ \A i \in 1..Len(Children(u, ListOwner(u, w))) :
              i > j => Above(v, w, Children(u, ListOwner(u, w))[i])
    BY <1>1, <1>2, <1>4, <2>2, <2>3, <2>4, InsertedAll
  <2> QED
    BY <2>2, <2>5
<1>7. (A \ {w}) \cup {w} = A
  OBVIOUS
<1>8. TreeKept(t, v) /\ RingsKept(t, v)
  BY <1>1, <1>4, KeptTwice
<1>9. HasRings(v, A)
  BY <1>8, RingsUntouched
<1>10. ASSUME j < k, NEW y, Above(t, w, y) PROVE Above(v, w, y)
  <2>1. PICK p2 \in Owners(t) : Precedes(Children(t, p2), w, y)
    BY <1>10 DEF Above
  <2>2. PICK a \in DOMAIN Children(t, p2), b \in DOMAIN Children(t, p2) :
           a < b /\ Children(t, p2)[a] = w /\ Children(t, p2)[b] = y
    BY <2>1 DEF Precedes
  <2>3. p2 = p
    <3>1. w \in ToSet(Children(t, p2))
      BY <2>2 DEF ToSet
    <3> QED
      BY <3>1 DEF HasLists, ListedAll
  <2>4. q \in Seq(Win) /\ IsInjective(q) /\ DOMAIN q = 1..Len(q)
    BY <1>3 DEF Listed
  <2>5. a \in 1..Len(q) /\ b \in 1..Len(q) /\ q[a] = w /\ q[b] = y
    BY <2>2, <2>3, <2>4 DEF q
  <2>6. a = k
    BY <1>3, <2>4, <2>5 DEF IsInjective
  <2>7. b - 1 \in 1..Len(c) /\ b - 1 > j /\ c[b - 1] = y
    <3>1. b - 1 \in 1..(Len(q) - 1) /\ b - 1 > j /\ ~(b - 1 < k)
      BY <1>3, <1>10, <2>2, <2>5, <2>6
    <3>2. c[b - 1] = q[(b - 1) + 1]
      BY <1>3, <2>4, <3>1, CutSeq DEF c
    <3> QED
      BY <1>1, <2>5, <3>1, <3>2
  <2> QED
    BY <1>6, <2>7
<1> QED
  BY <1>1, <1>6, <1>7, <1>8, <1>9, <1>10

LEMMA RemoveKeepsLists ==
    ASSUME NEW t \in Trees, HasLists(t, Live(t)), HasRings(t, Live(t)), NEW w \in Live(t)
    PROVE  LET v == RemoveFromList(t, w)
           IN /\ v \in Trees /\ TreeKept(t, v)
              /\ HasLists(v, Live(t) \ {w}) /\ HasRings(v, Live(t) \ {w})
              /\ v[w].hWndGroup \in Live(t) /\ ListOwner(t, v[w].hWndGroup) = ListOwner(t, w)
              /\ \A x, y : Above(t, x, y) /\ x # w /\ y # w => Above(v, x, y)
<1> DEFINE A == Live(t)
           B == A \ {w}
           p == ListOwner(t, w)
           q == Children(t, p)
           prev == PrevGroup(t, w)
           nxt == t[w].hWndGroup
           u == Relinked(t, w, t[w].hWndSibling)
           v == RemoveFromList(t, w)
<1>1. p \in Owners(t) /\ p # w /\ \E k \in 1..Len(q) : q[k] = w
  BY PlaceInList
<1>2. PICK k \in 1..Len(q) : q[k] = w
  BY <1>1
<1>3. IsUnlinked(t, A, w, p, q, k, u)
  BY <1>2, UnlinkedAll
<1>4. /\ u \in Trees /\ TreeKept(t, u) /\ RingsKept(t, u) /\ HasLists(u, B)
      /\ \A x, y : Above(t, x, y) /\ x # w /\ y # w => Above(u, x, y)
  BY <1>3 DEF IsUnlinked
<1>5. /\ A \subseteq Win /\ w \in Win /\ None \notin Win
      /\ Owners(t) \subseteq Win \cup {Root} /\ A \subseteq Owners(t)
  BY TreeFacts DEF Owners
<1>6. prev \in A /\ t[prev].hWndGroup = w
  <2>1. \E x \in A : t[x].hWndGroup = w
    BY DEF HasRings
  <2> QED
    BY <2>1 DEF PrevGroup
<1>7. nxt \in A /\ ListOwner(t, nxt) = p /\ ListOwner(t, prev) = p
  BY <1>6 DEF HasRings
<1>8. v = LET x == IF prev = w THEN u ELSE [u EXCEPT ![prev].hWndGroup = nxt]
          IN IF t[p].hWndLastChild = w
             THEN [x EXCEPT ![p].hWndLastChild = IF prev = w THEN None ELSE prev] ELSE x
  BY DEF RemoveFromList
<1> HIDE DEF u, v, prev, nxt, q, p
<1>9. \A y \in Win \cup {Root} :
         /\ v[y].hWndGroup = IF y = prev /\ prev # w THEN nxt ELSE u[y].hWndGroup
         /\ v[y].hWndLastChild = IF y = p /\ t[p].hWndLastChild = w
                                 THEN IF prev = w THEN None ELSE prev ELSE u[y].hWndLastChild
         /\ v[y].kind = u[y].kind /\ v[y].hWndParent = u[y].hWndParent
         /\ v[y].hWndOwner = u[y].hWndOwner /\ v[y].group = u[y].group
         /\ v[y].hWndSibling = u[y].hWndSibling /\ v[y].hWndChild = u[y].hWndChild
  <2> DEFINE x == IF prev = w THEN u ELSE [u EXCEPT ![prev].hWndGroup = nxt]
             last == IF prev = w THEN None ELSE prev
  <2>1. v = IF t[p].hWndLastChild = w THEN [x EXCEPT ![p].hWndLastChild = last] ELSE x
    BY <1>8
  <2>2. u \in Trees /\ prev \in Win \cup {Root} /\ p \in Win \cup {Root} /\ nxt \in Handle
    BY <1>1, <1>4, <1>5, <1>6, <1>7 DEF Handle
  <2>3. x \in Trees
    BY <2>2 DEF Trees, Hwnd
  <2>4. \A y \in Win \cup {Root} :
         /\ x[y].hWndGroup = IF y = prev /\ prev # w THEN nxt ELSE u[y].hWndGroup
         /\ x[y].hWndLastChild = u[y].hWndLastChild
         /\ x[y].kind = u[y].kind /\ x[y].hWndParent = u[y].hWndParent
         /\ x[y].hWndOwner = u[y].hWndOwner /\ x[y].group = u[y].group
         /\ x[y].hWndSibling = u[y].hWndSibling /\ x[y].hWndChild = u[y].hWndChild
    BY <2>2 DEF Trees
  <2> HIDE DEF x, last
  <2>5. \A y \in Win \cup {Root} :
         /\ v[y].hWndGroup = x[y].hWndGroup
         /\ v[y].hWndLastChild = IF y = p /\ t[p].hWndLastChild = w THEN last ELSE x[y].hWndLastChild
         /\ v[y].kind = x[y].kind /\ v[y].hWndParent = x[y].hWndParent
         /\ v[y].hWndOwner = x[y].hWndOwner /\ v[y].group = x[y].group
         /\ v[y].hWndSibling = x[y].hWndSibling /\ v[y].hWndChild = x[y].hWndChild
    BY <2>1, <2>2, <2>3 DEF Trees
  <2> QED
    BY <2>4, <2>5 DEF last
<1>10. v \in Trees
  <2>1. prev \in Win \cup {Root} /\ p \in Win \cup {Root} /\ nxt \in Handle
        /\ (IF prev = w THEN None ELSE prev) \in Handle
    BY <1>1, <1>5, <1>6, <1>7 DEF Handle
  <2> DEFINE x == IF prev = w THEN u ELSE [u EXCEPT ![prev].hWndGroup = nxt]
  <2>2. x \in Trees
    BY <1>4, <2>1 DEF Trees, Hwnd
  <2>3. v = IF t[p].hWndLastChild = w
            THEN [x EXCEPT ![p].hWndLastChild = IF prev = w THEN None ELSE prev] ELSE x
    BY <1>8
  <2> HIDE DEF x
  <2> QED
    BY <2>1, <2>2, <2>3 DEF Trees, Hwnd
<1>11. TreeKept(u, v) /\ TreeKept(t, v)
  <2>1. TreeKept(u, v)
    BY <1>9 DEF TreeKept
  <2> QED
    BY <1>4, <2>1, KeptTwice
<1>12. /\ Owners(v) = Owners(t) /\ Owners(u) = Owners(t)
       /\ \A x \in Win : ListOwner(v, x) = ListOwner(t, x) /\ ListOwner(u, x) = ListOwner(t, x)
  BY <1>4, <1>10, <1>11, KeptTree
<1>13. HasLists(v, B) /\ \A p2 \in Owners(t) : Children(v, p2) = Children(u, p2)
  <2>1. ASSUME NEW p2 \in Owners(t)
        PROVE  ListedAll(v, B, p2, Children(v, p2)) /\ Children(v, p2) = Children(u, p2)
    <3>1. ListedAll(u, B, p2, Children(u, p2))
      BY <1>4, <1>12 DEF HasLists
    <3> DEFINE r == Children(u, p2)
    <3> HIDE DEF r
    <3>2. \A i \in 1..Len(r) : r[i] \in Win
      BY <3>1 DEF ListedAll, Listed, r
    <3>3. Listed(v, p2, r)
      BY <1>5, <1>9, <3>1, <3>2 DEF ListedAll, Listed, r
    <3>4. Children(v, p2) = r
      BY <3>3, ListedIsChildren
    <3>5. {x \in B : ListOwner(v, x) = p2} = {x \in B : ListOwner(u, x) = p2}
      BY <1>5, <1>12
    <3> QED
      BY <3>1, <3>3, <3>4, <3>5 DEF ListedAll, r
  <2>2. B \subseteq Win /\ \A x \in B : ListOwner(v, x) \in Owners(v)
    BY <1>4, <1>5, <1>12 DEF HasLists
  <2> QED
    BY <1>12, <2>1, <2>2 DEF HasLists
<1>14. \A y \in Win \cup {Root} :
         /\ v[y].hWndGroup = IF y = prev /\ prev # w THEN nxt ELSE t[y].hWndGroup
         /\ v[y].hWndLastChild = IF y = p /\ t[p].hWndLastChild = w
                                 THEN IF prev = w THEN None ELSE prev ELSE t[y].hWndLastChild
  BY <1>4, <1>9 DEF RingsKept
<1>15. /\ \A x \in A : t[x].hWndGroup \in A /\ ListOwner(t, t[x].hWndGroup) = ListOwner(t, x)
       /\ \A x \in A : \E y \in A : t[y].hWndGroup = x
       /\ \A x \in A, y \in A : t[x].hWndGroup = t[y].hWndGroup => x = y
       /\ \A p2 \in Owners(t) : t[p2].hWndLastChild # None =>
             t[p2].hWndLastChild \in A /\ ListOwner(t, t[p2].hWndLastChild) = p2
  BY DEF HasRings
<1>16. prev # w => nxt # w
  BY <1>6, <1>15 DEF nxt
<1>17. HasRings(v, B)
  <2>1. \A x \in B : v[x].hWndGroup \in B /\ ListOwner(v, v[x].hWndGroup) = ListOwner(v, x)
    <3> SUFFICES ASSUME NEW x \in B
                 PROVE  v[x].hWndGroup \in B /\ ListOwner(v, v[x].hWndGroup) = ListOwner(v, x)
      OBVIOUS
    <3>1. CASE x = prev /\ prev # w
      BY <1>5, <1>7, <1>12, <1>14, <1>16, <3>1
    <3>2. CASE ~(x = prev /\ prev # w)
      <4>1. v[x].hWndGroup = t[x].hWndGroup
        BY <1>5, <1>14, <3>2
      <4>2. t[x].hWndGroup # w
        BY <1>6, <1>15, <3>2
      <4> QED
        BY <1>5, <1>12, <1>15, <4>1, <4>2
    <3> QED
      BY <3>1, <3>2
  <2>2. \A x \in B : \E y \in B : v[y].hWndGroup = x
    <3> SUFFICES ASSUME NEW x \in B PROVE \E y \in B : v[y].hWndGroup = x
      OBVIOUS
    <3>1. PICK y \in A : t[y].hWndGroup = x
      BY <1>15
    <3>2. CASE y = w
      <4>1. nxt = x /\ prev # w
        BY <1>6, <3>1, <3>2 DEF nxt
      <4>2. prev \in B /\ v[prev].hWndGroup = x
        BY <1>5, <1>6, <1>14, <4>1
      <4> QED
        BY <4>2
    <3>3. CASE y # w
      <4>1. y # prev
        BY <1>6, <3>1
      <4>2. v[y].hWndGroup = x
        BY <1>5, <1>14, <3>1, <4>1
      <4> QED
        BY <3>3, <4>2
    <3> QED
      BY <3>2, <3>3
  <2>3. \A x \in B, y \in B : v[x].hWndGroup = v[y].hWndGroup => x = y
    <3>1. \A x \in B : x # prev => v[x].hWndGroup = t[x].hWndGroup /\ t[x].hWndGroup # nxt
      BY <1>5, <1>14, <1>15 DEF nxt
    <3>2. prev \in B => v[prev].hWndGroup = nxt
      BY <1>5, <1>14
    <3> QED
      BY <1>15, <3>1, <3>2
  <2>4. \A p2 \in Owners(v) : v[p2].hWndLastChild # None =>
             v[p2].hWndLastChild \in B /\ ListOwner(v, v[p2].hWndLastChild) = p2
    <3> SUFFICES ASSUME NEW p2 \in Owners(t), v[p2].hWndLastChild # None
                 PROVE  v[p2].hWndLastChild \in B /\ ListOwner(t, v[p2].hWndLastChild) = p2
      BY <1>5, <1>12
    <3>1. CASE p2 = p /\ t[p].hWndLastChild = w
      BY <1>5, <1>6, <1>7, <1>14, <3>1
    <3>2. CASE ~(p2 = p /\ t[p].hWndLastChild = w)
      <4>1. v[p2].hWndLastChild = t[p2].hWndLastChild
        BY <1>5, <1>14, <3>2
      <4>2. t[p2].hWndLastChild \in A /\ ListOwner(t, t[p2].hWndLastChild) = p2
        BY <1>15, <4>1
      <4>3. t[p2].hWndLastChild # w
        BY <3>2, <4>2 DEF p
      <4> QED
        BY <4>1, <4>2, <4>3
    <3> QED
      BY <3>1, <3>2
  <2> QED
    BY <1>5, <2>1, <2>2, <2>3, <2>4 DEF HasRings
<1>18. v[w].hWndGroup \in A /\ ListOwner(t, v[w].hWndGroup) = p
  <2>1. v[w].hWndGroup = t[w].hWndGroup
    BY <1>5, <1>14
  <2> QED
    BY <1>7, <2>1 DEF nxt
<1>19. \A x, y : Above(t, x, y) /\ x # w /\ y # w => Above(v, x, y)
  BY <1>4, <1>12, <1>13 DEF Above
<1> QED
  BY <1>10, <1>11, <1>13, <1>17, <1>18, <1>19 DEF v, p

-----------------------------------------------------------------------------
(* ChangeZOrder. *)
Restacked(t, A, v) ==
    /\ v \in Trees /\ TreeKept(t, v) /\ RingsKept(t, v)
    /\ HasLists(v, A) /\ HasRings(v, A)

LEMMA FollowedFacts ==
    ASSUME NEW t \in Trees, NEW y \in Win \cup {Root}, NEW x \in Handle
    PROVE  /\ Followed(t, y, x) \in Trees
           /\ TreeKept(t, Followed(t, y, x)) /\ RingsKept(t, Followed(t, y, x))
           /\ \A z \in Win \cup {Root} :
                 /\ Followed(t, y, x)[z].hWndSibling = IF z = y THEN x ELSE t[z].hWndSibling
                 /\ Followed(t, y, x)[z].hWndChild = t[z].hWndChild
<1> DEFINE u == Followed(t, y, x)
<1>1. u \in Trees
  BY DEF Followed, Trees, Hwnd
<1>2. TreeKept(t, u) /\ RingsKept(t, u)
  BY DEF Followed, Trees, TreeKept, RingsKept
<1>3. \A z \in Win \cup {Root} :
         /\ u[z].hWndSibling = IF z = y THEN x ELSE t[z].hWndSibling
         /\ u[z].hWndChild = t[z].hWndChild
  BY DEF Followed, Trees
<1> QED
  BY <1>1, <1>2, <1>3

LEMMA HeadedFacts ==
    ASSUME NEW t \in Trees, NEW y \in Win \cup {Root}, NEW x \in Handle
    PROVE  /\ Headed(t, y, x) \in Trees
           /\ TreeKept(t, Headed(t, y, x)) /\ RingsKept(t, Headed(t, y, x))
           /\ \A z \in Win \cup {Root} :
                 /\ Headed(t, y, x)[z].hWndChild = IF z = y THEN x ELSE t[z].hWndChild
                 /\ Headed(t, y, x)[z].hWndSibling = t[z].hWndSibling
<1> DEFINE u == Headed(t, y, x)
<1>1. u \in Trees
  BY DEF Headed, Trees, Hwnd
<1>2. TreeKept(t, u) /\ RingsKept(t, u)
  BY DEF Headed, Trees, TreeKept, RingsKept
<1>3. \A z \in Win \cup {Root} :
         /\ u[z].hWndChild = IF z = y THEN x ELSE t[z].hWndChild
         /\ u[z].hWndSibling = t[z].hWndSibling
  BY DEF Headed, Trees
<1> QED
  BY <1>1, <1>2, <1>3

LEMMA NotRestacked ==
    ASSUME NEW t \in Trees, NEW A, HasLists(t, A), HasRings(t, A)
    PROVE  Restacked(t, A, t)
BY KeptTwice DEF Restacked

(* A window that is raised passes others and is passed by none.             *)
LEMMA TopKeeps ==
    ASSUME NEW t \in Trees, NEW A, HasLists(t, A), HasRings(t, A), NEW w \in A, NEW cs
    PROVE  Restacked(t, A, Top(t, w, cs)) /\ \A x, y : Above(t, x, y) /\ y # w => Above(Top(t, w, cs), x, y)
<1> DEFINE p == ListOwner(t, w)
           list == Children(t, p)
           own(x) == x # w /\ t[x].kind = "popup" /\ t[x].hWndOwner # None
                     /\ TopLevelAncestor(t, t[x].hWndOwner) = w
           P == {i \in DOMAIN list : ~own(list[i])}
           q == FirstAt(list, P)
           u == Relinked(t, w, t[w].hWndSibling)
           v == Top(t, w, cs)
<1>1. p \in Owners(t) /\ p # w /\ Listed(t, p, list) /\ \E k \in 1..Len(list) : list[k] = w
  BY PlaceInList
<1>2. PICK k \in 1..Len(list) : list[k] = w
  BY <1>1
<1>3. IsUnlinked(t, A, w, p, list, k, u)
  BY <1>2, UnlinkedAll
<1>4. /\ A \subseteq Win /\ w \in Win /\ None \notin Win /\ Owners(t) \subseteq Win \cup {Root}
  BY TreeFacts DEF HasLists
<1>5. list \in Seq(Win) /\ Len(list) \in Nat /\ DOMAIN list = 1..Len(list) /\ IsInjective(list)
  BY <1>1 DEF Listed
<1>6. k \in P
  BY <1>2, <1>5
<1>7. Min(P) \in P /\ Min(P) <= k
  <2>1. P \in SUBSET Nat
    BY <1>5
  <2> HIDE DEF P
  <2> QED
    BY <1>6, <2>1, MinOfNats
<1> DEFINE f == Min(P)
<1>8. f \in 1..Len(list) /\ f <= k /\ q = list[f]
  BY <1>5, <1>7 DEF FirstAt
<1>9. v = IF Head(list) = w \/ (~IsChildStyle(t, w) /\ q = w) THEN t
          ELSE IF ~IsChildStyle(t, w) /\ q # Head(list) /\ ~Hidden(cs, q)
          THEN [u EXCEPT ![q].hWndSibling = w, ![w].hWndSibling = u[q].hWndSibling]
          ELSE [u EXCEPT ![p].hWndChild = w, ![w].hWndSibling = Head(list)]
  BY DEF Top
<1> DEFINE c == Cut(list, k)
<1>10. /\ u \in Trees /\ TreeKept(t, u) /\ RingsKept(t, u) /\ Listed(u, p, c)
       /\ c \in Seq(Win) /\ Len(c) = Len(list) - 1
       /\ \A i \in 1..(Len(list) - 1) : c[i] = IF i < k THEN list[i] ELSE list[i + 1]
  <2>1. u \in Trees /\ TreeKept(t, u) /\ RingsKept(t, u) /\ Children(u, p) = c
        /\ c \in Seq(Win) /\ Len(c) = Len(list) - 1 /\ HasLists(u, A \ {w})
    BY <1>3 DEF IsUnlinked
  <2>2. Owners(u) = Owners(t)
    BY <2>1, KeptTree
  <2>3. Listed(u, p, c)
    BY <1>1, <2>1, <2>2 DEF HasLists, ListedAll
  <2>4. \A i \in 1..(Len(list) - 1) : c[i] = IF i < k THEN list[i] ELSE list[i + 1]
    BY <1>5, CutSeq
  <2> QED
    BY <2>1, <2>3, <2>4
<1>11. Head(list) = list[1]
  BY <1>2, <1>5
<1> DEFINE Result == Restacked(t, A, v) /\ \A x, y : Above(t, x, y) /\ y # w => Above(v, x, y)
<1> SUFFICES Result
  OBVIOUS
<1>12. ASSUME v \in Trees, TreeKept(u, v), RingsKept(u, v), NEW j \in 0..(k - 1), LinkedIn(u, v, p, c, j, w)
       PROVE  Result
  <2>1. j \in 0..(Len(list) - 1) /\ j < k
    BY <1>2, <1>5, <1>12
  <2> HIDE DEF v
  <2>2. /\ TreeKept(t, v) /\ RingsKept(t, v) /\ HasLists(v, A) /\ HasRings(v, A)
        /\ \A x, y : Above(t, x, y) /\ x # w /\ y # w => Above(v, x, y)
        /\ j < k => \A y : Above(t, w, y) => Above(v, w, y)
    BY <1>2, <1>12, <2>1, Moved
  <2> QED
    BY <1>12, <2>1, <2>2 DEF Restacked
<1> HIDE DEF v, u, c, q, f, p, list
<1>13. CASE Head(list) = w \/ (~IsChildStyle(t, w) /\ q = w)
  <2>1. v = t
    BY <1>9, <1>13
  <2> QED
    BY <2>1, NotRestacked
<1>14. CASE /\ ~(Head(list) = w \/ (~IsChildStyle(t, w) /\ q = w))
            /\ ~IsChildStyle(t, w) /\ q # Head(list) /\ ~Hidden(cs, q)
  <2> DEFINE s == u[q].hWndSibling
  <2>1. v = Followed(Followed(u, q, w), w, s)
    BY <1>9, <1>14 DEF Followed
  <2>2. q # w /\ q \in Win /\ w \in Win /\ f # k /\ f < k /\ f > 0
    BY <1>2, <1>4, <1>5, <1>8, <1>14
  <2>3. c[f] = q /\ f \in 1..Len(c)
    BY <1>2, <1>5, <1>8, <1>10, <2>2
  <2> DEFINE m == Followed(u, q, w)
  <2>10. s \in Handle /\ w \in Handle
    BY <1>10, <2>2 DEF Trees, Hwnd, Handle
  <2>11. /\ m \in Trees /\ TreeKept(u, m) /\ RingsKept(u, m)
         /\ \A z \in Win \cup {Root} : /\ m[z].hWndSibling = IF z = q THEN w ELSE u[z].hWndSibling
                                      /\ m[z].hWndChild = u[z].hWndChild
    BY <1>10, <2>2, <2>10, FollowedFacts
  <2> HIDE DEF s, m
  <2>12. /\ v \in Trees /\ TreeKept(m, v) /\ RingsKept(m, v)
         /\ \A z \in Win \cup {Root} : /\ v[z].hWndSibling = IF z = w THEN s ELSE m[z].hWndSibling
                                      /\ v[z].hWndChild = m[z].hWndChild
    <3>1. v = Followed(m, w, s)
      BY <2>1 DEF m
    <3> QED
      BY <2>2, <2>10, <2>11, <3>1, FollowedFacts
  <2>4. \A y \in Win \cup {Root} :
          /\ v[y].hWndSibling = IF y = w THEN u[q].hWndSibling ELSE IF y = q THEN w ELSE u[y].hWndSibling
          /\ v[y].hWndChild = u[y].hWndChild
    BY <2>11, <2>12 DEF s
  <2>5. v \in Trees
    BY <2>12
  <2>6. TreeKept(u, v) /\ RingsKept(u, v)
    BY <2>11, <2>12, KeptTwice
  <2>7. u[q].hWndSibling = IF f = Len(c) THEN None ELSE c[f + 1]
    BY <1>10, <2>3 DEF Listed
  <2>8. LinkedIn(u, v, p, c, f, w)
    BY <2>2, <2>3, <2>4, <2>7 DEF LinkedIn
  <2>9. f \in 0..(k - 1)
    BY <1>8, <2>2
  <2> QED
    BY <1>12, <2>5, <2>6, <2>8, <2>9
<1>15. CASE /\ ~(Head(list) = w \/ (~IsChildStyle(t, w) /\ q = w))
            /\ ~(~IsChildStyle(t, w) /\ q # Head(list) /\ ~Hidden(cs, q))
  <2> DEFINE s == Head(list)
             m == Headed(u, p, w)
  <2>1. v = Followed(Headed(u, p, w), w, s)
    BY <1>9, <1>15 DEF Followed, Headed
  <2>2. k # 1 /\ p \in Win \cup {Root} /\ Head(list) \in Win
    BY <1>1, <1>2, <1>4, <1>5, <1>11, <1>15
  <2>3. Len(c) # 0 /\ c[1] = Head(list)
    BY <1>2, <1>5, <1>10, <1>11, <2>2
  <2>10. s \in Handle /\ w \in Handle /\ w \in Win
    BY <1>4, <2>2 DEF Handle
  <2>11. /\ m \in Trees /\ TreeKept(u, m) /\ RingsKept(u, m)
         /\ \A z \in Win \cup {Root} : /\ m[z].hWndChild = IF z = p THEN w ELSE u[z].hWndChild
                                      /\ m[z].hWndSibling = u[z].hWndSibling
    BY <1>10, <2>2, <2>10, HeadedFacts
  <2> HIDE DEF s, m
  <2>12. /\ v \in Trees /\ TreeKept(m, v) /\ RingsKept(m, v)
         /\ \A z \in Win \cup {Root} : /\ v[z].hWndSibling = IF z = w THEN s ELSE m[z].hWndSibling
                                      /\ v[z].hWndChild = m[z].hWndChild
    <3>1. v = Followed(m, w, s)
      BY <2>1 DEF m
    <3> QED
      BY <2>10, <2>11, <3>1, FollowedFacts
  <2>4. \A y \in Win \cup {Root} :
          /\ v[y].hWndSibling = IF y = w THEN Head(list) ELSE u[y].hWndSibling
          /\ v[y].hWndChild = IF y = p THEN w ELSE u[y].hWndChild
    BY <2>11, <2>12 DEF s
  <2>5. v \in Trees
    BY <2>12
  <2>6. TreeKept(u, v) /\ RingsKept(u, v)
    BY <2>11, <2>12, KeptTwice
  <2>7. LinkedIn(u, v, p, c, 0, w)
    BY <2>3, <2>4 DEF LinkedIn
  <2>8. 0 \in 0..(k - 1)
    BY <1>2
  <2> QED
    BY <1>12, <2>5, <2>6, <2>7, <2>8
<1> QED
  BY <1>13, <1>14, <1>15

LEMMA BottomKeeps ==
    ASSUME NEW t \in Trees, HasLists(t, Live(t)), HasRings(t, Live(t)), NEW w \in Live(t)
    PROVE  Restacked(t, Live(t), Bottom(t, w))
<1> DEFINE A == Live(t)
           p == ListOwner(t, w)
           list == Children(t, p)
           r == Relinked(t, w, t[w].hWndSibling)
           u == [r EXCEPT ![w].hWndSibling = None]
           v == Bottom(t, w)
<1>1. p \in Owners(t) /\ p # w /\ Listed(t, p, list) /\ \E k \in 1..Len(list) : list[k] = w
  BY PlaceInList
<1>2. PICK k \in 1..Len(list) : list[k] = w
  BY <1>1
<1>3. IsUnlinked(t, A, w, p, list, k, r)
  BY <1>2, UnlinkedAll
<1>4. A \subseteq Win /\ w \in Win /\ None \notin Win
  BY TreeFacts
<1>5. list \in Seq(Win) /\ Len(list) \in Nat \ {0} /\ IsInjective(list) /\ Last(list) = list[Len(list)]
  BY <1>1, <1>2 DEF Listed, Last
<1> DEFINE c == Cut(list, k)
<1>6. /\ r \in Trees /\ c \in Seq(Win) /\ Len(c) = Len(list) - 1
      /\ \A i \in 1..(Len(list) - 1) : c[i] = IF i < k THEN list[i] ELSE list[i + 1]
  BY <1>2, <1>3, <1>5, CutSeq DEF IsUnlinked
<1>7. v = IF Last(list) = w THEN t ELSE [u EXCEPT ![Last(list)].hWndSibling = w]
  BY DEF Bottom
<1>8. CASE Last(list) = w
  BY <1>7, <1>8, NotRestacked
<1>9. CASE Last(list) # w
  <2> HIDE DEF c, r
  <2> DEFINE l == Last(list)
             n == Len(c)
  <2>1. l \in Win /\ n \in Nat \ {0} /\ c[n] = l /\ k # Len(list)
    BY <1>2, <1>5, <1>6, <1>9
  <2>2. u = Followed(r, w, None) /\ v = Followed(u, l, w)
    BY <1>7, <1>9 DEF Followed
  <2> HIDE DEF l, n, v, u
  <2>10. None \in Handle /\ w \in Handle
    BY <1>4 DEF Handle
  <2>11. /\ u \in Trees /\ TreeKept(r, u) /\ RingsKept(r, u)
         /\ \A z \in Win \cup {Root} : /\ u[z].hWndSibling = IF z = w THEN None ELSE r[z].hWndSibling
                                      /\ u[z].hWndChild = r[z].hWndChild
    BY <1>4, <1>6, <2>2, <2>10, FollowedFacts
  <2>12. /\ v \in Trees /\ TreeKept(u, v) /\ RingsKept(u, v)
         /\ \A z \in Win \cup {Root} : /\ v[z].hWndSibling = IF z = l THEN w ELSE u[z].hWndSibling
                                      /\ v[z].hWndChild = u[z].hWndChild
    BY <2>1, <2>2, <2>10, <2>11, FollowedFacts
  <2>3. \A y \in Win \cup {Root} :
          /\ v[y].hWndSibling = IF y = w THEN None ELSE IF y = l THEN w ELSE r[y].hWndSibling
          /\ v[y].hWndChild = r[y].hWndChild
    BY <1>9, <2>11, <2>12 DEF l
  <2>4. v \in Trees
    BY <2>12
  <2>5. TreeKept(r, v) /\ RingsKept(r, v)
    BY <2>11, <2>12, KeptTwice
  <2>6. LinkedIn(r, v, p, c, n, w)
    BY <1>9, <2>1, <2>3 DEF LinkedIn, n, l
  <2>7. n \in 0..(Len(list) - 1)
    BY <1>6, <2>1 DEF n
  <2>8. TreeKept(t, v) /\ RingsKept(t, v) /\ HasLists(v, A) /\ HasRings(v, A)
    BY <1>2, <2>4, <2>5, <2>6, <2>7, Moved DEF r, c
  <2> QED
    BY <2>4, <2>8 DEF Restacked, v
<1> QED
  BY <1>8, <1>9

LEMMA BehindKeeps ==
    ASSUME NEW t \in Trees, HasLists(t, Live(t)), HasRings(t, Live(t)), NEW w \in Live(t),
           NEW x \in ToSet(Children(t, ListOwner(t, w))) \ {w}
    PROVE  Restacked(t, Live(t), Behind(t, w, x))
<1> DEFINE A == Live(t)
           p == ListOwner(t, w)
           list == Children(t, p)
           u == Relinked(t, w, t[w].hWndSibling)
           v == Behind(t, w, x)
<1>1. p \in Owners(t) /\ p # w /\ Listed(t, p, list) /\ \E k \in 1..Len(list) : list[k] = w
  BY PlaceInList
<1>2. PICK k \in 1..Len(list) : list[k] = w
  BY <1>1
<1>3. IsUnlinked(t, A, w, p, list, k, u)
  BY <1>2, UnlinkedAll
<1>4. A \subseteq Win /\ w \in Win /\ None \notin Win
  BY TreeFacts
<1> DEFINE c == Cut(list, k)
<1>5. /\ u \in Trees /\ c \in Seq(Win) /\ Len(c) = Len(list) - 1 /\ ToSet(c) = ToSet(list) \ {w}
      /\ Listed(u, p, c)
  <2>1. u \in Trees /\ TreeKept(t, u) /\ Children(u, p) = c /\ HasLists(u, A \ {w})
        /\ c \in Seq(Win) /\ Len(c) = Len(list) - 1 /\ ToSet(c) = ToSet(list) \ {w}
    BY <1>3 DEF IsUnlinked
  <2>2. Owners(u) = Owners(t)
    BY <2>1, KeptTree
  <2>3. Listed(u, p, c)
    BY <1>1, <2>1, <2>2 DEF HasLists, ListedAll
  <2> QED
    BY <2>1, <2>3
<1>6. x \in ToSet(list) \ {w}
  OBVIOUS
<1> DEFINE s == u[x].hWndSibling
           m == Followed(u, w, s)
<1>7. v = Followed(m, x, w)
  BY DEF Behind, Followed
<1> HIDE DEF u, c, v, list, m
<1>8. PICK j \in 1..Len(c) : c[j] = x
  BY <1>5, <1>6 DEF ToSet
<1>9. x \in Win /\ x # w
  BY <1>5, <1>6, <1>8
<1>10. u[x].hWndSibling = IF j = Len(c) THEN None ELSE c[j + 1]
  BY <1>5, <1>8 DEF Listed
<1>17. s \in Handle /\ w \in Handle
  BY <1>4, <1>5, <1>9 DEF Trees, Hwnd, Handle
<1>18. /\ m \in Trees /\ TreeKept(u, m) /\ RingsKept(u, m)
       /\ \A z \in Win \cup {Root} : /\ m[z].hWndSibling = IF z = w THEN s ELSE u[z].hWndSibling
                                    /\ m[z].hWndChild = u[z].hWndChild
  <2> HIDE DEF s
  <2> QED
    BY <1>4, <1>5, <1>17, FollowedFacts DEF m
<1>19. /\ v \in Trees /\ TreeKept(m, v) /\ RingsKept(m, v)
       /\ \A z \in Win \cup {Root} : /\ v[z].hWndSibling = IF z = x THEN w ELSE m[z].hWndSibling
                                    /\ v[z].hWndChild = m[z].hWndChild
  BY <1>7, <1>9, <1>17, <1>18, FollowedFacts
<1>11. \A y \in Win \cup {Root} :
          /\ v[y].hWndSibling = IF y = w THEN u[x].hWndSibling ELSE IF y = x THEN w ELSE u[y].hWndSibling
          /\ v[y].hWndChild = u[y].hWndChild
  BY <1>9, <1>18, <1>19
<1>12. v \in Trees
  BY <1>19
<1>13. TreeKept(u, v) /\ RingsKept(u, v)
  BY <1>18, <1>19, KeptTwice
<1>14. LinkedIn(u, v, p, c, j, w)
  BY <1>8, <1>10, <1>11 DEF LinkedIn
<1>15. j \in 0..(Len(list) - 1)
  BY <1>1, <1>5 DEF Listed
<1>16. TreeKept(t, v) /\ RingsKept(t, v) /\ HasLists(v, A) /\ HasRings(v, A)
  BY <1>2, <1>12, <1>13, <1>14, <1>15, Moved DEF u, c, list
<1> QED
  BY <1>12, <1>16 DEF Restacked, v

-----------------------------------------------------------------------------
(* A window joins the rings and the lists. *)
Grouped(t, y, x) == [t EXCEPT ![y].hWndGroup = x]
LinksSame(t, u) ==
    \A y \in Win \cup {Root} :
       u[y].hWndSibling = t[y].hWndSibling /\ u[y].hWndChild = t[y].hWndChild

LEMMA GroupedFacts ==
    ASSUME NEW t \in Trees, NEW y \in Win \cup {Root}, NEW x \in Handle
    PROVE  /\ Grouped(t, y, x) \in Trees
           /\ TreeKept(t, Grouped(t, y, x)) /\ LinksSame(t, Grouped(t, y, x))
           /\ \A z \in Win \cup {Root} :
                 /\ Grouped(t, y, x)[z].hWndGroup = IF z = y THEN x ELSE t[z].hWndGroup
                 /\ Grouped(t, y, x)[z].hWndLastChild = t[z].hWndLastChild
<1> DEFINE u == Grouped(t, y, x)
<1>1. u \in Trees
  BY DEF Grouped, Trees, Hwnd
<1>2. TreeKept(t, u) /\ LinksSame(t, u)
  BY DEF Grouped, Trees, TreeKept, LinksSame
<1>3. \A z \in Win \cup {Root} :
         /\ u[z].hWndGroup = IF z = y THEN x ELSE t[z].hWndGroup
         /\ u[z].hWndLastChild = t[z].hWndLastChild
  BY DEF Grouped, Trees
<1> QED
  BY <1>1, <1>2, <1>3

(* w is alone, or behind x in its ring.                                     *)
Alone(u, v, A, w) ==
    v[w].hWndGroup = w /\ \A y \in A : v[y].hWndGroup = u[y].hWndGroup
JoinsAfter(u, v, A, w, x) ==
    /\ x \in A /\ ListOwner(u, x) = ListOwner(u, w)
    /\ v[w].hWndGroup = u[x].hWndGroup /\ v[x].hWndGroup = w
    /\ \A y \in A \ {x} : v[y].hWndGroup = u[y].hWndGroup
LastIs(u, v, w) ==
    \A p \in Owners(u) : \/ v[p].hWndLastChild = u[p].hWndLastChild
                         \/ v[p].hWndLastChild = w /\ p = ListOwner(u, w)

LEMMA RingsJoined ==
    ASSUME NEW u \in Trees, NEW v \in Trees, TreeKept(u, v), NEW A, HasRings(u, A),
           NEW w \in Win, w \notin A,
           Alone(u, v, A, w) \/ \E x \in A : JoinsAfter(u, v, A, w, x), LastIs(u, v, w)
    PROVE  HasRings(v, A \cup {w})
<1>1. /\ Owners(v) = Owners(u) /\ \A x \in Win : ListOwner(v, x) = ListOwner(u, x)
  BY KeptTree
<1>2. /\ A \subseteq Win
      /\ \A x \in A : u[x].hWndGroup \in A /\ ListOwner(u, u[x].hWndGroup) = ListOwner(u, x)
      /\ \A x \in A : \E y \in A : u[y].hWndGroup = x
      /\ \A x \in A, y \in A : u[x].hWndGroup = u[y].hWndGroup => x = y
      /\ \A p \in Owners(u) : u[p].hWndLastChild # None =>
            u[p].hWndLastChild \in A /\ ListOwner(u, u[p].hWndLastChild) = p
  BY DEF HasRings
<1>3. \A p \in Owners(v) : v[p].hWndLastChild # None =>
         v[p].hWndLastChild \in A \cup {w} /\ ListOwner(v, v[p].hWndLastChild) = p
  BY <1>1, <1>2 DEF LastIs
<1> DEFINE B == A \cup {w}
           Into == \A x \in B : v[x].hWndGroup \in B /\ ListOwner(v, v[x].hWndGroup) = ListOwner(v, x)
           Onto == \A x \in B : \E y \in B : v[y].hWndGroup = x
           Once == \A x \in B, y \in B : v[x].hWndGroup = v[y].hWndGroup => x = y
<1>4. CASE Alone(u, v, A, w)
  <2>1. Into
    BY <1>1, <1>2, <1>4 DEF Alone
  <2>2. Onto
    BY <1>2, <1>4 DEF Alone
  <2>3. Once
    BY <1>2, <1>4 DEF Alone
  <2> QED
    BY <1>2, <1>3, <2>1, <2>2, <2>3 DEF HasRings
<1>5. CASE \E x \in A : JoinsAfter(u, v, A, w, x)
  <2>1. PICK x \in A : JoinsAfter(u, v, A, w, x)
    BY <1>5
  <2>2. /\ ListOwner(u, x) = ListOwner(u, w)
        /\ v[w].hWndGroup = u[x].hWndGroup /\ v[x].hWndGroup = w
        /\ \A y \in A \ {x} : v[y].hWndGroup = u[y].hWndGroup
    BY <2>1 DEF JoinsAfter
  <2>3. Into
    <3>1. ASSUME NEW y \in A \ {x} PROVE v[y].hWndGroup \in B /\ ListOwner(v, v[y].hWndGroup) = ListOwner(v, y)
      BY <1>1, <1>2, <2>2
    <3>2. v[x].hWndGroup \in B /\ ListOwner(v, v[x].hWndGroup) = ListOwner(v, x)
      BY <1>1, <1>2, <2>2
    <3>3. v[w].hWndGroup \in B /\ ListOwner(v, v[w].hWndGroup) = ListOwner(v, w)
      BY <1>1, <1>2, <2>2
    <3> QED
      BY <3>1, <3>2, <3>3
  <2>4. Onto
    <3> SUFFICES ASSUME NEW z \in B PROVE \E y \in B : v[y].hWndGroup = z
      OBVIOUS
    <3>1. CASE z = w
      BY <2>2, <3>1
    <3>2. CASE z # w
      <4>1. PICK y \in A : u[y].hWndGroup = z
        BY <1>2, <3>2
      <4>2. CASE y = x
        BY <2>2, <4>1, <4>2
      <4>3. CASE y # x
        BY <2>2, <4>1, <4>3
      <4> QED
        BY <4>2, <4>3
    <3> QED
      BY <3>1, <3>2
  <2>5. Once
    <3>1. \A y \in A \ {x} : v[y].hWndGroup \in A /\ v[y].hWndGroup # u[x].hWndGroup
      BY <1>2, <2>2
    <3>2. v[w].hWndGroup \in A
      BY <1>2, <2>2
    <3>3. \A y \in A \ {x}, z \in A \ {x} : v[y].hWndGroup = v[z].hWndGroup => y = z
      BY <1>2, <2>2
    <3> QED
      BY <2>2, <3>1, <3>2, <3>3
  <2> QED
    BY <1>2, <1>3, <2>3, <2>4, <2>5 DEF HasRings
<1> QED
  BY <1>4, <1>5

Everyone(t) == HasLists(t, Live(t)) /\ HasRings(t, Live(t))
Without(t, w) == /\ HasLists(t, Live(t) \ {w}) /\ HasRings(t, Live(t) \ {w}) /\ w \in Live(t)
                 /\ ListOwner(t, w) \in Owners(t) /\ ListOwner(t, w) # w

LEMMA InsertFirstKeeps ==
    ASSUME NEW t \in Trees, NEW w, Without(t, w),
           \A x \in Live(t) \ {w} : ListOwner(t, x) = ListOwner(t, w) => t[w].hWndGroup # x
    PROVE  LET v == InsertAsFirstSibling(t, w)
           IN v \in Trees /\ TreeKept(t, v) /\ Everyone(v)
<1> DEFINE A == Live(t) \ {w}
           p == ListOwner(t, w)
           q == Children(t, p)
           first == t[p].hWndChild
           prev == PrevGroup(t, first)
           m == Headed(t, p, w)
           u == Followed(m, w, first)
           v == InsertAsFirstSibling(t, w)
<1>1. /\ w \in Win /\ A \subseteq Win /\ p \in Win \cup {Root} /\ p \in Owners(t) /\ p # w
      /\ None \notin Win /\ first \in Handle /\ w \in Handle
      /\ Live(t) \subseteq Win /\ A \cup {w} = Live(t)
  BY TreeFacts DEF Without, Handle
<1>2. ListedAll(t, A, p, q) /\ q \in Seq(Win) /\ first = IF Len(q) = 0 THEN None ELSE q[1]
  BY <1>1 DEF Without, HasLists, ListedAll, Listed
<1>3. v = IF t[w].group \/ first = None THEN Grouped(u, w, w)
          ELSE Grouped(Grouped(u, prev, w), w, first)
  BY DEF InsertAsFirstSibling, Headed, Followed, Grouped
<1> HIDE DEF q, first, prev, v
<1>4. /\ m \in Trees /\ TreeKept(t, m) /\ RingsKept(t, m)
      /\ \A z \in Win \cup {Root} : /\ m[z].hWndChild = IF z = p THEN w ELSE t[z].hWndChild
                                   /\ m[z].hWndSibling = t[z].hWndSibling
  BY <1>1, HeadedFacts
<1> HIDE DEF m
<1>5. /\ u \in Trees /\ TreeKept(m, u) /\ RingsKept(m, u)
      /\ \A z \in Win \cup {Root} : /\ u[z].hWndSibling = IF z = w THEN first ELSE m[z].hWndSibling
                                   /\ u[z].hWndChild = m[z].hWndChild
  BY <1>1, <1>4, FollowedFacts
<1> HIDE DEF u
<1>6. first # None => /\ first \in A /\ ListOwner(t, first) = p
                      /\ prev \in A /\ t[prev].hWndGroup = first /\ ListOwner(t, prev) = p
  <2> SUFFICES ASSUME first # None
               PROVE  /\ first \in A /\ ListOwner(t, first) = p
                      /\ prev \in A /\ t[prev].hWndGroup = first /\ ListOwner(t, prev) = p
    OBVIOUS
  <2>1. first \in ToSet(q)
    <3>1. 1 \in 1..Len(q) /\ first = q[1]
      BY <1>2
    <3> QED
      BY <1>2, <3>1 DEF ToSet
  <2>2. first \in A /\ ListOwner(t, first) = p
    BY <1>2, <2>1 DEF ListedAll
  <2>3. \E x \in A : t[x].hWndGroup = first
    BY <2>2 DEF Without, HasRings
  <2>4. prev \in Live(t) /\ t[prev].hWndGroup = first
    BY <2>3 DEF PrevGroup, prev
  <2>5. prev # w
    BY <2>2, <2>4
  <2>6. ListOwner(t, prev) = p
    BY <2>2, <2>4, <2>5 DEF Without, HasRings
  <2> QED
    BY <2>2, <2>4, <2>5, <2>6
<1>7. /\ v \in Trees /\ TreeKept(u, v) /\ LinksSame(u, v)
      /\ \A z \in Win \cup {Root} : v[z].hWndLastChild = u[z].hWndLastChild
      /\ \A z \in Win \cup {Root} :
            v[z].hWndGroup = IF t[w].group \/ first = None
                             THEN IF z = w THEN w ELSE u[z].hWndGroup
                             ELSE IF z = w THEN first ELSE IF z = prev THEN w ELSE u[z].hWndGroup
  <2>1. CASE t[w].group \/ first = None
    BY <1>1, <1>3, <1>5, <2>1, GroupedFacts
  <2>2. CASE ~(t[w].group \/ first = None)
    <3> DEFINE x == Grouped(u, prev, w)
    <3>1. /\ x \in Trees /\ TreeKept(u, x) /\ LinksSame(u, x)
          /\ \A z \in Win \cup {Root} :
                /\ x[z].hWndGroup = IF z = prev THEN w ELSE u[z].hWndGroup
                /\ x[z].hWndLastChild = u[z].hWndLastChild
      <4>1. u \in Trees /\ prev \in Win \cup {Root} /\ w \in Handle
        BY <1>1, <1>5, <1>6, <2>2
      <4> QED
        BY <4>1, GroupedFacts
    <3> HIDE DEF x
    <3>2. /\ v \in Trees /\ TreeKept(x, v) /\ LinksSame(x, v)
          /\ \A z \in Win \cup {Root} :
                /\ v[z].hWndGroup = IF z = w THEN first ELSE x[z].hWndGroup
                /\ v[z].hWndLastChild = x[z].hWndLastChild
      <4>1. v = Grouped(x, w, first)
        BY <1>3, <2>2 DEF x
      <4>2. w \in Win \cup {Root} /\ first \in Handle
        BY <1>1
      <4> QED
        BY <3>1, <4>1, <4>2, GroupedFacts
    <3>3. TreeKept(u, v)
      BY <3>1, <3>2, KeptTwice
    <3>4. LinksSame(u, v)
      BY <3>1, <3>2 DEF LinksSame
    <3> QED
      BY <2>2, <3>1, <3>2, <3>3, <3>4
  <2> QED
    BY <2>1, <2>2
<1>8. TreeKept(t, v)
  BY <1>4, <1>5, <1>7, KeptTwice
<1>9. Live(v) = Live(t) /\ Owners(v) = Owners(t)
  BY <1>7, <1>8, KeptTree
<1>10. HasLists(v, A \cup {w})
  <2>1. LinkedIn(t, v, p, q, 0, w)
    BY <1>1, <1>2, <1>4, <1>5, <1>7 DEF LinkedIn, LinksSame
  <2>2. 0 \in 0..Len(q)
    BY <1>2
  <2> QED
    BY <1>1, <1>7, <1>8, <2>1, <2>2, InsertedAll DEF Without, q
<1>11. \A z \in Win \cup {Root} : u[z].hWndGroup = t[z].hWndGroup /\ u[z].hWndLastChild = t[z].hWndLastChild
  BY <1>4, <1>5 DEF RingsKept
<1>12. LastIs(t, v, w)
  <2>1. Owners(t) \subseteq Win \cup {Root}
    BY TreeFacts
  <2> QED
    BY <1>7, <1>11, <2>1 DEF LastIs
<1>13. Alone(t, v, A, w) \/ \E x \in A : JoinsAfter(t, v, A, w, x)
  <2>1. CASE t[w].group \/ first = None
    BY <1>1, <1>7, <1>11, <2>1 DEF Alone
  <2>2. CASE ~(t[w].group \/ first = None)
    <3>1. JoinsAfter(t, v, A, w, prev)
      BY <1>1, <1>6, <1>7, <1>11, <2>2 DEF JoinsAfter
    <3> QED
      BY <1>6, <2>2, <3>1
  <2> QED
    BY <2>1, <2>2
<1>14. HasRings(v, A \cup {w})
  BY <1>1, <1>7, <1>8, <1>12, <1>13, RingsJoined DEF Without
<1> QED
  BY <1>1, <1>7, <1>8, <1>9, <1>10, <1>14 DEF Everyone, v

Lasted(t, p, w) == [t EXCEPT ![p].hWndLastChild = w]

LEMMA LastedFacts ==
    ASSUME NEW t \in Trees, NEW y \in Win \cup {Root}, NEW x \in Handle
    PROVE  /\ Lasted(t, y, x) \in Trees
           /\ TreeKept(t, Lasted(t, y, x)) /\ LinksSame(t, Lasted(t, y, x))
           /\ \A z \in Win \cup {Root} :
                 /\ Lasted(t, y, x)[z].hWndLastChild = IF z = y THEN x ELSE t[z].hWndLastChild
                 /\ Lasted(t, y, x)[z].hWndGroup = t[z].hWndGroup
<1> DEFINE u == Lasted(t, y, x)
<1>1. u \in Trees
  BY DEF Lasted, Trees, Hwnd
<1>2. TreeKept(t, u) /\ LinksSame(t, u)
  BY DEF Lasted, Trees, TreeKept, LinksSame
<1>3. \A z \in Win \cup {Root} :
         /\ u[z].hWndLastChild = IF z = y THEN x ELSE t[z].hWndLastChild
         /\ u[z].hWndGroup = t[z].hWndGroup
  BY DEF Lasted, Trees
<1> QED
  BY <1>1, <1>2, <1>3

LEMMA InsertLastKeeps ==
    ASSUME NEW t \in Trees, NEW w, Without(t, w), t[w].hWndSibling = None
    PROVE  LET v == InsertAsLastSibling(t, w)
           IN v \in Trees /\ TreeKept(t, v) /\ Everyone(v)
<1> DEFINE A == Live(t) \ {w}
           p == ListOwner(t, w)
           list == Children(t, p)
           l == Last(list)
           u == IF list = << >> THEN Headed(t, p, w) ELSE Followed(t, l, w)
           last == t[p].hWndLastChild
           joins == list # << >> /\ IsChildStyle(t, w) /\ ~t[w].group /\ last # None
           g == IF joins THEN t[last].hWndGroup ELSE w
           m == Grouped(u, w, g)
           x == IF joins THEN Grouped(m, last, w) ELSE m
           v == InsertAsLastSibling(t, w)
<1>1. /\ w \in Win /\ A \subseteq Win /\ p \in Win \cup {Root} /\ p \in Owners(t) /\ p # w
      /\ None \notin Win /\ w \in Handle
      /\ Live(t) \subseteq Win /\ A \cup {w} = Live(t)
  BY TreeFacts DEF Without, Handle
<1>2. ListedAll(t, A, p, list) /\ list \in Seq(Win) /\ Listed(t, p, list)
  BY <1>1 DEF Without, HasLists, ListedAll, Listed
<1>3. v = IF IsChildStyle(t, w) THEN Lasted(x, p, w) ELSE x
  BY DEF InsertAsLastSibling, Headed, Followed, Grouped, Lasted
<1>4. joins => last \in A /\ ListOwner(t, last) = p /\ t[last].hWndGroup \in Handle
  <2>1. last # None => last \in A /\ ListOwner(t, last) = p
    BY <1>1 DEF Without, HasRings
  <2> QED
    BY <1>1, <2>1, TreeFacts
<1>5. list # << >> => l \in Win /\ l \in A /\ l = list[Len(list)] /\ Len(list) \in Nat \ {0}
  <2> HIDE DEF list
  <2> SUFFICES ASSUME list # << >> PROVE l \in A /\ l = list[Len(list)] /\ Len(list) \in Nat \ {0}
    BY <1>1
  <2>1. Len(list) \in Nat \ {0} /\ l = list[Len(list)]
    BY <1>2 DEF Last
  <2>2. l \in ToSet(list)
    BY <1>2, <2>1 DEF ToSet
  <2> QED
    BY <1>2, <2>1, <2>2 DEF ListedAll
<1> HIDE DEF list, last, l, v
<1>6. /\ u \in Trees /\ TreeKept(t, u) /\ RingsKept(t, u)
      /\ \A z \in Win \cup {Root} :
            /\ u[z].hWndChild = IF list = << >> /\ z = p THEN w ELSE t[z].hWndChild
            /\ u[z].hWndSibling = IF list # << >> /\ z = l THEN w ELSE t[z].hWndSibling
  <2>1. CASE list = << >>
    BY <1>1, <2>1, HeadedFacts
  <2>2. CASE list # << >>
    BY <1>1, <1>5, <2>2, FollowedFacts
  <2> QED
    BY <2>1, <2>2
<1> HIDE DEF u, joins
<1>7. g \in Handle
  BY <1>1, <1>4
<1> HIDE DEF g
<1>8. /\ m \in Trees /\ TreeKept(u, m) /\ LinksSame(u, m)
      /\ \A z \in Win \cup {Root} : /\ m[z].hWndGroup = IF z = w THEN g ELSE u[z].hWndGroup
                                   /\ m[z].hWndLastChild = u[z].hWndLastChild
  BY <1>1, <1>6, <1>7, GroupedFacts
<1> HIDE DEF m
<1>9. /\ x \in Trees /\ TreeKept(m, x) /\ LinksSame(m, x)
      /\ \A z \in Win \cup {Root} : /\ x[z].hWndGroup = IF joins /\ z = last THEN w ELSE m[z].hWndGroup
                                   /\ x[z].hWndLastChild = m[z].hWndLastChild
  <2>1. CASE joins
    <3>1. last \in Win \cup {Root}
      BY <1>1, <1>4, <2>1
    <3> QED
      BY <1>1, <1>8, <2>1, <3>1, GroupedFacts
  <2>2. CASE ~joins
    <3>1. TreeKept(m, m) /\ LinksSame(m, m)
      BY KeptTwice DEF LinksSame
    <3> QED
      BY <1>8, <2>2, <3>1
  <2> QED
    BY <2>1, <2>2
<1> HIDE DEF x
<1>10. /\ v \in Trees /\ TreeKept(x, v) /\ LinksSame(x, v)
       /\ \A z \in Win \cup {Root} :
             /\ v[z].hWndLastChild = IF IsChildStyle(t, w) /\ z = p THEN w ELSE x[z].hWndLastChild
             /\ v[z].hWndGroup = x[z].hWndGroup
  <2>1. CASE IsChildStyle(t, w)
    <3>1. v = Lasted(x, p, w) /\ x \in Trees /\ p \in Win \cup {Root} /\ w \in Handle
      BY <1>1, <1>3, <1>9, <2>1
    <3> HIDE DEF p
    <3>2. /\ v \in Trees /\ TreeKept(x, v) /\ LinksSame(x, v)
          /\ \A z \in Win \cup {Root} :
             /\ v[z].hWndLastChild = IF z = p THEN w ELSE x[z].hWndLastChild
             /\ v[z].hWndGroup = x[z].hWndGroup
      BY <3>1, LastedFacts
    <3> QED
      BY <2>1, <3>2
  <2>2. CASE ~IsChildStyle(t, w)
    <3>1. TreeKept(x, x) /\ LinksSame(x, x)
      BY KeptTwice DEF LinksSame
    <3> QED
      BY <1>3, <1>9, <2>2, <3>1
  <2> QED
    BY <2>1, <2>2
<1>11. TreeKept(t, v)
  BY <1>6, <1>8, <1>9, <1>10, KeptTwice
<1>12. Live(v) = Live(t) /\ Owners(v) = Owners(t)
  BY <1>10, <1>11, KeptTree
<1>13. HasLists(v, A \cup {w})
  <2>1. \A y \in Win \cup {Root} :
          /\ v[y].hWndSibling = IF list # << >> /\ y = l THEN w ELSE t[y].hWndSibling
          /\ v[y].hWndChild = IF list = << >> /\ y = p THEN w ELSE t[y].hWndChild
    BY <1>6, <1>8, <1>9, <1>10 DEF LinksSame
  <2>2. Len(list) \in Nat /\ (list = << >> <=> Len(list) = 0)
    BY <1>2
  <2>3. l # w \/ list = << >>
    BY <1>5
  <2>4. LinkedIn(t, v, p, list, Len(list), w)
    BY <1>1, <1>5, <2>1, <2>2, <2>3 DEF LinkedIn
  <2>5. Len(list) \in 0..Len(list)
    BY <2>2
  <2> QED
    BY <1>1, <1>10, <1>11, <2>4, <2>5, InsertedAll DEF Without, list
<1>14. \A z \in Win \cup {Root} :
         /\ v[z].hWndGroup = IF joins /\ z = last THEN w ELSE IF z = w THEN g ELSE t[z].hWndGroup
         /\ v[z].hWndLastChild = IF IsChildStyle(t, w) /\ z = p THEN w ELSE t[z].hWndLastChild
  BY <1>6, <1>8, <1>9, <1>10 DEF RingsKept
<1>15. LastIs(t, v, w)
  <2>1. Owners(t) \subseteq Win \cup {Root}
    BY TreeFacts
  <2> QED
    BY <1>14, <2>1 DEF LastIs
<1>16. Alone(t, v, A, w) \/ \E y \in A : JoinsAfter(t, v, A, w, y)
  <2>1. CASE ~joins
    BY <1>1, <1>14, <2>1 DEF Alone, g
  <2>2. CASE joins
    <3>1. last \in A /\ last # w
      BY <1>4, <2>2
    <3>2. JoinsAfter(t, v, A, w, last)
      BY <1>1, <1>4, <1>14, <2>2, <3>1 DEF JoinsAfter, g
    <3> QED
      BY <3>1, <3>2
  <2> QED
    BY <2>1, <2>2
<1>17. HasRings(v, A \cup {w})
  BY <1>1, <1>10, <1>11, <1>15, <1>16, RingsJoined DEF Without
<1> QED
  BY <1>1, <1>10, <1>11, <1>12, <1>13, <1>17 DEF Everyone, v

-----------------------------------------------------------------------------
(* Parents and owners.  Every window has a rank above that of its parent or  *)
(* owner: nothing is below itself, and destruction comes to an end.         *)
KinBy(t, rk) ==
    \A x \in Live(t) :
       /\ IsChildStyle(t, x) =>
             /\ t[x].hWndOwner = None /\ t[x].hWndParent \in Live(t)
             /\ rk[t[x].hWndParent] < rk[x]
       /\ ~IsChildStyle(t, x) =>
             /\ t[x].hWndParent = None /\ t[x].hWndOwner \in TopLevel(t) \cup {None}
             /\ t[x].hWndOwner # None => rk[t[x].hWndOwner] < rk[x]
Kin(t) == \E rk \in [Win -> Nat] : KinBy(t, rk)

LEMMA KinKept ==
    ASSUME NEW t \in Trees, NEW u \in Trees, TreeKept(t, u), Kin(t)
    PROVE  Kin(u)
<1>1. PICK rk \in [Win -> Nat] : KinBy(t, rk)
  BY DEF Kin
<1>2. Live(u) = Live(t) /\ TopLevel(u) = TopLevel(t) /\ Live(t) \subseteq Win
      /\ \A x \in Win \cup {Root} : IsChildStyle(u, x) = IsChildStyle(t, x)
  BY KeptTree, TreeFacts
<1>3. KinBy(u, rk)
  BY <1>1, <1>2 DEF KinBy, TreeKept
<1> QED
  BY <1>3 DEF Kin

LEMMA KinFacts ==
    ASSUME NEW t \in Trees, Kin(t), NEW x \in Live(t)
    PROVE  /\ IsChildStyle(t, x) => t[x].hWndOwner = None /\ t[x].hWndParent \in Live(t)
           /\ x \in TopLevel(t) => t[x].hWndParent = None /\ t[x].hWndOwner \in TopLevel(t) \cup {None}
           /\ x \in TopLevel(t) <=> ~IsChildStyle(t, x)
           /\ t[x].hWndOwner # None => x \in TopLevel(t) /\ t[x].hWndOwner \in TopLevel(t)
           /\ t[x].hWndOwner # x
           /\ Parents(t)[x] = IF IsChildStyle(t, x) THEN t[x].hWndParent ELSE None
           /\ Keepers(t)[x] = IF IsChildStyle(t, x) THEN t[x].hWndParent ELSE t[x].hWndOwner
           /\ Keepers(t)[x] \in Live(t) \cup {None} /\ Parents(t)[x] \in Live(t) \cup {None}
           /\ x \in Win
<1>1. PICK rk \in [Win -> Nat] : KinBy(t, rk)
  BY DEF Kin
<1>2. x \in Win /\ Live(t) \subseteq Win /\ TopLevel(t) \subseteq Live(t) /\ DOMAIN t = Win \cup {Root} /\ None \notin Win
  BY TreeFacts DEF Trees
<1>3. x \in TopLevel(t) <=> ~IsChildStyle(t, x)
  BY DEF TopLevel
<1>4. rk[x] \in Nat /\ ~(rk[x] < rk[x])
  BY <1>1, <1>2
<1> QED
  BY <1>1, <1>2, <1>3, <1>4 DEF KinBy, Parents, Keepers

(* The tree below a window, step by step; and the least set with a window   *)
(* and with the children of its members is that tree.                       *)
LEMMA SubtreeSteps ==
    ASSUME NEW t \in Trees, Kin(t), NEW w \in Win
    PROVE  /\ Subtree(t, w) \subseteq Live(t) /\ (w \in Live(t) => w \in Subtree(t, w))
           /\ \A x \in Live(t) : x # w =>
                 (x \in Subtree(t, w) <=> IsChildStyle(t, x) /\ t[x].hWndParent \in Subtree(t, w))
           /\ \A x \in TopLevel(t) : x \in Subtree(t, w) => x = w
<1>1. Leads(Parents(t)) /\ Live(t) \subseteq Win /\ None \notin Win /\ TopLevel(t) \subseteq Live(t)
  BY TreeFacts
<1>2. Subtree(t, w) \subseteq Live(t)
  BY DEF Subtree
<1>3. w \in Live(t) => w \in Subtree(t, w)
  BY <1>1, ReachLeast DEF Subtree, Ancestors
<1>4. ASSUME NEW x \in Live(t), x # w
      PROVE  x \in Subtree(t, w) <=> IsChildStyle(t, x) /\ t[x].hWndParent \in Subtree(t, w)
  <2>1. Ancestors(t, x) = {x} \cup (IF Parents(t)[x] = None THEN {} ELSE Ancestors(t, Parents(t)[x]))
    BY <1>1, ReachUp DEF Ancestors
  <2>2. /\ Parents(t)[x] = IF IsChildStyle(t, x) THEN t[x].hWndParent ELSE None
        /\ IsChildStyle(t, x) => t[x].hWndParent \in Live(t)
    BY KinFacts
  <2>3. x \in Subtree(t, w) <=> w \in Ancestors(t, x)
    BY DEF Subtree
  <2>4. CASE IsChildStyle(t, x)
    <3>1. t[x].hWndParent \in Subtree(t, w) <=> w \in Ancestors(t, t[x].hWndParent)
      BY <2>2, <2>4 DEF Subtree
    <3>2. t[x].hWndParent # None
      BY <1>1, <2>2, <2>4
    <3> QED
      BY <1>4, <2>1, <2>2, <2>3, <2>4, <3>1, <3>2
  <2>5. CASE ~IsChildStyle(t, x)
    BY <1>4, <2>1, <2>2, <2>3, <2>5
  <2> QED
    BY <2>4, <2>5
<1>5. \A x \in TopLevel(t) : x \in Subtree(t, w) => x = w
  BY <1>1, <1>4 DEF TopLevel
<1> QED
  BY <1>2, <1>3, <1>4, <1>5

LEMMA SubtreeLeast ==
    ASSUME NEW t \in Trees, Kin(t), NEW w \in Win, NEW D, w \in D,
           \A x \in Live(t) : IsChildStyle(t, x) /\ t[x].hWndParent \in D => x \in D
    PROVE  Subtree(t, w) \subseteq D
<1> DEFINE S == Live(t) \ D
<1>1. Leads(Parents(t)) /\ Live(t) \subseteq Win /\ None \notin Win
  BY TreeFacts
<1>2. ASSUME NEW x \in S PROVE Parents(t)[x] \in S \cup {None}
  <2>1. /\ Parents(t)[x] = IF IsChildStyle(t, x) THEN t[x].hWndParent ELSE None
        /\ IsChildStyle(t, x) => t[x].hWndParent \in Live(t)
    BY KinFacts
  <2> QED
    BY <2>1
<1>3. ClosedUp(Parents(t), S)
  BY <1>2 DEF ClosedUp
<1>4. ASSUME NEW x \in Subtree(t, w) PROVE x \in D
  <2>1. x \in Live(t) /\ w \in Reach(Parents(t), x)
    BY DEF Subtree, Ancestors
  <2>2. CASE x \in S
    <3>1. Reach(Parents(t), x) \subseteq S
      BY <1>1, <1>3, <2>1, <2>2, ReachLeast
    <3> QED
      BY <2>1, <3>1
  <2> QED
    BY <2>1, <2>2
<1> QED
  BY <1>4

LEMMA SubtreeTrans ==
    ASSUME NEW t \in Trees, Kin(t), NEW w \in Win, NEW x \in Subtree(t, w)
    PROVE  Subtree(t, x) \subseteq Subtree(t, w)
<1>1. x \in Live(t) /\ x \in Win
  BY TreeFacts DEF Subtree
<1>2. \A z \in Live(t) : z # w => (z \in Subtree(t, w) <=> IsChildStyle(t, z) /\ t[z].hWndParent \in Subtree(t, w))
  BY SubtreeSteps
<1>3. \A z \in Live(t) : IsChildStyle(t, z) /\ t[z].hWndParent \in Subtree(t, w) => z \in Subtree(t, w)
  BY <1>2, SubtreeSteps
<1> QED
  BY <1>1, <1>3, SubtreeLeast

(* A window below another one is that one or is below one of its children.  *)
LEMMA BelowSome ==
    ASSUME NEW t \in Trees, Kin(t), NEW w \in Win, NEW x \in Subtree(t, w), x # w
    PROVE  \E s \in Live(t) : IsChildStyle(t, s) /\ t[s].hWndParent = w /\ x \in Subtree(t, s)
<1> DEFINE D == {w} \cup {z \in Live(t) : \E s \in Live(t) :
                             IsChildStyle(t, s) /\ t[s].hWndParent = w /\ z \in Subtree(t, s)}
<1>1. Live(t) \subseteq Win
  BY TreeFacts
<1>2. ASSUME NEW z \in Live(t), IsChildStyle(t, z), t[z].hWndParent \in D PROVE z \in D
  <2>1. CASE t[z].hWndParent = w
    <3>1. z \in Subtree(t, z)
      BY <1>1, SubtreeSteps
    <3> QED
      BY <1>2, <2>1, <3>1
  <2>2. CASE t[z].hWndParent # w
    <3>1. PICK s \in Live(t) : IsChildStyle(t, s) /\ t[s].hWndParent = w /\ t[z].hWndParent \in Subtree(t, s)
      BY <1>2, <2>2
    <3>2. z \in Subtree(t, s)
      BY <1>1, <1>2, <3>1, SubtreeSteps
    <3> QED
      BY <3>1, <3>2
  <2> QED
    BY <2>1, <2>2
<1> HIDE DEF D
<1>3. Subtree(t, w) \subseteq D
  <2>1. w \in D
    BY DEF D
  <2> QED
    BY <1>2, <2>1, SubtreeLeast
<1> QED
  BY <1>3 DEF D

(* The same of what is destroyed with a window.                             *)
LEMMA DoomedSteps ==
    ASSUME NEW t \in Trees, Kin(t), NEW w \in Win
    PROVE  /\ Doomed(t, w) \subseteq Live(t) /\ (w \in Live(t) => w \in Doomed(t, w))
           /\ \A x \in Live(t) : x # w => (x \in Doomed(t, w) <=> Keepers(t)[x] \in Doomed(t, w))
<1>1. Leads(Keepers(t)) /\ Live(t) \subseteq Win /\ None \notin Win
  BY TreeFacts
<1>2. Doomed(t, w) \subseteq Live(t)
  BY DEF Doomed
<1>3. w \in Live(t) => w \in Doomed(t, w)
  BY <1>1, ReachLeast DEF Doomed
<1>4. ASSUME NEW x \in Live(t), x # w
      PROVE  x \in Doomed(t, w) <=> Keepers(t)[x] \in Doomed(t, w)
  <2> DEFINE k == Keepers(t)[x]
  <2>1. Reach(Keepers(t), x) = {x} \cup (IF k = None THEN {} ELSE Reach(Keepers(t), k))
    BY <1>1, ReachUp
  <2>2. k \in Live(t) \cup {None}
    BY KinFacts
  <2> HIDE DEF k
  <2>3. k # None => (k \in Doomed(t, w) <=> w \in Reach(Keepers(t), k))
    BY <2>2 DEF Doomed
  <2>4. None \notin Doomed(t, w)
    BY <1>1, <1>2
  <2>5. x \in Doomed(t, w) <=> w \in Reach(Keepers(t), x)
    BY DEF Doomed
  <2>6. x \in Doomed(t, w) <=> k \in Doomed(t, w)
    BY <1>4, <2>1, <2>3, <2>4, <2>5
  <2> QED
    BY <2>6 DEF k
<1> QED
  BY <1>2, <1>3, <1>4

LEMMA DoomedLeast ==
    ASSUME NEW t \in Trees, Kin(t), NEW w \in Win, NEW D, w \in D,
           \A x \in Live(t) : Keepers(t)[x] \in D \ {None} => x \in D
    PROVE  Doomed(t, w) \subseteq D
<1> DEFINE S == Live(t) \ D
<1>1. Leads(Keepers(t)) /\ Live(t) \subseteq Win /\ None \notin Win
  BY TreeFacts
<1>2. ASSUME NEW x \in S PROVE Keepers(t)[x] \in S \cup {None}
  <2>1. Keepers(t)[x] \in Live(t) \cup {None}
    BY KinFacts
  <2> QED
    BY <2>1
<1>3. ClosedUp(Keepers(t), S)
  BY <1>2 DEF ClosedUp
<1>4. ASSUME NEW x \in Doomed(t, w) PROVE x \in D
  <2>1. x \in Live(t) /\ w \in Reach(Keepers(t), x)
    BY DEF Doomed
  <2>2. CASE x \in S
    <3>1. Reach(Keepers(t), x) \subseteq S
      BY <1>1, <1>3, <2>1, <2>2, ReachLeast
    <3> QED
      BY <2>1, <3>1
  <2> QED
    BY <2>1, <2>2
<1> QED
  BY <1>4

LEMMA DoomedTrans ==
    ASSUME NEW t \in Trees, Kin(t), NEW w \in Win, NEW x \in Doomed(t, w)
    PROVE  Doomed(t, x) \subseteq Doomed(t, w)
<1>1. x \in Live(t) /\ x \in Win
  BY TreeFacts DEF Doomed
<1>2. \A z \in Live(t) : Keepers(t)[z] \in Doomed(t, w) \ {None} => z \in Doomed(t, w)
  BY DoomedSteps
<1> QED
  BY <1>1, <1>2, DoomedLeast

LEMMA SubtreeIsDoomed ==
    ASSUME NEW t \in Trees, Kin(t), NEW w \in Live(t)
    PROVE  Subtree(t, w) \subseteq Doomed(t, w)
<1>1. w \in Win /\ w \in Doomed(t, w)
  BY TreeFacts, DoomedSteps
<1>2. ASSUME NEW x \in Live(t), IsChildStyle(t, x), t[x].hWndParent \in Doomed(t, w) PROVE x \in Doomed(t, w)
  <2>1. Keepers(t)[x] = t[x].hWndParent
    BY <1>2, KinFacts
  <2> QED
    BY <1>1, <1>2, <2>1, DoomedSteps
<1> QED
  BY <1>1, <1>2, SubtreeLeast

(* A window does not keep its owner or parent.                              *)
LEMMA DoomedAcyclic ==
    ASSUME NEW t \in Trees, Kin(t), NEW x \in Live(t), NEW w \in Win, Keepers(t)[x] = w
    PROVE  w \notin Doomed(t, x) /\ x # w
<1>1. PICK rk \in [Win -> Nat] : KinBy(t, rk)
  BY DEF Kin
<1>2. x \in Win /\ Live(t) \subseteq Win /\ None \notin Win
  BY TreeFacts
<1>3. ASSUME NEW z \in Live(t), Keepers(t)[z] # None PROVE rk[Keepers(t)[z]] < rk[z]
  BY <1>1, <1>3, KinFacts DEF KinBy
<1> DEFINE D == {z \in Live(t) : rk[x] <= rk[z]}
<1>4. ASSUME NEW z \in Live(t), Keepers(t)[z] \in D \ {None} PROVE z \in D
  <2>1. rk[Keepers(t)[z]] < rk[z] /\ rk[x] <= rk[Keepers(t)[z]]
    BY <1>3, <1>4
  <2>2. Keepers(t)[z] \in Win /\ z \in Win
    BY <1>2, <1>4
  <2>3. rk[Keepers(t)[z]] \in Nat /\ rk[z] \in Nat /\ rk[x] \in Nat
    BY <1>2, <2>2
  <2> QED
    BY <2>1, <2>3
<1>5. x \in D
  BY <1>2
<1> HIDE DEF D
<1>6. Doomed(t, x) \subseteq D
  BY <1>2, <1>4, <1>5, DoomedLeast
<1>7. rk[w] < rk[x] /\ rk[w] \in Nat /\ rk[x] \in Nat
  BY <1>2, <1>3
<1>8. w \notin D
  BY <1>7 DEF D
<1> QED
  BY <1>5, <1>6, <1>8

LEMMA TopLevelAncestorFacts ==
    ASSUME NEW t \in Trees, Kin(t), NEW w \in Live(t)
    PROVE  TopLevelAncestor(t, w) \in TopLevel(t)
<1> DEFINE S == Ancestors(t, w)
<1>1. PICK rk \in [Win -> Nat] : KinBy(t, rk)
  BY DEF Kin
<1>2. Leads(Parents(t)) /\ Live(t) \subseteq Win /\ None \notin Win /\ w \in Win
  BY TreeFacts
<1>3. w \in S /\ ClosedUp(Parents(t), S)
  BY <1>2, ReachLeast, ReachClosed DEF Ancestors
<1>4. S \subseteq Live(t)
  <2>1. ClosedUp(Parents(t), Live(t))
    BY KinFacts DEF ClosedUp
  <2> QED
    BY <1>2, <2>1, ReachLeast DEF Ancestors
<1> HIDE DEF S
<1>5. PICK a \in S : \A x \in S : rk[a] <= rk[x]
  <2> DEFINE R == {rk[x] : x \in S}
  <2>1. R \in SUBSET Nat /\ R # {}
    BY <1>2, <1>3, <1>4
  <2> HIDE DEF R
  <2>2. PICK r \in R : \A z \in R : r <= z
    BY <2>1, LeastNumber
  <2> QED
    BY <2>2 DEF R
<1>6. ~IsChildStyle(t, a)
  <2> SUFFICES ASSUME IsChildStyle(t, a) PROVE FALSE
    OBVIOUS
  <2>1. a \in Live(t)
    BY <1>4
  <2>2. t[a].hWndParent \in Live(t) /\ rk[t[a].hWndParent] < rk[a]
    BY <1>1, <2>1 DEF KinBy
  <2>3. Parents(t)[a] = t[a].hWndParent
    BY <2>1, KinFacts
  <2>4. t[a].hWndParent \in S
    BY <1>2, <1>3, <2>2, <2>3 DEF ClosedUp
  <2>5. rk[a] <= rk[t[a].hWndParent]
    BY <1>5, <2>4
  <2>6. rk[a] \in Nat /\ rk[t[a].hWndParent] \in Nat
    BY <1>2, <2>1, <2>2
  <2> QED
    BY <2>2, <2>5, <2>6
<1>7. TopLevelAncestor(t, w) \in S /\ ~IsChildStyle(t, TopLevelAncestor(t, w))
  BY <1>6 DEF TopLevelAncestor, S
<1> QED
  BY <1>4, <1>7 DEF TopLevel

-----------------------------------------------------------------------------
(* FreeWindow of a tree whose uppermost window is out of its list already.  *)
Cleared(t, T) == [x \in DOMAIN t |-> IF x \in T THEN Freed ELSE t[x]]
OwnsNothing(t, w) == \A x \in Live(t) : t[x].hWndOwner # w

(* v is t without the windows of T, which had nothing outside T.            *)
SameFields(t, v, T) ==
    /\ Live(v) = Live(t) \ T
    /\ \A x \in Live(v) : /\ v[x].kind = t[x].kind /\ v[x].hWndParent = t[x].hWndParent
                          /\ v[x].hWndOwner = t[x].hWndOwner
FreedOf(t, v, T) ==
    /\ v \in Trees /\ SameFields(t, v, T) /\ Kin(v)
    /\ \A z \in Win : Subtree(v, z) = Subtree(t, z) \ T /\ Doomed(v, z) \subseteq Doomed(t, z)

LEMMA FreedOfFacts ==
    ASSUME NEW t \in Trees, Kin(t), NEW v \in Trees, NEW T, SameFields(t, v, T),
           \A x \in Live(t) \ T : t[x].hWndParent \notin T /\ t[x].hWndOwner \notin T
    PROVE  FreedOf(t, v, T)
<1>1. /\ Leads(Parents(t)) /\ Leads(Keepers(t)) /\ Leads(Parents(v)) /\ Leads(Keepers(v))
      /\ Live(t) \subseteq Win /\ None \notin Win
  BY TreeFacts
<1> DEFINE L == Live(v)
<1>2. L = Live(t) \ T /\ L \subseteq Live(t)
  BY DEF SameFields
<1>3. \A x \in L : /\ IsChildStyle(v, x) = IsChildStyle(t, x) /\ v[x].hWndParent = t[x].hWndParent
                   /\ v[x].hWndOwner = t[x].hWndOwner
  BY DEF SameFields, IsChildStyle
<1>4. TopLevel(v) = TopLevel(t) \ T
  BY <1>2, <1>3 DEF TopLevel
<1>5. PICK rk \in [Win -> Nat] : KinBy(t, rk)
  BY DEF Kin
<1>6. \A x \in L : t[x].hWndParent \notin T /\ t[x].hWndOwner \notin T
  BY <1>2
<1> HIDE DEF L
<1>7. KinBy(v, rk)
  <2>1. ASSUME NEW x \in L
        PROVE  /\ IsChildStyle(v, x) =>
                    /\ v[x].hWndOwner = None /\ v[x].hWndParent \in Live(v)
                    /\ rk[v[x].hWndParent] < rk[x]
               /\ ~IsChildStyle(v, x) =>
                    /\ v[x].hWndParent = None /\ v[x].hWndOwner \in TopLevel(v) \cup {None}
                    /\ v[x].hWndOwner # None => rk[v[x].hWndOwner] < rk[x]
    <3>1. x \in Live(t)
      BY <1>2
    <3> QED
      BY <1>2, <1>3, <1>4, <1>5, <1>6, <3>1 DEF KinBy, L
  <2> QED
    BY <2>1 DEF KinBy, L
<1>8. Kin(v)
  BY <1>7 DEF Kin
<1>9. \A x \in L : Parents(v)[x] = Parents(t)[x] /\ Keepers(v)[x] = Keepers(t)[x]
  <2>1. DOMAIN v = DOMAIN t
    BY DEF Trees
  <2>2. L \subseteq DOMAIN t /\ L \subseteq Win
    BY <1>1, <1>2 DEF Trees
  <2> QED
    BY <1>3, <2>1, <2>2 DEF Parents, Keepers
<1>10. ClosedUp(Parents(t), L) /\ ClosedUp(Keepers(t), L)
  <2>1. ASSUME NEW x \in L PROVE Parents(t)[x] \in L \cup {None} /\ Keepers(t)[x] \in L \cup {None}
    <3>1. x \in Live(t)
      BY <1>2
    <3>2. /\ Parents(t)[x] = IF IsChildStyle(t, x) THEN t[x].hWndParent ELSE None
          /\ Keepers(t)[x] = IF IsChildStyle(t, x) THEN t[x].hWndParent ELSE t[x].hWndOwner
          /\ Keepers(t)[x] \in Live(t) \cup {None} /\ Parents(t)[x] \in Live(t) \cup {None}
      BY <3>1, KinFacts
    <3> QED
      BY <1>2, <1>6, <3>2
  <2> QED
    BY <2>1 DEF ClosedUp
<1>11. \A x \in L : Reach(Parents(t), x) = Reach(Parents(v), x) /\ Reach(Keepers(t), x) = Reach(Keepers(v), x)
  <2>1. L \subseteq Win
    BY <1>1, <1>2
  <2>2. ASSUME NEW x \in L PROVE Reach(Parents(t), x) = Reach(Parents(v), x)
    <3>1. \A y \in L : Parents(t)[y] = Parents(v)[y]
      BY <1>9
    <3>2. x \in Win
      BY <2>1
    <3> QED
      BY <1>1, <1>10, <3>1, <3>2, ReachSame
  <2>3. ASSUME NEW x \in L PROVE Reach(Keepers(t), x) = Reach(Keepers(v), x)
    <3>1. \A y \in L : Keepers(t)[y] = Keepers(v)[y]
      BY <1>9
    <3>2. x \in Win
      BY <2>1
    <3> QED
      BY <1>1, <1>10, <3>1, <3>2, ReachSame
  <2> QED
    BY <2>2, <2>3
<1>12. \A z : Subtree(v, z) = Subtree(t, z) \ T /\ Doomed(v, z) \subseteq Doomed(t, z)
  BY <1>2, <1>11 DEF Subtree, Doomed, Ancestors, L
<1> QED
  BY <1>8, <1>12 DEF FreedOf

LEMMA ClearedFacts ==
    ASSUME NEW t \in Trees, Kin(t), NEW w \in Live(t),
           HasLists(t, Live(t) \ {w}), HasRings(t, Live(t) \ {w})
    PROVE  LET T == Subtree(t, w)
               v == Cleared(t, T)
           IN /\ v \in Trees /\ SameFields(t, v, T) /\ Everyone(v)
              /\ OwnsNothing(t, w) => FreedOf(t, v, T)
              /\ \A x \in Live(v) : \A y : Above(t, x, y) => Above(v, x, y)
<1> DEFINE T == Subtree(t, w)
           v == Cleared(t, T)
           A == Live(t) \ {w}
           L == Live(t) \ T
<1>1. /\ Live(t) \subseteq Win /\ None \notin Win /\ Root \notin Win /\ Owners(t) \subseteq Win \cup {Root}
      /\ w \in Win /\ DOMAIN t = Win \cup {Root} /\ TopLevel(t) \subseteq Live(t) /\ None # Root
  BY TreeFacts DEF Trees
<1>2. /\ T \subseteq Live(t) /\ w \in T
      /\ \A x \in Live(t) : x # w => (x \in T <=> IsChildStyle(t, x) /\ t[x].hWndParent \in T)
      /\ \A x \in TopLevel(t) : x \in T => x = w
  BY <1>1, SubtreeSteps
<1> HIDE DEF T
<1>3. v \in Trees
  <2>1. Freed \in Hwnd
    BY DEF Freed, Hwnd, Kind, Handle
  <2>2. DOMAIN v = Win \cup {Root} /\ \A x \in Win \cup {Root} : v[x] \in Hwnd /\ v[x] = IF x \in T THEN Freed ELSE t[x]
    BY <1>1, <2>1 DEF Cleared, Trees
  <2> QED
    BY <2>2 DEF Trees, Cleared
<1>4. \A x \in Win \cup {Root} : v[x] = IF x \in T THEN Freed ELSE t[x]
  BY <1>1 DEF Cleared
<1> HIDE DEF v
<1>5. SameFields(t, v, T) /\ Live(v) = L
  <2>1. Freed.kind = "free"
    BY DEF Freed
  <2>2. Live(v) = L
    BY <1>1, <1>4, <2>1 DEF Live, IsWindow
  <2> QED
    BY <1>1, <1>4, <2>2 DEF SameFields
<1>6. OwnsNothing(t, w) => \A x \in L : t[x].hWndParent \notin T /\ t[x].hWndOwner \notin T
  <2> SUFFICES ASSUME OwnsNothing(t, w)
               PROVE  \A x \in L : t[x].hWndParent \notin T /\ t[x].hWndOwner \notin T
    OBVIOUS
  <2>1. ASSUME NEW x \in L PROVE t[x].hWndParent \notin T /\ t[x].hWndOwner \notin T
    <3>1. x \in Live(t) /\ x # w
      BY <1>2
    <3>2. /\ IsChildStyle(t, x) => t[x].hWndOwner = None /\ t[x].hWndParent \in Live(t)
          /\ x \in TopLevel(t) => t[x].hWndParent = None
          /\ x \in TopLevel(t) <=> ~IsChildStyle(t, x)
          /\ t[x].hWndOwner # None => t[x].hWndOwner \in TopLevel(t)
      BY <3>1, KinFacts
    <3>3. None \notin T /\ t[x].hWndOwner # w
      BY <1>1, <1>2, <3>1 DEF OwnsNothing
    <3> QED
      BY <1>2, <3>1, <3>2, <3>3
  <2> QED
    BY <2>1
<1>7. OwnsNothing(t, w) => FreedOf(t, v, T)
  BY <1>3, <1>5, <1>6, FreedOfFacts
<1>8. L \subseteq A /\ Owners(v) = L \cup {Root} /\ Owners(v) \subseteq Owners(t)
  BY <1>2, <1>5 DEF Owners
<1>9. \A x \in Win : x \notin T => ListOwner(v, x) = ListOwner(t, x) /\ v[x] = t[x]
  BY <1>4 DEF ListOwner, IsChildStyle
(* A window of A is in T just if its list is one of a window of T.          *)
<1>10. \A x \in A : x \in T <=> ListOwner(t, x) \in T
  BY <1>1, <1>2 DEF ListOwner
<1>11. \A x \in L : ListOwner(v, x) \in Owners(v)
  <2>1. ASSUME NEW x \in L PROVE ListOwner(v, x) \in Owners(v)
    <3>1. x \in A /\ x \in Win /\ x \notin T
      BY <1>1, <1>8
    <3>2. ListOwner(t, x) \in Owners(t) /\ ListOwner(t, x) \notin T
      BY <1>10, <3>1 DEF HasLists
    <3> QED
      BY <1>8, <1>9, <3>1, <3>2 DEF Owners
  <2> QED
    BY <2>1
<1>12. ASSUME NEW p \in Owners(v)
       PROVE  ListedAll(v, L, p, Children(t, p)) /\ Children(v, p) = Children(t, p)
  <2> DEFINE q == Children(t, p)
  <2>1. p \in Owners(t) /\ p \notin T /\ p \in Win \cup {Root}
    BY <1>1, <1>2, <1>8
  <2>2. Listed(t, p, q) /\ ToSet(q) = {x \in A : ListOwner(t, x) = p}
    BY <2>1 DEF HasLists, ListedAll
  <2> HIDE DEF q
  <2>3. ToSet(q) = {x \in L : ListOwner(v, x) = p}
    BY <1>1, <1>8, <1>9, <1>10, <2>1, <2>2
  <2>4. \A i \in 1..Len(q) : q[i] \in L
    <3>1. DOMAIN q = 1..Len(q)
      BY <2>2 DEF Listed
    <3>2. \A i \in 1..Len(q) : q[i] \in ToSet(q)
      BY <3>1 DEF ToSet
    <3> QED
      BY <2>3, <3>2
  <2>5. Listed(v, p, q)
    <3>1. v[p] = t[p]
      BY <1>4, <2>1
    <3>2. \A i \in 1..Len(q) : v[q[i]] = t[q[i]]
      BY <1>1, <1>9, <2>4
    <3> QED
      BY <2>2, <3>1, <3>2 DEF Listed
  <2>6. Children(v, p) = q
    BY <2>5, ListedIsChildren
  <2> QED
    BY <2>3, <2>5, <2>6 DEF ListedAll, q
<1>13. HasLists(v, L)
  BY <1>1, <1>8, <1>11, <1>12 DEF HasLists
<1>14. ASSUME NEW x \in L, NEW y, Above(t, x, y) PROVE Above(v, x, y)
  <2>1. PICK p \in Owners(t) : Precedes(Children(t, p), x, y)
    BY <1>14 DEF Above
  <2>2. x \in ToSet(Children(t, p))
    BY <2>1 DEF Precedes, ToSet
  <2>3. x \in A /\ ListOwner(t, x) = p
    BY <2>1, <2>2 DEF HasLists, ListedAll
  <2>4. p \notin T
    BY <1>10, <2>3
  <2>5. p \in Owners(v)
    BY <1>8, <2>1, <2>4 DEF Owners
  <2> QED
    BY <1>12, <2>1, <2>5 DEF Above
<1>15. HasRings(v, L)
  <2>1. \A x \in A : t[x].hWndGroup \in A /\ ListOwner(t, t[x].hWndGroup) = ListOwner(t, x)
    BY DEF HasRings
  <2>2. \A x \in L : v[x] = t[x] /\ x \in A /\ x \notin T /\ x \in Win /\ ListOwner(v, x) = ListOwner(t, x)
    BY <1>1, <1>8, <1>9
  <2>3. \A x \in L : v[x].hWndGroup \in L /\ ListOwner(v, v[x].hWndGroup) = ListOwner(v, x)
    <3>1. ASSUME NEW x \in L PROVE v[x].hWndGroup \in L /\ ListOwner(v, v[x].hWndGroup) = ListOwner(v, x)
      <4>1. v[x].hWndGroup = t[x].hWndGroup /\ t[x].hWndGroup \in A /\ t[x].hWndGroup \notin T
        BY <1>10, <2>1, <2>2
      <4>2. t[x].hWndGroup \in L
        BY <4>1
      <4> QED
        BY <2>1, <2>2, <4>1, <4>2
    <3> QED
      BY <3>1
  <2>4. \A x \in L : \E y \in L : v[y].hWndGroup = x
    <3>1. ASSUME NEW x \in L PROVE \E y \in L : v[y].hWndGroup = x
      <4>1. PICK y \in A : t[y].hWndGroup = x
        BY <2>2 DEF HasRings
      <4>2. y \notin T
        BY <1>10, <2>1, <2>2, <4>1
      <4>3. y \in L
        BY <4>2
      <4> QED
        BY <2>2, <4>1, <4>3
    <3> QED
      BY <3>1
  <2>5. \A x \in L, y \in L : v[x].hWndGroup = v[y].hWndGroup => x = y
    BY <2>2 DEF HasRings
  <2>6. ASSUME NEW p \in Owners(v), v[p].hWndLastChild # None
        PROVE  v[p].hWndLastChild \in L /\ ListOwner(v, v[p].hWndLastChild) = p
    <3>1. p \in Owners(t) /\ p \notin T /\ p \in Win \cup {Root}
      BY <1>1, <1>2, <1>8
    <3>2. v[p] = t[p]
      BY <1>4, <3>1
    <3>3. t[p].hWndLastChild \in A /\ ListOwner(t, t[p].hWndLastChild) = p
      BY <2>6, <3>1, <3>2 DEF HasRings
    <3>4. t[p].hWndLastChild \in L
      BY <1>10, <3>1, <3>3
    <3> QED
      BY <2>2, <3>2, <3>3, <3>4
  <2> QED
    BY <1>1, <1>8, <2>3, <2>4, <2>5, <2>6 DEF HasRings
<1> QED
  BY <1>3, <1>5, <1>7, <1>13, <1>14, <1>15 DEF Everyone, T, v

LEMMA SameFieldsKept ==
    ASSUME NEW t \in Trees, NEW m \in Trees, TreeKept(t, m), NEW v, NEW T, SameFields(m, v, T)
    PROVE  SameFields(t, v, T)
<1>1. Live(m) = Live(t)
  BY KeptTree
<1>2. \A x \in Live(v) : x \in Win \cup {Root}
  BY DEF Live
<1> QED
  BY <1>1, <1>2 DEF SameFields, TreeKept

LEMMA FreedOfKept ==
    ASSUME NEW t \in Trees, NEW m \in Trees, TreeKept(t, m), NEW v, NEW T, FreedOf(m, v, T)
    PROVE  FreedOf(t, v, T)
<1>1. \A x : Subtree(m, x) = Subtree(t, x) /\ Doomed(m, x) = Doomed(t, x)
  BY KeptTree
<1>2. SameFields(t, v, T)
  BY SameFieldsKept DEF FreedOf
<1> QED
  BY <1>1, <1>2 DEF FreedOf

-----------------------------------------------------------------------------
(* Who is active changes: a window is raised, or none.                      *)
States == [wnd : Trees, active : Handle, focus : Handle, capture : Handle]
Shifted(s, A, u) ==
    /\ u \in States /\ Restacked(s.wnd, A, u.wnd)
    /\ u.capture = s.capture /\ u.focus \in {s.focus} \cup Live(s.wnd)
    /\ u.active \in {s.active, None} \cup (A \cap TopLevel(s.wnd))
    /\ \A x, y : Above(s.wnd, x, y) /\ (y = u.active => y = s.active) => Above(u.wnd, x, y)

LEMMA ActivationsFacts ==
    ASSUME NEW s \in States, Kin(s.wnd), NEW A, HasLists(s.wnd, A), HasRings(s.wnd, A),
           NEW w \in A \cap TopLevel(s.wnd), w # s.active, NEW u \in Activations(s, w)
    PROVE  Shifted(s, A, u) /\ u.active = w /\ u.focus \in Live(s.wnd)
<1> DEFINE t == Top(s.wnd, w, calls)
<1>1. PICK f \in Subtree(t, w) : u = [s EXCEPT !.wnd = t, !.active = w, !.focus = f]
  BY DEF Activations
<1>2. s.wnd \in Trees
  BY DEF States
<1>3. Restacked(s.wnd, A, t) /\ \A x, y : Above(s.wnd, x, y) /\ y # w => Above(t, x, y)
  BY <1>2, TopKeeps
<1> HIDE DEF t
<1>4. t \in Trees /\ Subtree(t, w) \subseteq Live(s.wnd) /\ w \in Win /\ Live(s.wnd) \subseteq Win
  <2>1. t \in Trees /\ TreeKept(s.wnd, t)
    BY <1>3 DEF Restacked
  <2>2. w \in Win /\ Live(s.wnd) \subseteq Win /\ TopLevel(s.wnd) \subseteq Live(s.wnd)
    BY <1>2, TreeFacts
  <2>3. Subtree(t, w) = Subtree(s.wnd, w)
    BY <1>2, <2>1, KeptTree
  <2> QED
    BY <1>2, <2>1, <2>2, <2>3, SubtreeSteps
<1>5. /\ u \in States /\ u.wnd = t /\ u.active = w /\ u.focus = f /\ u.capture = s.capture
      /\ f \in Live(s.wnd)
  BY <1>1, <1>4 DEF States, Handle
<1> QED
  BY <1>3, <1>5 DEF Shifted

LEMMA ActiveFacts ==
    ASSUME NEW s \in States, Kin(s.wnd), NEW A, HasLists(s.wnd, A), HasRings(s.wnd, A),
           NEW w, w \in TopLevel(s.wnd) => w \in A, NEW u \in SetActiveWindow(s, w)
    PROVE  /\ Shifted(s, A, u)
           /\ u.active = IF w = None THEN None ELSE IF w \in TopLevel(s.wnd) THEN w ELSE s.active
<1>1. s.wnd \in Trees
  BY DEF States
<1>2. None \notin TopLevel(s.wnd)
  BY <1>1, TreeFacts
<1>3. Restacked(s.wnd, A, s.wnd)
  BY <1>1, NotRestacked
<1>4. w \in TopLevel(s.wnd) <=> IsWindow(s.wnd, w) /\ ~IsChildStyle(s.wnd, w)
  BY DEF TopLevel, Live, IsWindow
<1>5. CASE w = None
  <2>1. u = [s EXCEPT !.active = None]
    BY <1>5 DEF SetActiveWindow
  <2>2. u \in States /\ u.wnd = s.wnd /\ u.active = None /\ u.focus = s.focus /\ u.capture = s.capture
    BY <2>1 DEF States, Handle
  <2> QED
    BY <1>3, <1>5, <2>2 DEF Shifted
<1>6. CASE w # None /\ (w \notin TopLevel(s.wnd) \/ w = s.active)
  <2>1. u = s
    BY <1>4, <1>6 DEF SetActiveWindow
  <2> QED
    BY <1>3, <1>6, <2>1 DEF Shifted
<1>7. CASE w # None /\ w \in TopLevel(s.wnd) /\ w # s.active
  <2>1. u \in Activations(s, w)
    BY <1>4, <1>7 DEF SetActiveWindow
  <2> QED
    BY <1>7, <2>1, ActivationsFacts
<1> QED
  BY <1>5, <1>6, <1>7

LEMMA FocusFacts ==
    ASSUME NEW s \in States, Kin(s.wnd), Everyone(s.wnd),
           NEW w \in Live(s.wnd) \cup {None}, NEW u \in SetFocus(s, w)
    PROVE  \E f \in Live(s.wnd) \cup {None} :
              \E m : Shifted(s, Live(s.wnd), m) /\ u = [m EXCEPT !.focus = f]
<1>1. s.wnd \in Trees
  BY DEF States
<1>2. HasLists(s.wnd, Live(s.wnd)) /\ HasRings(s.wnd, Live(s.wnd)) /\ TopLevel(s.wnd) \subseteq Live(s.wnd)
  BY <1>1, TreeFacts DEF Everyone
<1>3. CASE w = None
  <2>1. u = [s EXCEPT !.focus = None]
    BY <1>3 DEF SetFocus
  <2>2. Shifted(s, Live(s.wnd), s)
    BY <1>1, <1>2, NotRestacked DEF Shifted
  <2> QED
    BY <2>1, <2>2
<1>4. CASE w # None
  <2> DEFINE a == TopLevelAncestor(s.wnd, w)
  <2>1. PICK m \in SetActiveWindow(s, a) : u = [m EXCEPT !.focus = w]
    BY <1>4 DEF SetFocus
  <2> HIDE DEF a
  <2>2. Shifted(s, Live(s.wnd), m)
    BY <1>2, <2>1, ActiveFacts
  <2> QED
    BY <2>1, <2>2
<1> QED
  BY <1>3, <1>4

(* An element of a list. *)
LEMMA FirstAtFacts ==
    ASSUME NEW t \in Trees, NEW A, HasLists(t, A), NEW p \in Owners(t),
           NEW places \in SUBSET (DOMAIN Children(t, p)), places # {}
    PROVE  /\ FirstAt(Children(t, p), places) \in A
           /\ ListOwner(t, FirstAt(Children(t, p), places)) = p
           /\ Min(places) \in places /\ \A i \in places : Min(places) <= i
<1> DEFINE q == Children(t, p)
<1>1. Listed(t, p, q) /\ ToSet(q) = {x \in A : ListOwner(t, x) = p}
  BY DEF HasLists, ListedAll
<1> HIDE DEF q
<1>2. DOMAIN q = 1..Len(q) /\ Len(q) \in Nat
  BY <1>1 DEF Listed
<1>3. places \in SUBSET Nat
  BY <1>2 DEF q
<1>4. Min(places) \in places /\ \A i \in places : Min(places) <= i
  BY <1>3, MinOfNats
<1>5. q[Min(places)] \in ToSet(q)
  BY <1>4 DEF ToSet, q
<1>6. q[Min(places)] \in A /\ ListOwner(t, q[Min(places)]) = p
  BY <1>1, <1>5
<1> QED
  BY <1>4, <1>6 DEF FirstAt, q

LEMMA FreeFacts ==
    ASSUME NEW s \in States, Kin(s.wnd), NEW w \in Live(s.wnd),
           HasLists(s.wnd, Live(s.wnd) \ {w}), HasRings(s.wnd, Live(s.wnd) \ {w}),
           {s.active, s.focus, s.capture} \subseteq Live(s.wnd) \cup {None}, NEW u \in FreeWindow(s, w)
    PROVE  /\ u \in States /\ SameFields(s.wnd, u.wnd, Subtree(s.wnd, w)) /\ Everyone(u.wnd)
           /\ OwnsNothing(s.wnd, w) => FreedOf(s.wnd, u.wnd, Subtree(s.wnd, w))
           /\ {u.active, u.focus, u.capture} \subseteq Live(u.wnd) \cup {None}
           /\ u.active \in {s.active, None} \cup TopLevel(s.wnd)
           /\ \A x \in Live(u.wnd) : \A y : 
                 Above(s.wnd, x, y) /\ (y = u.active => y = s.active) => Above(u.wnd, x, y)
<1> DEFINE t == s.wnd
           A == Live(t) \ {w}
           T == Subtree(t, w)
           next == IF t[s.active].hWndOwner # None THEN t[s.active].hWndOwner
                   ELSE FindAnotherOverlapped(t, s.active)
<1>1. /\ t \in Trees /\ s.active \in Handle /\ s.focus \in Handle /\ s.capture \in Handle
  BY DEF States
<1>2. /\ Live(t) \subseteq Win /\ None \notin Win /\ Root \notin Win /\ w \in Win
      /\ TopLevel(t) \subseteq Live(t) /\ Root \in Owners(t)
  BY <1>1, TreeFacts DEF Owners
<1>3. /\ T \subseteq Live(t) /\ w \in T
      /\ \A x \in TopLevel(t) : x \in T => x = w
  BY <1>1, <1>2, SubtreeSteps
<1>4. s.active \in T => next = None \/ (next \in TopLevel(t) /\ next \in A)
  <2> SUFFICES ASSUME s.active \in T PROVE next = None \/ (next \in TopLevel(t) /\ next \in A)
    OBVIOUS
  <2>1. s.active \in Live(t)
    BY <1>3
  <2>2. CASE t[s.active].hWndOwner # None
    <3>1. /\ s.active \in TopLevel(t) /\ t[s.active].hWndOwner \in TopLevel(t)
          /\ t[s.active].hWndOwner # s.active
      BY <1>1, <2>1, <2>2, KinFacts
    <3>2. s.active = w
      BY <1>3, <3>1
    <3> QED
      BY <1>2, <2>2, <3>1, <3>2
  <2>3. CASE t[s.active].hWndOwner = None
    <3> DEFINE list == Children(t, Root)
               all == {i \in DOMAIN list : t[list[i]].kind = "overlapped"}
               same == {i \in all : TaskOf[list[i]] = TaskOf[s.active] /\ list[i] # s.active}
    <3>1. next = IF same # {} THEN FirstAt(list, same) ELSE IF all # {} THEN FirstAt(list, all) ELSE None
      BY <2>3 DEF FindAnotherOverlapped
    <3>2. ASSUME NEW places \in SUBSET all, places # {}
          PROVE  FirstAt(list, places) \in TopLevel(t) /\ FirstAt(list, places) \in A
      <4>1. places \in SUBSET (DOMAIN list)
        OBVIOUS
      <4>2. FirstAt(list, places) \in A /\ Min(places) \in places
        BY <1>1, <1>2, <3>2, <4>1, FirstAtFacts
      <4>3. t[FirstAt(list, places)].kind = "overlapped"
        BY <4>2 DEF FirstAt
      <4> QED
        BY <4>2, <4>3 DEF TopLevel, IsChildStyle
    <3>3. same \in SUBSET all /\ all \in SUBSET all
      OBVIOUS
    <3> HIDE DEF same, all, list
    <3> QED
      BY <3>1, <3>2, <3>3
  <2> QED
    BY <2>2, <2>3
<1>5. PICK m \in (IF s.active \in T THEN SetActiveWindow(s, next) ELSE {s}) :
         u = [m EXCEPT !.wnd = Cleared(m.wnd, T),
                       !.focus = IF m.focus \in T THEN None ELSE m.focus,
                       !.capture = IF m.capture \in T THEN None ELSE m.capture]
  BY DEF FreeWindow, Cleared
<1> HIDE DEF next
<1>6. Shifted(s, A, m) /\ m.active \notin T
  <2>1. CASE s.active \in T
    <3>1. next \in TopLevel(t) => next \in A
      BY <1>2, <1>4, <2>1
    <3>2. /\ Shifted(s, A, m)
          /\ m.active = IF next = None THEN None ELSE IF next \in TopLevel(t) THEN next ELSE s.active
      BY <1>5, <2>1, <3>1, ActiveFacts
    <3> QED
      BY <1>2, <1>3, <1>4, <2>1, <3>2
  <2>2. CASE s.active \notin T
    <3>1. m = s
      BY <1>5, <2>2
    <3>2. Restacked(t, A, t)
      BY <1>1, NotRestacked
    <3> QED
      BY <2>2, <3>1, <3>2 DEF Shifted
  <2> QED
    BY <2>1, <2>2
<1> DEFINE r == m.wnd
<1>7. /\ m \in States /\ r \in Trees /\ TreeKept(t, r) /\ HasLists(r, A) /\ HasRings(r, A)
  BY <1>6 DEF Shifted, Restacked, States
<1>8. /\ Live(r) = Live(t) /\ Subtree(r, w) = T
      /\ \A x \in Win : ListOwner(r, x) = ListOwner(t, x)
  BY <1>1, <1>7, KeptTree
<1>9. Kin(r) /\ (OwnsNothing(t, w) => OwnsNothing(r, w))
  <2>1. Kin(r)
    BY <1>1, <1>7, KinKept
  <2>2. OwnsNothing(t, w) => OwnsNothing(r, w)
    BY <1>2, <1>7, <1>8 DEF OwnsNothing, TreeKept
  <2> QED
    BY <2>1, <2>2
<1> DEFINE v == Cleared(r, T)
<1>10. /\ v \in Trees /\ SameFields(r, v, T) /\ Everyone(v)
       /\ OwnsNothing(r, w) => FreedOf(r, v, T)
       /\ \A x \in Live(v) : \A y : Above(r, x, y) => Above(v, x, y)
  BY <1>7, <1>8, <1>9, ClearedFacts
<1> HIDE DEF v
<1>11. SameFields(t, v, T) /\ (OwnsNothing(t, w) => FreedOf(t, v, T))
  <2>1. SameFields(t, v, T)
    BY <1>1, <1>7, <1>10, SameFieldsKept
  <2>2. OwnsNothing(t, w) => FreedOf(t, v, T)
    BY <1>1, <1>7, <1>9, <1>10, FreedOfKept
  <2> QED
    BY <2>1, <2>2
<1>12. v \in Trees /\ Live(v) = Live(t) \ T
  BY <1>10, <1>11 DEF SameFields
<1>13. /\ u \in States /\ u.wnd = v /\ u.active = m.active
       /\ u.focus = (IF m.focus \in T THEN None ELSE m.focus)
       /\ u.capture = (IF m.capture \in T THEN None ELSE m.capture)
  <2>1. u = [m EXCEPT !.wnd = v, !.focus = IF m.focus \in T THEN None ELSE m.focus,
                      !.capture = IF m.capture \in T THEN None ELSE m.capture]
    BY <1>5 DEF v
  <2> QED
    BY <1>7, <1>12, <2>1 DEF States, Handle
<1>14. /\ m.active \in {s.active, None} \cup (A \cap TopLevel(t))
       /\ m.focus \in Live(t) \cup {None} /\ m.capture \in Live(t) \cup {None}
  BY <1>6 DEF Shifted
<1>15. {u.active, u.focus, u.capture} \subseteq Live(v) \cup {None}
  BY <1>6, <1>12, <1>13, <1>14
<1>16. ASSUME NEW x \in Live(v), NEW y, Above(t, x, y), y = u.active => y = s.active PROVE Above(v, x, y)
  <2>1. Above(r, x, y)
    BY <1>6, <1>13, <1>16 DEF Shifted
  <2> QED
    BY <1>10, <2>1
<1> QED
  BY <1>10, <1>11, <1>13, <1>14, <1>15, <1>16

-----------------------------------------------------------------------------
(* The calls of DestroyWindow under way.  A window that waits for its        *)
(* notices is a child, or gone; the others are alive, and path leads down.  *)
CallRec == [w : Win, path : Seq(Win), pc : {"notify", "owned", "tell"}, cur : Handle]
Held(c) == {c.w} \cup ToSet(c.path)
PathOK(t, w, path) ==
    /\ Len(path) > 0 /\ path[1] = w
    /\ \A k \in 2..Len(path) : /\ path[k] \in Live(t) /\ IsChildStyle(t, path[k])
                               /\ t[path[k]].hWndParent = path[k - 1]
CallOK(t, c) ==
    /\ c.pc = "notify" => c.path = << >> /\ c.cur = None /\ (c.w \in Live(t) => IsChildStyle(t, c.w))
    /\ c.pc = "owned" => c.w \in Live(t) /\ c.path = << >> /\ (c.cur \in Live(t) => c.cur \in TopLevel(t))
    /\ c.pc = "tell" => c.w \in Live(t) /\ PathOK(t, c.w, c.path)

(* A later call destroys nothing that an earlier one stands at.             *)
Apart(t, cs) ==
    \A i, j \in 1..Len(cs) : i < j /\ cs[i].pc # "notify" => Doomed(t, cs[j].w) \cap Held(cs[i]) = {}

(* What a walk over owned windows has not met is ahead of it, or is being    *)
(* destroyed by a later call; nothing owned is left when the tree is told.  *)
AheadOf(t, cur, x) == cur # None /\ (cur \notin Live(t) \/ x = cur \/ Above(t, cur, x))
LaterCall(cs, i, x) == \E j \in 1..Len(cs) : i < j /\ cs[j].w = x
WalkAt(t, X, cs, i) ==
    /\ cs[i].pc = "owned" => \A x \in X : t[x].hWndOwner = cs[i].w =>
                                LaterCall(cs, i, x) \/ AheadOf(t, cs[i].cur, x)
    /\ cs[i].pc = "tell" => \A x \in X : t[x].hWndOwner # cs[i].w

(* What is not told yet is below the window told last, or below a window    *)
(* that follows one of the path.                                            *)
ToCome(t, path, x) ==
    \/ x \in Subtree(t, Last(path)) \ {Last(path)}
    \/ \E k \in 2..Len(path), s \in Live(t) : Above(t, path[k], s) /\ x \in Subtree(t, s)
RestOf(t, c, to) == c.pc = "tell" => \A x \in Subtree(t, c.w) : x \in to \/ ToCome(t, c.path, x)

CallsIn(t, X, cs, to) ==
    /\ cs \in Seq(CallRec) /\ Apart(t, cs)
    /\ \A i \in 1..Len(cs) : CallOK(t, cs[i]) /\ WalkAt(t, X, cs, i) /\ RestOf(t, cs[i], to)

LEMMA AboveFacts ==
    ASSUME NEW t \in Trees, NEW A, HasLists(t, A), NEW x, NEW y, Above(t, x, y)
    PROVE  x \in A /\ y \in A /\ ListOwner(t, x) = ListOwner(t, y)
<1>1. PICK p \in Owners(t) : Precedes(Children(t, p), x, y)
  BY DEF Above
<1>2. x \in ToSet(Children(t, p)) /\ y \in ToSet(Children(t, p))
  BY <1>1 DEF Precedes, ToSet
<1> QED
  BY <1>1, <1>2 DEF HasLists, ListedAll

LEMMA SubtreeOfLive ==
    ASSUME NEW t \in Trees, Kin(t), NEW s, NEW x \in Subtree(t, s)
    PROVE  s \in Live(t)
<1>1. Leads(Parents(t)) /\ Live(t) \subseteq Win
  BY TreeFacts
<1>2. ClosedUp(Parents(t), Live(t))
  BY KinFacts DEF ClosedUp
<1>3. x \in Live(t) /\ s \in Reach(Parents(t), x)
  BY DEF Subtree, Ancestors
<1> QED
  BY <1>1, <1>2, <1>3, ReachLeast

(* A path is a way down from its first window. *)
LEMMA PathFacts ==
    ASSUME NEW t \in Trees, Kin(t), Everyone(t), NEW w \in Live(t), NEW path \in Seq(Win), PathOK(t, w, path),
           NEW k \in 2..Len(path), NEW s, Above(t, path[k], s)
    PROVE  s \in Live(t) /\ IsChildStyle(t, s) /\ t[s].hWndParent = path[k - 1] /\ s \notin TopLevel(t)
<1>1. path[k] \in Live(t) /\ IsChildStyle(t, path[k]) /\ t[path[k]].hWndParent = path[k - 1]
  BY DEF PathOK
<1>2. s \in Live(t) /\ ListOwner(t, s) = ListOwner(t, path[k])
  BY AboveFacts DEF Everyone
<1>3. path[k - 1] \in Win /\ Root \notin Win
  BY TreeFacts
<1>4. ListOwner(t, s) # Root
  BY <1>1, <1>2, <1>3 DEF ListOwner
<1> QED
  BY <1>1, <1>2, <1>4 DEF ListOwner, TopLevel

(* The calls under way are as before when windows of T are freed that none   *)
(* of them stands at, and when a window of Up is raised that no walk looks  *)
(* for.                                                                     *)
LEMMA CallsStay ==
    ASSUME NEW t \in Trees, Kin(t), Everyone(t), NEW v, NEW T, FreedOf(t, v, T),
           NEW X, X \subseteq Live(v),
           NEW cs, NEW to, CallsIn(t, X, cs, to), NEW to2, to \ T \subseteq to2,
           \A i \in 1..Len(cs) : cs[i].pc # "notify" => T \cap Held(cs[i]) = {},
           NEW Up, Up \subseteq TopLevel(t),
           \A x \in Live(v), y \in Live(v) \ Up : Above(t, x, y) => Above(v, x, y),
           \A i \in 1..Len(cs), a \in Up \cap X :
              cs[i].pc = "owned" /\ t[a].hWndOwner = cs[i].w => LaterCall(cs, i, a)
    PROVE  CallsIn(v, X, cs, to2)
<1>1. /\ v \in Trees /\ Kin(v) /\ Live(v) = Live(t) \ T
      /\ \A x \in Live(v) : /\ IsChildStyle(v, x) = IsChildStyle(t, x) /\ v[x].hWndParent = t[x].hWndParent
                            /\ v[x].hWndOwner = t[x].hWndOwner
      /\ \A z \in Win : Subtree(v, z) = Subtree(t, z) \ T /\ Doomed(v, z) \subseteq Doomed(t, z)
  BY DEF FreedOf, SameFields, IsChildStyle
<1>2. Live(t) \subseteq Win /\ TopLevel(t) \subseteq Live(t)
  BY TreeFacts
<1>3. TopLevel(v) = TopLevel(t) \ T
  BY <1>1 DEF TopLevel
<1>4. \A i \in 1..Len(cs) : /\ cs[i] \in CallRec /\ cs[i].w \in Win /\ cs[i].path \in Seq(Win)
                            /\ CallOK(t, cs[i]) /\ WalkAt(t, X, cs, i) /\ RestOf(t, cs[i], to)
  <2>1. cs \in Seq(CallRec)
        /\ \A i \in 1..Len(cs) : CallOK(t, cs[i]) /\ WalkAt(t, X, cs, i) /\ RestOf(t, cs[i], to)
    BY DEF CallsIn
  <2>2. \A i \in 1..Len(cs) : cs[i] \in CallRec
    BY <2>1
  <2>3. \A c \in CallRec : c.w \in Win /\ c.path \in Seq(Win)
    BY DEF CallRec
  <2> QED
    BY <2>1, <2>2, <2>3
<1>5. ASSUME NEW i \in 1..Len(cs) PROVE CallOK(v, cs[i])
  <2> DEFINE c == cs[i]
  <2>1. CallOK(t, c) /\ c \in CallRec
    BY <1>4
  <2>2. c.pc # "notify" => T \cap Held(c) = {}
    OBVIOUS
  <2> HIDE DEF c
  <2>3. c.pc = "notify" => c.path = << >> /\ c.cur = None /\ (c.w \in Live(v) => IsChildStyle(v, c.w))
    BY <1>1, <2>1 DEF CallOK
  <2>4. c.pc = "owned" => c.w \in Live(v) /\ c.path = << >> /\ (c.cur \in Live(v) => c.cur \in TopLevel(v))
    BY <1>1, <1>3, <2>1, <2>2 DEF CallOK, Held
  <2>5. c.pc = "tell" => c.w \in Live(v) /\ PathOK(v, c.w, c.path)
    <3> SUFFICES ASSUME c.pc = "tell" PROVE c.w \in Live(v) /\ PathOK(v, c.w, c.path)
      OBVIOUS
    <3>1. c.w \in Live(t) /\ PathOK(t, c.w, c.path) /\ T \cap Held(c) = {}
      BY <2>1, <2>2 DEF CallOK
    <3>2. c.w \in Live(v)
      BY <1>1, <3>1 DEF Held
    <3>3. \A k \in 2..Len(c.path) : c.path[k] \notin T
      <4>1. c.path \in Seq(Win)
        BY <2>1 DEF CallRec
      <4>2. \A k \in 2..Len(c.path) : c.path[k] \in ToSet(c.path)
        BY <4>1 DEF ToSet
      <4> QED
        BY <3>1, <4>2 DEF Held
    <3>4. PathOK(v, c.w, c.path)
      BY <1>1, <3>1, <3>3 DEF PathOK
    <3> QED
      BY <3>2, <3>4
  <2>6. CallOK(v, c)
    BY <2>3, <2>4, <2>5 DEF CallOK
  <2> QED
    BY <2>6 DEF c
<1>6. Apart(v, cs)
  <2>1. Apart(t, cs)
    BY DEF CallsIn
  <2> QED
    BY <1>1, <1>4, <2>1 DEF Apart
<1>7. ASSUME NEW i \in 1..Len(cs) PROVE WalkAt(v, X, cs, i)
  <2>1. WalkAt(t, X, cs, i)
    BY <1>4
  <2>2. ASSUME cs[i].pc = "owned", NEW x \in X, v[x].hWndOwner = cs[i].w
        PROVE  LaterCall(cs, i, x) \/ AheadOf(v, cs[i].cur, x)
    <3> DEFINE cur == cs[i].cur
    <3>1. x \in Live(v) /\ x \in Live(t) /\ t[x].hWndOwner = cs[i].w /\ x \in Win
      BY <1>1, <1>2, <2>2
    <3>2. LaterCall(cs, i, x) \/ AheadOf(t, cur, x)
      BY <2>1, <2>2, <3>1 DEF WalkAt
    <3>3. CASE x \in Up
      BY <2>2, <3>1, <3>3
    <3>4. CASE x \notin Up /\ AheadOf(t, cur, x)
      <4>1. CASE cur \notin Live(v)
        BY <3>4, <4>1 DEF AheadOf
      <4>2. CASE cur \in Live(v)
        <5>1. x = cur \/ Above(t, cur, x)
          BY <1>1, <3>4, <4>2 DEF AheadOf
        <5>2. x = cur \/ Above(v, cur, x)
          BY <2>2, <3>1, <3>4, <4>2, <5>1
        <5> QED
          BY <3>4, <5>2 DEF AheadOf
      <4> QED
        BY <4>1, <4>2
    <3> QED
      BY <3>2, <3>3, <3>4
  <2>3. ASSUME cs[i].pc = "tell", NEW x \in X PROVE v[x].hWndOwner # cs[i].w
    BY <1>1, <2>1, <2>3 DEF WalkAt
  <2> QED
    BY <2>2, <2>3 DEF WalkAt
<1>8. ASSUME NEW i \in 1..Len(cs) PROVE RestOf(v, cs[i], to2)
  <2> DEFINE c == cs[i]
  <2>1. RestOf(t, c, to) /\ CallOK(t, c) /\ c \in CallRec /\ CallOK(v, c)
    BY <1>4, <1>5
  <2> HIDE DEF c
  <2>2. ASSUME c.pc = "tell", NEW x \in Subtree(v, c.w) PROVE x \in to2 \/ ToCome(v, c.path, x)
    <3> DEFINE path == c.path
               l == Last(path)
    <3>1. path \in Seq(Win) /\ c.w \in Live(t) /\ c.w \in Win /\ PathOK(t, c.w, path) /\ PathOK(v, c.w, path)
      BY <2>1, <2>2 DEF CallRec, CallOK
    <3>2. l \in Win
      BY <3>1 DEF PathOK, Last
    <3> HIDE DEF path, l
    <3>3. x \in Subtree(t, c.w) /\ x \notin T
      BY <1>1, <2>2, <3>1
    <3>4. x \in to \/ ToCome(t, path, x)
      BY <2>1, <2>2, <3>3 DEF RestOf, path
    <3>5. CASE x \in to
      BY <3>3, <3>5
    <3>6. CASE x \in Subtree(t, l) \ {l}
      <4>1. x \in Subtree(v, l) \ {l}
        BY <1>1, <3>2, <3>3, <3>6
      <4> QED
        BY <4>1 DEF ToCome, l, path
    <3>7. CASE \E k \in 2..Len(path), s \in Live(t) : Above(t, path[k], s) /\ x \in Subtree(t, s)
      <4>1. PICK k \in 2..Len(path), s \in Live(t) : Above(t, path[k], s) /\ x \in Subtree(t, s)
        BY <3>7
      <4>2. s \notin TopLevel(t) /\ s \in Win
        BY <1>2, <3>1, <4>1, PathFacts
      <4>3. x \in Subtree(v, s)
        BY <1>1, <3>3, <4>1, <4>2
      <4>4. s \in Live(v)
        BY <1>1, <4>3, SubtreeOfLive
      <4>5. path[k] \in Live(v)
        BY <3>1 DEF PathOK
      <4>6. Above(v, path[k], s)
        BY <4>1, <4>2, <4>4, <4>5, Up \subseteq TopLevel(t)
      <4> QED
        BY <4>3, <4>4, <4>6 DEF ToCome, path
    <3> QED
      BY <3>4, <3>5, <3>6, <3>7 DEF ToCome, l
  <2>3. RestOf(v, c, to2)
    BY <2>2 DEF RestOf
  <2> QED
    BY <2>3 DEF c
<1> QED
  BY <1>5, <1>6, <1>7, <1>8 DEF CallsIn

(* The last call returns, goes on, or makes another one.                    *)
LEMMA CallReturns ==
    ASSUME NEW t, NEW X, NEW cs, NEW to, CallsIn(t, X, cs, to),
           NEW o \in Seq(CallRec), NEW c, HasLast(cs, c, o), c.w \notin X
    PROVE  CallsIn(t, X, o, to)
<1>1. /\ cs \in Seq(CallRec) /\ Len(cs) = Len(o) + 1 /\ cs[Len(cs)] = c /\ Len(o) \in Nat
      /\ \A i \in 1..Len(o) : i \in 1..Len(cs) /\ cs[i] = o[i]
  BY DEF HasLast, CallsIn
<1>2. Apart(t, o)
  BY <1>1 DEF CallsIn, Apart
<1>3. ASSUME NEW i \in 1..Len(o), NEW x \in X, LaterCall(cs, i, x) PROVE LaterCall(o, i, x)
  <2>1. PICK j \in 1..Len(cs) : i < j /\ cs[j].w = x
    BY <1>3 DEF LaterCall
  <2>2. j # Len(cs)
    BY <1>1, <1>3, <2>1
  <2>3. j \in 1..Len(o)
    BY <1>1, <2>1, <2>2
  <2> QED
    BY <1>1, <2>1, <2>3 DEF LaterCall
<1>4. \A i \in 1..Len(o) : WalkAt(t, X, o, i)
  <2>1. ASSUME NEW i \in 1..Len(o) PROVE WalkAt(t, X, o, i)
    <3>1. WalkAt(t, X, cs, i) /\ cs[i] = o[i]
      BY <1>1 DEF CallsIn
    <3> QED
      BY <1>3, <3>1 DEF WalkAt
  <2> QED
    BY <2>1
<1> QED
  BY <1>1, <1>2, <1>4 DEF CallsIn

LEMMA CallGoesOn ==
    ASSUME NEW t, NEW X, NEW cs, NEW to, CallsIn(t, X, cs, to), NEW Y, Y \subseteq X,
           NEW o \in Seq(CallRec), NEW c, HasLast(cs, c, o),
           NEW d \in CallRec, d.w = c.w, NEW ds \in Seq(CallRec), HasLast(ds, d, o),
           NEW to2, to \subseteq to2, CallOK(t, d), WalkAt(t, Y, ds, Len(ds)), RestOf(t, d, to2)
    PROVE  CallsIn(t, Y, ds, to2)
<1>1. /\ cs \in Seq(CallRec) /\ Len(cs) = Len(o) + 1 /\ cs[Len(cs)] = c /\ Len(o) \in Nat
      /\ Len(ds) = Len(cs) /\ ds[Len(ds)] = d
      /\ \A i \in 1..Len(o) : i \in 1..Len(cs) /\ cs[i] = o[i] /\ ds[i] = o[i]
  BY DEF HasLast, CallsIn
<1>2. \A i \in 1..Len(cs) : ds[i].w = cs[i].w
  <2>1. ASSUME NEW i \in 1..Len(cs) PROVE ds[i].w = cs[i].w
    <3>1. i \in 1..Len(o) \/ i = Len(cs)
      BY <1>1
    <3> QED
      BY <1>1, <3>1
  <2> QED
    BY <2>1
<1>3. Apart(t, ds)
  <2>1. ASSUME NEW i \in 1..Len(ds), NEW j \in 1..Len(ds), i < j, ds[i].pc # "notify"
        PROVE  Doomed(t, ds[j].w) \cap Held(ds[i]) = {}
    <3>1. i \in 1..Len(o) /\ i \in 1..Len(cs) /\ j \in 1..Len(cs)
      BY <1>1, <2>1
    <3>2. ds[i] = cs[i] /\ ds[j].w = cs[j].w
      BY <1>1, <1>2, <3>1
    <3> QED
      BY <2>1, <3>1, <3>2 DEF CallsIn, Apart
  <2> QED
    BY <2>1 DEF Apart
<1>4. \A i \in 1..Len(cs) : \A x : LaterCall(cs, i, x) <=> LaterCall(ds, i, x)
  BY <1>1, <1>2 DEF LaterCall
<1>5. ASSUME NEW i \in 1..Len(ds) PROVE CallOK(t, ds[i]) /\ WalkAt(t, Y, ds, i) /\ RestOf(t, ds[i], to2)
  <2>1. CASE i = Len(ds)
    BY <1>1, <2>1
  <2>2. CASE i # Len(ds)
    <3>1. i \in 1..Len(o) /\ i \in 1..Len(cs)
      BY <1>1, <2>2
    <3>2. ds[i] = cs[i] /\ CallOK(t, cs[i]) /\ WalkAt(t, X, cs, i) /\ RestOf(t, cs[i], to)
      BY <1>1, <3>1 DEF CallsIn
    <3>3. WalkAt(t, Y, ds, i)
      BY <1>4, <3>1, <3>2 DEF WalkAt
    <3>4. RestOf(t, ds[i], to2)
      BY <3>2 DEF RestOf
    <3> QED
      BY <3>2, <3>3, <3>4
  <2> QED
    BY <2>1, <2>2
<1> QED
  BY <1>3, <1>5 DEF CallsIn

LEMMA CallsAnother ==
    ASSUME NEW t, NEW X, NEW cs, NEW to, NEW d \in CallRec, CallsIn(t, X \ {d.w}, cs, to),
           NEW ds \in Seq(CallRec), HasLast(ds, d, cs), CallOK(t, d), d.pc # "tell",
           \A i \in 1..Len(cs) : cs[i].pc # "notify" => Doomed(t, d.w) \cap Held(cs[i]) = {},
           d.w \in X => \A i \in 1..Len(cs) : cs[i].pc = "tell" => t[d.w].hWndOwner # cs[i].w,
           d.pc = "owned" => \A x \in X : t[x].hWndOwner = d.w => AheadOf(t, d.cur, x)
    PROVE  CallsIn(t, X, ds, to)
<1>1. /\ cs \in Seq(CallRec) /\ Len(ds) = Len(cs) + 1 /\ ds[Len(ds)] = d /\ Len(cs) \in Nat
      /\ \A i \in 1..Len(cs) : i \in 1..Len(ds) /\ ds[i] = cs[i]
  BY DEF HasLast, CallsIn
<1>2. Apart(t, ds)
  <2>1. ASSUME NEW i \in 1..Len(ds), NEW j \in 1..Len(ds), i < j, ds[i].pc # "notify"
        PROVE  Doomed(t, ds[j].w) \cap Held(ds[i]) = {}
    <3>1. i \in 1..Len(cs) /\ ds[i] = cs[i]
      BY <1>1, <2>1
    <3>2. CASE j = Len(ds)
      BY <1>1, <2>1, <3>1, <3>2
    <3>3. CASE j # Len(ds)
      <4>1. j \in 1..Len(cs)
        BY <1>1, <3>3
      <4> QED
        BY <1>1, <2>1, <3>1, <4>1 DEF CallsIn, Apart
    <3> QED
      BY <3>2, <3>3
  <2> QED
    BY <2>1 DEF Apart
<1>3. ASSUME NEW i \in 1..Len(cs) PROVE WalkAt(t, X, ds, i)
  <2>1. WalkAt(t, X \ {d.w}, cs, i) /\ ds[i] = cs[i]
    BY <1>1 DEF CallsIn
  <2>2. LaterCall(ds, i, d.w)
    <3>1. Len(ds) \in 1..Len(ds) /\ i < Len(ds)
      BY <1>1
    <3> QED
      BY <1>1, <3>1 DEF LaterCall
  <2>3. \A x : LaterCall(cs, i, x) => LaterCall(ds, i, x)
    BY <1>1 DEF LaterCall
  <2>4. ASSUME cs[i].pc = "owned", NEW x \in X, t[x].hWndOwner = cs[i].w
        PROVE  LaterCall(ds, i, x) \/ AheadOf(t, cs[i].cur, x)
    BY <2>1, <2>2, <2>3, <2>4 DEF WalkAt
  <2>5. ASSUME cs[i].pc = "tell", NEW x \in X PROVE t[x].hWndOwner # cs[i].w
    BY <2>1, <2>5 DEF WalkAt
  <2> QED
    BY <2>1, <2>4, <2>5 DEF WalkAt
<1>4. WalkAt(t, X, ds, Len(ds))
  BY <1>1 DEF WalkAt
<1>5. ASSUME NEW i \in 1..Len(ds) PROVE CallOK(t, ds[i]) /\ WalkAt(t, X, ds, i) /\ RestOf(t, ds[i], to)
  <2>1. CASE i = Len(ds)
    BY <1>1, <1>4, <2>1 DEF RestOf
  <2>2. CASE i # Len(ds)
    <3>1. i \in 1..Len(cs)
      BY <1>1, <2>2
    <3> QED
      BY <1>1, <1>3, <3>1 DEF CallsIn
  <2> QED
    BY <2>1, <2>2
<1> QED
  BY <1>2, <1>5 DEF CallsIn

-----------------------------------------------------------------------------
(* The walk over owned windows, from cur on, sees what is ahead of it.       *)
RootList(t, q) ==
    /\ Listed(t, Root, q) /\ Children(t, Root) = q /\ ToSet(q) = TopLevel(t) /\ Len(q) \in Nat
    /\ \A i \in 1..Len(q) : q[i] \in TopLevel(t) /\ q[i] \in Win

LEMMA RootListed ==
    ASSUME NEW t \in Trees, Kin(t), Everyone(t)
    PROVE  RootList(t, Children(t, Root))
<1> DEFINE q == Children(t, Root)
<1>1. Root \in Owners(t) /\ Root \notin Win /\ Live(t) \subseteq Win
  BY TreeFacts DEF Owners
<1>2. Listed(t, Root, q) /\ ToSet(q) = {x \in Live(t) : ListOwner(t, x) = Root}
  BY <1>1 DEF Everyone, HasLists, ListedAll
<1> HIDE DEF q
<1>3. \A x \in Live(t) : ListOwner(t, x) = Root <=> x \in TopLevel(t)
  <2>1. ASSUME NEW x \in Live(t) PROVE ListOwner(t, x) = Root <=> x \in TopLevel(t)
    <3>1. /\ x \in TopLevel(t) <=> ~IsChildStyle(t, x)
          /\ IsChildStyle(t, x) => t[x].hWndParent \in Live(t)
      BY KinFacts
    <3> QED
      BY <1>1, <3>1 DEF ListOwner
  <2> QED
    BY <2>1
<1>4. ToSet(q) = TopLevel(t)
  BY <1>2, <1>3 DEF TopLevel
<1>5. q \in Seq(Win) /\ DOMAIN q = 1..Len(q) /\ Len(q) \in Nat
  BY <1>2 DEF Listed
<1>6. \A i \in 1..Len(q) : q[i] \in TopLevel(t) /\ q[i] \in Win
  BY <1>4, <1>5 DEF ToSet
<1> QED
  BY <1>2, <1>4, <1>5, <1>6 DEF RootList, q

(* Where the walk goes on: at the place a of the list of top-level windows.  *)
GoesOnAt(t, q, cur, a) ==
    /\ a \in 1..Len(q) /\ NextSibling(t, cur) = q[a]
    /\ \A x \in TopLevel(t) : AheadOf(t, cur, x) => \E m \in 1..Len(q) : a <= m /\ q[m] = x

LEMMA WalkGoesOn ==
    ASSUME NEW t \in Trees, Kin(t), Everyone(t), NEW cur \in Handle, cur \in Live(t) => cur \in TopLevel(t)
    PROVE  \/ /\ NextSibling(t, cur) = None
              /\ \A x \in TopLevel(t) : ~AheadOf(t, cur, x)
           \/ \E a \in 1..Len(Children(t, Root)) : GoesOnAt(t, Children(t, Root), cur, a)
<1> DEFINE q == Children(t, Root)
<1>1. RootList(t, q)
  BY RootListed
<1> HIDE DEF q
<1>2. /\ q \in Seq(Win) /\ IsInjective(q) /\ DOMAIN q = 1..Len(q) /\ Len(q) \in Nat
      /\ t[Root].hWndChild = (IF Len(q) = 0 THEN None ELSE q[1])
      /\ \A x \in TopLevel(t) : \E m \in 1..Len(q) : q[m] = x
  <2>1. q \in Seq(Win) /\ IsInjective(q) /\ t[Root].hWndChild = IF Len(q) = 0 THEN None ELSE q[1]
    BY <1>1 DEF RootList, Listed
  <2>2. DOMAIN q = 1..Len(q) /\ Len(q) \in Nat
    BY <2>1
  <2>3. \A x \in TopLevel(t) : x \in ToSet(q)
    BY <1>1 DEF RootList
  <2>4. \A x \in TopLevel(t) : \E m \in 1..Len(q) : q[m] = x
    BY <2>2, <2>3 DEF ToSet
  <2> QED
    BY <2>1, <2>2, <2>4
<1>3. \A x : IsWindow(t, x) <=> x \in Live(t)
  BY DEF Live, IsWindow
<1>4. CASE cur = None
  BY <1>4 DEF NextSibling, AheadOf
<1>5. CASE cur # None /\ cur \notin Live(t)
  <2>1. NextSibling(t, cur) = t[Root].hWndChild
    BY <1>3, <1>5 DEF NextSibling
  <2>2. CASE Len(q) = 0
    <3>1. TopLevel(t) = {}
      BY <1>2, <2>2
    <3> QED
      BY <1>2, <2>1, <2>2, <3>1
  <2>3. CASE Len(q) # 0
    <3>1. 1 \in 1..Len(q) /\ NextSibling(t, cur) = q[1]
      BY <1>2, <2>1, <2>3
    <3>2. \A m \in 1..Len(q) : 1 <= m
      BY <1>2
    <3>3. GoesOnAt(t, q, cur, 1)
      BY <1>2, <3>1, <3>2 DEF GoesOnAt
    <3> QED
      BY <3>1, <3>3 DEF q
  <2> QED
    BY <2>2, <2>3
<1>6. CASE cur \in Live(t) /\ cur # None
  <2>1. PICK a \in 1..Len(q) : q[a] = cur
    BY <1>2, <1>6
  <2>2. NextSibling(t, cur) = q[a]
    BY <1>3, <1>6, <2>1 DEF NextSibling
  <2>3. ASSUME NEW x \in TopLevel(t), AheadOf(t, cur, x) PROVE \E m \in 1..Len(q) : a <= m /\ q[m] = x
    <3>1. CASE x = cur
      <4>1. a \in Int
        BY <1>2
      <4> QED
        BY <2>1, <3>1, <4>1
    <3>2. CASE Above(t, cur, x)
      <4>1. PICK p \in Owners(t) : Precedes(Children(t, p), cur, x)
        BY <3>2 DEF Above
      <4>2. x \in ToSet(Children(t, p))
        BY <4>1 DEF Precedes, ToSet
      <4>3. ListOwner(t, x) = p
        BY <4>1, <4>2 DEF Everyone, HasLists, ListedAll
      <4>4. p = Root
        BY <4>3 DEF TopLevel, ListOwner
      <4>5. PICK i \in DOMAIN q, j \in DOMAIN q : i < j /\ q[i] = cur /\ q[j] = x
        BY <4>1, <4>4 DEF Precedes, q
      <4>6. i = a
        BY <1>2, <2>1, <4>5 DEF IsInjective
      <4>7. a <= j /\ j \in 1..Len(q)
        BY <1>2, <4>5, <4>6
      <4> QED
        BY <4>5, <4>7
    <3> QED
      BY <1>6, <2>3, <3>1, <3>2 DEF AheadOf
  <2>4. GoesOnAt(t, q, cur, a)
    BY <2>1, <2>2, <2>3 DEF GoesOnAt
  <2> QED
    BY <2>4 DEF q
<1> QED
  BY <1>4, <1>5, <1>6

LEMMA OwnedWalk ==
    ASSUME NEW t \in Trees, Kin(t), Everyone(t), NEW cur \in Handle, cur \in Live(t) => cur \in TopLevel(t),
           NEW w \in Live(t), NEW X, X \subseteq Live(t),
           \A x \in X : t[x].hWndOwner = w => AheadOf(t, cur, x)
    PROVE  LET x == OwnedFrom(t, cur, w)
           IN /\ x = None => \A y \in X : t[y].hWndOwner # w
              /\ x # None =>
                    /\ x \in TopLevel(t) /\ t[x].hWndOwner = w
                    /\ t[x].hWndSibling \in Live(t) => t[x].hWndSibling \in TopLevel(t)
                    /\ \A y \in X \ {x} : t[y].hWndOwner = w => AheadOf(t, t[x].hWndSibling, y)
<1> DEFINE q == Children(t, Root)
           nx == NextSibling(t, cur)
           r == Siblings(t, nx)
           owned == {i \in DOMAIN r : t[r[i]].hWndOwner = w}
           x == OwnedFrom(t, cur, w)
           Result == /\ x = None => \A y \in X : t[y].hWndOwner # w
                     /\ x # None =>
                           /\ x \in TopLevel(t) /\ t[x].hWndOwner = w
                           /\ t[x].hWndSibling \in Live(t) => t[x].hWndSibling \in TopLevel(t)
                           /\ \A y \in X \ {x} : t[y].hWndOwner = w => AheadOf(t, t[x].hWndSibling, y)
<1> SUFFICES Result
  OBVIOUS
<1>1. RootList(t, q)
  BY RootListed
<1>2. x = IF owned = {} THEN None ELSE r[Min(owned)]
  BY DEF OwnedFrom, FirstOwned, FirstAt
<1>3. \A y \in X : t[y].hWndOwner = w => y \in TopLevel(t) /\ AheadOf(t, cur, y)
  <2>1. w # None
    BY TreeFacts
  <2> QED
    BY <2>1, KinFacts
<1>4. \/ nx = None /\ \A y \in TopLevel(t) : ~AheadOf(t, cur, y)
      \/ \E a \in 1..Len(q) : GoesOnAt(t, q, cur, a)
  BY WalkGoesOn
<1> HIDE DEF nx, q, x, owned
<1>5. CASE nx = None /\ \A y \in TopLevel(t) : ~AheadOf(t, cur, y)
  <2>1. r = << >>
    BY <1>5, NoSiblings
  <2>2. owned = {}
    BY <2>1 DEF owned
  <2>3. \A y \in X : t[y].hWndOwner # w
    BY <1>3, <1>5
  <2> QED
    BY <1>2, <2>2, <2>3
<1>6. CASE \E a \in 1..Len(q) : GoesOnAt(t, q, cur, a)
  <2>1. PICK a \in 1..Len(q) : GoesOnAt(t, q, cur, a)
    BY <1>6
  <2>2. /\ Listed(t, Root, q) /\ Len(q) \in Nat /\ q = Children(t, Root)
        /\ \A i \in 1..Len(q) : q[i] \in TopLevel(t) /\ q[i] \in Win
    BY <1>1 DEF RootList, q
  <2> DEFINE n == Len(q) - a + 1
  <2>3. /\ n \in Nat /\ a \in Nat /\ a >= 1 /\ \A i \in 1..n : a + i - 1 \in 1..Len(q)
        /\ \A m \in 1..Len(q) : a <= m => m - a + 1 \in 1..n /\ a + (m - a + 1) - 1 = m
    BY <2>2
  <2>4. DOMAIN r = 1..n /\ \A i \in 1..n : r[i] = q[a + i - 1]
    <3>1. nx = q[a]
      BY <2>1 DEF GoesOnAt, nx
    <3> QED
      BY <2>1, <2>2, <3>1, ListedFrom
  <2> HIDE DEF r, n
  (* The place of an owned window in r. *)
  <2>5. ASSUME NEW y \in X, t[y].hWndOwner = w
        PROVE  \E i \in owned : r[i] = y
    <3>1. PICK m \in 1..Len(q) : a <= m /\ q[m] = y
      BY <1>3, <2>1, <2>5 DEF GoesOnAt
    <3>2. m - a + 1 \in 1..n /\ r[m - a + 1] = y
      BY <2>3, <2>4, <3>1
    <3> QED
      BY <2>4, <2>5, <3>2 DEF owned
  <2>6. CASE owned = {}
    <3>1. \A y \in X : t[y].hWndOwner # w
      BY <2>5, <2>6
    <3> QED
      BY <1>2, <2>6, <3>1
  <2>7. CASE owned # {}
    <3> DEFINE k == Min(owned)
               b == a + k - 1
    <3>1. k \in owned /\ \A i \in owned : k <= i
      <4>1. owned \in SUBSET Nat
        BY <2>3, <2>4 DEF owned
      <4> QED
        BY <2>7, <4>1, MinOfNats
    <3>2. x = r[k]
      BY <1>2, <2>7
    <3> HIDE DEF k
    <3>3. k \in 1..n /\ b \in 1..Len(q) /\ x = q[b] /\ t[x].hWndOwner = w
      BY <2>3, <2>4, <3>1, <3>2 DEF owned
    <3>4. x \in TopLevel(t)
      BY <2>2, <3>3
    <3>5. t[x].hWndSibling = IF b = Len(q) THEN None ELSE q[b + 1]
      BY <2>2, <3>3 DEF Listed
    <3>6. t[x].hWndSibling \in Live(t) => t[x].hWndSibling \in TopLevel(t)
      <4>1. None \notin Live(t)
        BY TreeFacts
      <4>2. b # Len(q) => b + 1 \in 1..Len(q)
        BY <2>2, <3>3
      <4> QED
        BY <2>2, <3>5, <4>1, <4>2
    <3>7. ASSUME NEW y \in X \ {x}, t[y].hWndOwner = w PROVE AheadOf(t, t[x].hWndSibling, y)
      <4>1. PICK i \in owned : r[i] = y
        BY <2>5, <3>7
      <4>2. i \in 1..n /\ k <= i /\ i # k
        BY <2>4, <3>1, <3>2, <3>7, <4>1 DEF owned
      <4> DEFINE m == a + i - 1
      <4>3. m \in 1..Len(q) /\ q[m] = y /\ b < m
        BY <2>3, <2>4, <3>3, <4>1, <4>2
      <4> HIDE DEF m, b
      <4>4. b # Len(q) /\ b + 1 \in 1..Len(q) /\ (m = b + 1 \/ b + 1 < m)
        BY <2>2, <3>3, <4>3
      <4>5. t[x].hWndSibling = q[b + 1]
        BY <3>5, <4>4
      <4>6. q[b + 1] # None
        BY <2>2, <4>4, TreeFacts
      <4>7. CASE m = b + 1
        BY <4>3, <4>5, <4>6, <4>7 DEF AheadOf
      <4>8. CASE b + 1 < m
        <5>1. b + 1 \in DOMAIN q /\ m \in DOMAIN q
          BY <2>2, <4>3, <4>4 DEF Listed
        <5>2. Precedes(q, q[b + 1], y)
          BY <4>3, <4>8, <5>1 DEF Precedes
        <5>3. Above(t, q[b + 1], y)
          BY <2>2, <5>2 DEF Above, Owners
        <5> QED
          BY <4>5, <4>6, <5>3 DEF AheadOf
      <4> QED
        BY <4>4, <4>7, <4>8
    <3>8. x # None
      BY <3>4, TreeFacts
    <3> QED
      BY <3>3, <3>4, <3>6, <3>7, <3>8
  <2> QED
    BY <2>6, <2>7
<1> QED
  BY <1>4, <1>5, <1>6

-----------------------------------------------------------------------------
(* SendDestroyMessages: the first child of a window, the next one of a list. *)
LEMMA FirstChildFacts ==
    ASSUME NEW t \in Trees, Kin(t), Everyone(t), NEW y \in Live(t)
    PROVE  LET f == t[y].hWndChild
           IN /\ f # None => f \in Live(t) /\ IsChildStyle(t, f) /\ t[f].hWndParent = y
              /\ \A s \in Live(t) : IsChildStyle(t, s) /\ t[s].hWndParent = y =>
                    f # None /\ (s = f \/ Above(t, f, s))
<1> DEFINE q == Children(t, y)
           f == t[y].hWndChild
<1>1. y \in Owners(t) /\ y # Root /\ None \notin Win
  BY TreeFacts DEF Owners
<1>2. Listed(t, y, q) /\ ToSet(q) = {x \in Live(t) : ListOwner(t, x) = y}
  BY <1>1 DEF Everyone, HasLists, ListedAll
<1> HIDE DEF q
<1>3. q \in Seq(Win) /\ DOMAIN q = 1..Len(q) /\ Len(q) \in Nat /\ f = IF Len(q) = 0 THEN None ELSE q[1]
  BY <1>2 DEF Listed
<1>4. \A x \in ToSet(q) : x \in Live(t) /\ IsChildStyle(t, x) /\ t[x].hWndParent = y
  BY <1>1, <1>2 DEF ListOwner
<1>5. f # None => f \in ToSet(q)
  BY <1>3 DEF ToSet
<1>6. ASSUME NEW s \in Live(t), IsChildStyle(t, s), t[s].hWndParent = y
      PROVE  f # None /\ (s = f \/ Above(t, f, s))
  <2>1. s \in ToSet(q)
    BY <1>2, <1>6 DEF ListOwner
  <2>2. PICK m \in 1..Len(q) : q[m] = s
    BY <1>3, <2>1 DEF ToSet
  <2>3. 1 \in 1..Len(q) /\ f = q[1] /\ q[1] \in Win
    BY <1>3, <2>2
  <2>4. CASE m = 1
    BY <1>1, <2>2, <2>3, <2>4
  <2>5. CASE m # 1
    <3>1. 1 < m
      BY <2>2, <2>5
    <3>2. Precedes(q, f, s)
      BY <1>3, <2>2, <2>3, <3>1 DEF Precedes
    <3> QED
      BY <1>1, <2>3, <3>2 DEF Above, q
  <2> QED
    BY <2>4, <2>5
<1> QED
  BY <1>4, <1>5, <1>6

LEMMA NextSiblingFacts ==
    ASSUME NEW t \in Trees, Everyone(t), NEW x \in Live(t)
    PROVE  LET s == t[x].hWndSibling
           IN /\ s # None => s \in Live(t) /\ ListOwner(t, s) = ListOwner(t, x)
              /\ \A z : Above(t, x, z) => s # None /\ (z = s \/ Above(t, s, z))
<1> DEFINE p == ListOwner(t, x)
           q == Children(t, p)
           s == t[x].hWndSibling
<1>1. /\ p \in Owners(t) /\ Listed(t, p, q) /\ ToSet(q) = {y \in Live(t) : ListOwner(t, y) = p}
      /\ \E k \in 1..Len(q) : q[k] = x
  BY PlaceInList DEF Everyone
<1>2. PICK k \in 1..Len(q) : q[k] = x
  BY <1>1
<1> HIDE DEF q, p
<1>3. /\ q \in Seq(Win) /\ IsInjective(q) /\ DOMAIN q = 1..Len(q) /\ Len(q) \in Nat
      /\ s = IF k = Len(q) THEN None ELSE q[k + 1]
  BY <1>1, <1>2 DEF Listed
<1>4. k # Len(q) => k + 1 \in 1..Len(q) /\ q[k + 1] \in ToSet(q) /\ q[k + 1] \in Win
  <2> SUFFICES ASSUME k # Len(q) PROVE k + 1 \in 1..Len(q) /\ q[k + 1] \in ToSet(q) /\ q[k + 1] \in Win
    OBVIOUS
  <2>1. k \in 1..Len(q) /\ q \in Seq(Win) /\ Len(q) \in Nat
    BY <1>2, <1>3
  <2> HIDE DEF s
  <2>2. k + 1 \in 1..Len(q)
    BY <2>1
  <2>3. q[k + 1] \in Win
    BY <2>1, <2>2
  <2>4. DOMAIN q = 1..Len(q)
    BY <1>3
  <2>5. q[k + 1] \in ToSet(q)
    BY <2>2, <2>4 DEF ToSet
  <2> QED
    BY <2>2, <2>3, <2>5
<1>5. s # None => s \in Live(t) /\ ListOwner(t, s) = p
  BY <1>1, <1>3, <1>4
<1>6. ASSUME NEW z, Above(t, x, z) PROVE s # None /\ (z = s \/ Above(t, s, z))
  <2>1. PICK p2 \in Owners(t) : Precedes(Children(t, p2), x, z)
    BY <1>6 DEF Above
  <2>2. x \in ToSet(Children(t, p2))
    BY <2>1 DEF Precedes, ToSet
  <2>3. p2 = p
    BY <2>1, <2>2 DEF Everyone, HasLists, ListedAll, p
  <2>4. PICK i \in DOMAIN q, j \in DOMAIN q : i < j /\ q[i] = x /\ q[j] = z
    BY <2>1, <2>3 DEF Precedes, q
  <2>5. i = k
    BY <1>2, <1>3, <2>4 DEF IsInjective
  <2>6. k # Len(q) /\ j \in 1..Len(q) /\ (j = k + 1 \/ k + 1 < j)
    BY <1>2, <1>3, <2>4, <2>5
  <2>7. s = q[k + 1] /\ s # None
    <3>1. None \notin Win
      BY TreeFacts
    <3> QED
      BY <1>3, <1>4, <2>6, <3>1
  <2>8. CASE j = k + 1
    BY <2>4, <2>7, <2>8
  <2>9. CASE k + 1 < j
    <3>1. k + 1 \in DOMAIN q /\ j \in DOMAIN q
      BY <1>3, <1>4, <2>6
    <3>2. Precedes(q, s, z)
      BY <2>4, <2>7, <2>9, <3>1 DEF Precedes
    <3> QED
      BY <1>1, <2>7, <3>2 DEF Above, q
  <2> QED
    BY <2>6, <2>8, <2>9
<1> QED
  BY <1>5, <1>6 DEF p

(* next has the first m elements of path, and f after them.                  *)
Replaced(next, path, m, f) ==
    /\ next \in Seq(Win) /\ Len(next) = m + 1 /\ m \in 1..Len(path)
    /\ \A k \in 1..m : next[k] = path[k]
    /\ next[m + 1] = f /\ Last(next) = f

LEMMA ReplacedSeq ==
    ASSUME NEW path \in Seq(Win), NEW m \in 1..Len(path), NEW f \in Win
    PROVE  Replaced(Append(SubSeq(path, 1, m), f), path, m, f)
<1> DEFINE h == SubSeq(path, 1, m)
<1>1. m \in Nat /\ \A i \in 1..m : i \in 1..Len(path)
  OBVIOUS
<1>2. h = [i \in 1..m |-> path[i]]
  BY <1>1
<1>3. [i \in 1..m |-> path[i]] \in [1..m -> Win]
  BY <1>1
<1>4. h \in Seq(Win) /\ Len(h) = m /\ \A i \in 1..m : h[i] = path[i]
  BY <1>1, <1>2, <1>3, FcnIsSeq
<1> HIDE DEF h
<1>5. Append(h, f) \in Seq(Win) /\ HasLast(Append(h, f), f, h)
  BY <1>4, AppendedSeq
<1>6. Len(Append(h, f)) = m + 1 /\ \A i \in 1..(m + 1) : Append(h, f)[i] = IF i = m + 1 THEN f ELSE h[i]
  BY <1>4, <1>5 DEF HasLast
<1>7. Last(Append(h, f)) = f /\ Append(h, f)[m + 1] = f
  BY <1>1, <1>6 DEF Last
<1>8. \A k \in 1..m : Append(h, f)[k] = path[k]
  BY <1>1, <1>4, <1>6
<1> QED
  BY <1>5, <1>6, <1>7, <1>8 DEF Replaced, h

LEMMA AllOfSeq ==
    ASSUME NEW path \in Seq(Win), NEW f \in Win, Len(path) > 0
    PROVE  Replaced(Append(path, f), path, Len(path), f)
<1>1. Append(path, f) \in Seq(Win) /\ HasLast(Append(path, f), f, path) /\ Len(path) \in Nat
  BY AppendedSeq
<1>2. Len(Append(path, f)) = Len(path) + 1
      /\ \A i \in 1..(Len(path) + 1) : Append(path, f)[i] = IF i = Len(path) + 1 THEN f ELSE path[i]
  BY <1>1 DEF HasLast
<1>3. Last(Append(path, f)) = f /\ Append(path, f)[Len(path) + 1] = f
  BY <1>1, <1>2 DEF Last
<1>4. \A k \in 1..Len(path) : Append(path, f)[k] = path[k]
  BY <1>1, <1>2
<1> QED
  BY <1>1, <1>2, <1>3, <1>4 DEF Replaced

LEMMA PathGoesOn ==
    ASSUME NEW t \in Trees, NEW w, NEW path \in Seq(Win), PathOK(t, w, path),
           NEW m, NEW f \in Live(t), NEW next, Replaced(next, path, m, f),
           IsChildStyle(t, f), t[f].hWndParent = path[m]
    PROVE  PathOK(t, w, next)
<1>1. m \in Nat /\ m >= 1 /\ m <= Len(path) /\ Len(next) = m + 1
  BY DEF Replaced
<1>2. Len(next) > 0 /\ next[1] = w
  BY <1>1 DEF Replaced, PathOK
<1>3. ASSUME NEW k \in 2..Len(next)
      PROVE  /\ next[k] \in Live(t) /\ IsChildStyle(t, next[k])
             /\ t[next[k]].hWndParent = next[k - 1]
  <2>1. CASE k = m + 1
    <3>1. k - 1 = m /\ m \in 1..m
      BY <1>1, <2>1
    <3> QED
      BY <2>1, <3>1 DEF Replaced
  <2>2. CASE k # m + 1
    <3>1. k \in 1..m /\ k - 1 \in 1..m /\ k \in 2..Len(path)
      BY <1>1, <2>2
    <3>2. next[k] = path[k] /\ next[k - 1] = path[k - 1]
      BY <3>1 DEF Replaced
    <3> QED
      BY <3>1, <3>2 DEF PathOK
  <2> QED
    BY <2>1, <2>2
<1> QED
  BY <1>2, <1>3 DEF PathOK

LEMMA TellOn ==
    ASSUME NEW t \in Trees, Kin(t), Everyone(t), NEW w \in Live(t),
           NEW path \in Seq(Win), PathOK(t, w, path), NEW to,
           \A x \in Subtree(t, w) : x \in to \/ ToCome(t, path, x)
    PROVE  LET next == NextToTell(t, path)
           IN /\ next = << >> => Subtree(t, w) \subseteq to
              /\ next # << >> =>
                   /\ next \in Seq(Win) /\ PathOK(t, w, next)
                   /\ \A x \in Subtree(t, w) : x \in to \cup {Last(next)} \/ ToCome(t, next, x)
<1> DEFINE next == NextToTell(t, path)
           l == Last(path)
           f == t[l].hWndChild
           up == {i \in 2..Len(path) : t[path[i]].hWndSibling # None}
           i == CHOOSE k \in up : \A j \in up : j <= k
           Goal == /\ next = << >> => Subtree(t, w) \subseteq to
                   /\ next # << >> =>
                        /\ next \in Seq(Win) /\ PathOK(t, w, next)
                        /\ \A x \in Subtree(t, w) : x \in to \cup {Last(next)} \/ ToCome(t, next, x)
<1> SUFFICES Goal
  OBVIOUS
<1>1. next = IF f # None THEN Append(path, f)
             ELSE IF up = {} THEN << >>
             ELSE Append(SubSeq(path, 1, i - 1), t[path[i]].hWndSibling)
  BY DEF NextToTell
<1> HIDE DEF next
<1>2. /\ Live(t) \subseteq Win /\ None \notin Win /\ Len(path) \in Nat /\ Len(path) > 0 /\ Root \notin Win
      /\ \A k \in 1..Len(path) : path[k] \in Live(t)
  <2>1. \A k \in 1..Len(path) : k = 1 \/ k \in 2..Len(path)
    OBVIOUS
  <2> QED
    BY <2>1, TreeFacts DEF PathOK
<1>3. l = path[Len(path)] /\ Len(path) \in 1..Len(path) /\ l \in Live(t)
  BY <1>2 DEF Last
<1> HIDE DEF l
<1>4. /\ f # None => f \in Live(t) /\ IsChildStyle(t, f) /\ t[f].hWndParent = l
      /\ \A s \in Live(t) : IsChildStyle(t, s) /\ t[s].hWndParent = l =>
            f # None /\ (s = f \/ Above(t, f, s))
  BY <1>3, FirstChildFacts
<1> HIDE DEF f
<1>5. ASSUME NEW x \in Subtree(t, l) \ {l}
      PROVE  f # None /\ \E s \in Live(t) : x \in Subtree(t, s) /\ (s = f \/ Above(t, f, s))
  <2>1. PICK s \in Live(t) : IsChildStyle(t, s) /\ t[s].hWndParent = l /\ x \in Subtree(t, s)
    BY <1>2, <1>3, <1>5, BelowSome
  <2> QED
    BY <1>4, <2>1
(* What was to come is told, or is to come still.                           *)
<1>6. ASSUME NEW m, NEW g \in Win, Replaced(next, path, m, g),
             NEW x, NEW s \in Live(t), x \in Subtree(t, s), s = g \/ Above(t, g, s)
      PROVE  x = Last(next) \/ ToCome(t, next, x)
  <2>1. Last(next) = g /\ Len(next) = m + 1 /\ m \in Nat /\ m >= 1 /\ next[m + 1] = g
    BY <1>6 DEF Replaced
  <2>2. CASE s = g
    BY <1>6, <2>1, <2>2 DEF ToCome
  <2>3. CASE Above(t, g, s)
    <3>1. m + 1 \in 2..Len(next)
      BY <2>1
    <3> QED
      BY <1>6, <2>1, <2>3, <3>1 DEF ToCome
  <2> QED
    BY <1>6, <2>2, <2>3
<1>7. ASSUME NEW m, NEW g \in Win, Replaced(next, path, m, g), NEW k \in 2..Len(path), k <= m,
             NEW x, NEW s \in Live(t), Above(t, path[k], s), x \in Subtree(t, s)
      PROVE  ToCome(t, next, x)
  <2>1. k \in 2..Len(next) /\ next[k] = path[k]
    <3>1. m \in 1..Len(path) /\ Len(next) = m + 1 /\ \A j \in 1..m : next[j] = path[j]
      BY <1>7 DEF Replaced
    <3>2. k \in 1..m /\ k \in 2..(m + 1)
      BY <1>2, <1>7, <3>1
    <3> QED
      BY <3>1, <3>2
  <2> QED
    BY <1>7, <2>1 DEF ToCome
<1>8. CASE f # None
  <2>1. Replaced(next, path, Len(path), f) /\ f \in Win /\ f \in Live(t)
    BY <1>1, <1>2, <1>4, <1>8, AllOfSeq
  <2>2. PathOK(t, w, next) /\ next \in Seq(Win)
    BY <1>3, <1>4, <1>8, <2>1, PathGoesOn DEF Replaced
  <2>3. ASSUME NEW x \in Subtree(t, w) PROVE x \in to \cup {Last(next)} \/ ToCome(t, next, x)
    <3>1. x \in to \/ ToCome(t, path, x)
      OBVIOUS
    <3>2. CASE x \in Subtree(t, l) \ {l}
      BY <1>5, <1>6, <2>1, <3>2
    <3>3. CASE \E k \in 2..Len(path), s \in Live(t) : Above(t, path[k], s) /\ x \in Subtree(t, s)
      <4>1. PICK k \in 2..Len(path), s \in Live(t) : Above(t, path[k], s) /\ x \in Subtree(t, s)
        BY <3>3
      <4>2. k <= Len(path)
        BY <1>2
      <4> QED
        BY <1>7, <2>1, <4>1, <4>2
    <3> QED
      BY <3>1, <3>2, <3>3 DEF ToCome, l
  <2>4. next # << >>
    BY <1>2, <2>1 DEF Replaced
  <2> QED
    BY <2>2, <2>3, <2>4
<1>9. CASE f = None /\ up = {}
  <2>1. next = << >>
    BY <1>1, <1>9
  <2>2. ASSUME NEW x \in Subtree(t, w) PROVE x \in to
    <3>1. ASSUME NEW k \in 2..Len(path), NEW s, Above(t, path[k], s) PROVE FALSE
      <4>1. t[path[k]].hWndSibling = None
        BY <1>9
      <4>2. path[k] \in Live(t)
        BY <1>2
      <4> QED
        BY <3>1, <4>1, <4>2, NextSiblingFacts
    <3>2. x \notin Subtree(t, l) \ {l}
      BY <1>5, <1>9
    <3> QED
      BY <3>1, <3>2 DEF ToCome, l
  <2> QED
    BY <2>1, <2>2
<1>10. CASE f = None /\ up # {}
  <2>1. i \in up /\ \A j \in up : j <= i
    <3>1. up \in SUBSET Nat
      BY <1>2
    <3>2. \A j \in up : j <= Len(path)
      BY <1>2
    <3> HIDE DEF up
    <3>3. \E k \in up : \A j \in up : j <= k
      BY <1>2, <1>10, <3>1, <3>2, MaxOfNats
    <3> QED
      BY <3>3
  <2> HIDE DEF i
  <2> DEFINE g == t[path[i]].hWndSibling
             m == i - 1
  <2>2. i \in 2..Len(path) /\ g # None /\ m \in 1..Len(path) /\ path[i] \in Live(t)
    BY <1>2, <2>1
  <2>3. /\ g \in Live(t) /\ ListOwner(t, g) = ListOwner(t, path[i])
        /\ \A z : Above(t, path[i], z) => z = g \/ Above(t, g, z)
    BY <2>2, NextSiblingFacts
  <2>4. next = Append(SubSeq(path, 1, m), g)
    BY <1>1, <1>10
  <2> HIDE DEF g, m
  <2>5. Replaced(next, path, m, g) /\ g \in Win
    BY <1>2, <2>2, <2>3, <2>4, ReplacedSeq
  <2>6. IsChildStyle(t, g) /\ t[g].hWndParent = path[m]
    <3>1. IsChildStyle(t, path[i]) /\ t[path[i]].hWndParent = path[m]
      BY <2>2 DEF PathOK, m
    <3>2. path[m] # Root
      BY <1>2, <2>2
    <3> QED
      BY <2>3, <3>1, <3>2 DEF ListOwner
  <2>7. PathOK(t, w, next) /\ next \in Seq(Win)
    BY <2>3, <2>5, <2>6, PathGoesOn DEF Replaced
  <2>8. ASSUME NEW x \in Subtree(t, w) PROVE x \in to \cup {Last(next)} \/ ToCome(t, next, x)
    <3>1. x \in to \/ ToCome(t, path, x)
      OBVIOUS
    <3>2. x \notin Subtree(t, l) \ {l}
      BY <1>5, <1>10
    <3>3. CASE \E k \in 2..Len(path), s \in Live(t) : Above(t, path[k], s) /\ x \in Subtree(t, s)
      <4>1. PICK k \in 2..Len(path), s \in Live(t) : Above(t, path[k], s) /\ x \in Subtree(t, s)
        BY <3>3
      <4>2. path[k] \in Live(t)
        BY <1>2
      <4>3. k \in up
        BY <4>1, <4>2, NextSiblingFacts
      <4>4. k = i \/ k <= m
        BY <2>1, <2>2, <4>3 DEF m
      <4>5. CASE k = i
        <5>1. s = g \/ Above(t, g, s)
          BY <2>3, <4>1, <4>5
        <5>2. x = Last(next) \/ ToCome(t, next, x)
          BY <1>6, <2>5, <4>1, <5>1
        <5> QED
          BY <5>2
      <4>6. CASE k <= m
        BY <1>7, <2>5, <4>1, <4>6
      <4> QED
        BY <4>4, <4>5, <4>6
    <3> QED
      BY <3>1, <3>2, <3>3 DEF ToCome, l
  <2>9. next # << >>
    BY <2>5 DEF Replaced
  <2> QED
    BY <2>7, <2>8, <2>9
<1> QED
  BY <1>8, <1>9, <1>10

-----------------------------------------------------------------------------
(* CreateWindowEx and SetParent: a window that is in no list.                *)
Born(t, w, k, p, g) ==
    [t EXCEPT ![w] = [Freed EXCEPT !.kind = k, !.group = g,
                        !.hWndParent = IF k = "child" THEN p ELSE None,
                        !.hWndOwner = IF k = "child" THEN None ELSE p]]

LEMMA BornFacts ==
    ASSUME NEW t \in Trees, Kin(t), Everyone(t), NEW w \in Win, w \notin Live(t),
           NEW k \in {"child", "popup", "overlapped"}, NEW g \in BOOLEAN, NEW p \in Live(t) \cup {None},
           k = "child" => p # None, k # "child" => p \in TopLevel(t) \cup {None}
    PROVE  LET u == Born(t, w, k, p, g)
           IN /\ u \in Trees /\ Kin(u) /\ Without(u, w) /\ u[w].hWndSibling = None
              /\ Live(u) = Live(t) \cup {w} /\ (w \in TopLevel(u) <=> k # "child")
<1> DEFINE u == Born(t, w, k, p, g)
           A == Live(t)
<1>1. /\ A \subseteq Win /\ None \notin Win /\ Root \notin Win /\ Root # None /\ TopLevel(t) \subseteq A
      /\ Owners(t) \subseteq Win \cup {Root} /\ A \subseteq Owners(t) /\ Root \in Owners(t) /\ w \notin Owners(t)
      /\ DOMAIN t = Win \cup {Root}
  BY TreeFacts DEF Owners, Trees
<1>2. /\ u[w].kind = k /\ u[w].group = g
      /\ u[w].hWndParent = (IF k = "child" THEN p ELSE None)
      /\ u[w].hWndOwner = (IF k = "child" THEN None ELSE p)
      /\ u[w].hWndSibling = None /\ u[w].hWndChild = None /\ u[w].hWndLastChild = None
      /\ u[w].hWndGroup = None /\ u[w] \in Hwnd
  <2>1. u[w] = [Freed EXCEPT !.kind = k, !.group = g,
                  !.hWndParent = IF k = "child" THEN p ELSE None,
                  !.hWndOwner = IF k = "child" THEN None ELSE p]
    BY <1>1 DEF Born
  <2>2. p \in Handle /\ None \in Handle /\ k \in Kind
    BY <1>1 DEF Handle, Kind
  <2> QED
    BY <2>1, <2>2 DEF Freed, Hwnd
<1>3. \A x \in Win \cup {Root} : x # w => u[x] = t[x]
  BY <1>1 DEF Born
<1>4. u \in Trees
  <2>1. DOMAIN u = Win \cup {Root}
    BY <1>1 DEF Born
  <2>2. \A x \in Win \cup {Root} : u[x] \in Hwnd
    BY <1>2, <1>3 DEF Trees
  <2>3. u = [x \in Win \cup {Root} |-> u[x]]
    BY <2>1 DEF Born
  <2> QED
    BY <2>2, <2>3 DEF Trees
<1> HIDE DEF u
<1>5. Live(u) = A \cup {w} /\ Owners(u) = Owners(t) \cup {w}
  <2>1. k # "free"
    OBVIOUS
  <2>2. Live(u) = A \cup {w}
    BY <1>1, <1>2, <1>3, <2>1 DEF Live, IsWindow
  <2> QED
    BY <2>2 DEF Owners
<1>6. /\ \A x \in A : u[x] = t[x] /\ ListOwner(u, x) = ListOwner(t, x) /\ IsChildStyle(u, x) = IsChildStyle(t, x)
      /\ \A x \in Owners(t) : u[x] = t[x]
      /\ IsChildStyle(u, w) <=> k = "child"
  <2>1. \A x \in A : x # w /\ x \in Win \cup {Root}
    BY <1>1
  <2>2. \A x \in Owners(t) : x # w /\ x \in Win \cup {Root}
    BY <1>1
  <2> QED
    BY <1>2, <1>3, <2>1, <2>2 DEF ListOwner, IsChildStyle
<1>7. TopLevel(u) = TopLevel(t) \cup (IF k = "child" THEN {} ELSE {w})
  BY <1>5, <1>6 DEF TopLevel
<1>8. Kin(u)
  <2>1. PICK rk \in [Win -> Nat] : KinBy(t, rk)
    BY DEF Kin
  <2> DEFINE n == IF p = None THEN 0 ELSE rk[p] + 1
             rk2 == [rk EXCEPT ![w] = n]
  <2>2. n \in Nat /\ (p # None => rk[p] < n)
    BY <1>1
  <2>3. rk2 \in [Win -> Nat] /\ rk2[w] = n /\ \A x \in A : rk2[x] = rk[x]
    BY <1>1, <2>2
  <2> HIDE DEF rk2, n
  <2>4. ASSUME NEW x \in A
        PROVE  /\ IsChildStyle(u, x) =>
                    u[x].hWndOwner = None /\ u[x].hWndParent \in Live(u) /\ rk2[u[x].hWndParent] < rk2[x]
               /\ ~IsChildStyle(u, x) =>
                    /\ u[x].hWndParent = None /\ u[x].hWndOwner \in TopLevel(u) \cup {None}
                    /\ u[x].hWndOwner # None => rk2[u[x].hWndOwner] < rk2[x]
    <3>1. u[x] = t[x] /\ IsChildStyle(u, x) = IsChildStyle(t, x)
      BY <1>6
    <3> QED
      BY <1>1, <1>5, <1>7, <2>1, <2>3, <3>1 DEF KinBy
  <2>5. /\ IsChildStyle(u, w) =>
             u[w].hWndOwner = None /\ u[w].hWndParent \in Live(u) /\ rk2[u[w].hWndParent] < rk2[w]
        /\ ~IsChildStyle(u, w) =>
             /\ u[w].hWndParent = None /\ u[w].hWndOwner \in TopLevel(u) \cup {None}
             /\ u[w].hWndOwner # None => rk2[u[w].hWndOwner] < rk2[w]
    <3>1. CASE k = "child"
      BY <1>2, <1>5, <1>6, <2>2, <2>3, <3>1
    <3>2. CASE k # "child"
      <4>1. p # None => p \in A
        OBVIOUS
      <4> QED
        BY <1>2, <1>6, <1>7, <2>2, <2>3, <3>2, <4>1
    <3> QED
      BY <3>1, <3>2
  <2>6. KinBy(u, rk2)
    BY <1>5, <2>4, <2>5 DEF KinBy
  <2> QED
    BY <2>3, <2>6 DEF Kin
<1>9. HasLists(u, A)
  <2>1. \A x \in A : ListOwner(u, x) \in Owners(u)
    BY <1>5, <1>6 DEF Everyone, HasLists
  <2>2. ASSUME NEW p2 \in Owners(t) PROVE ListedAll(u, A, p2, Children(u, p2))
    <3> DEFINE q == Children(t, p2)
    <3>1. Listed(t, p2, q) /\ ToSet(q) = {x \in A : ListOwner(t, x) = p2}
      BY DEF Everyone, HasLists, ListedAll
    <3> HIDE DEF q
    <3>2. \A i \in 1..Len(q) : q[i] \in A
      <4>1. DOMAIN q = 1..Len(q)
        BY <3>1 DEF Listed
      <4>2. \A i \in 1..Len(q) : q[i] \in ToSet(q)
        BY <4>1 DEF ToSet
      <4> QED
        BY <3>1, <4>2
    <3>3. Listed(u, p2, q)
      BY <1>6, <3>1, <3>2 DEF Listed
    <3>4. ToSet(q) = {x \in A : ListOwner(u, x) = p2}
      BY <1>6, <3>1
    <3> QED
      BY <3>3, <3>4, ListedIsChildren DEF ListedAll
  <2>3. ListedAll(u, A, w, Children(u, w))
    <3>1. Listed(u, w, << >>)
      BY <1>2 DEF Listed, IsInjective, ToSet
    <3>2. Children(u, w) = << >>
      BY <3>1, ListedIsChildren
    <3>3. \A x \in A : ListOwner(u, x) # w
      <4>1. \A x \in A : ListOwner(t, x) \in Owners(t)
        BY DEF Everyone, HasLists
      <4> QED
        BY <1>1, <1>6, <4>1
    <3>4. ToSet(<< >>) = {x \in A : ListOwner(u, x) = w}
      BY <3>3 DEF ToSet
    <3> QED
      BY <3>1, <3>2, <3>4 DEF ListedAll
  <2> QED
    BY <1>1, <1>5, <2>1, <2>2, <2>3 DEF HasLists
<1>10. HasRings(u, A)
  <2>1. HasRings(t, A)
    BY DEF Everyone
  <2>2. \A x \in A : u[x].hWndGroup = t[x].hWndGroup
    BY <1>6
  <2>3. \A x \in A : u[x].hWndGroup \in A /\ ListOwner(u, u[x].hWndGroup) = ListOwner(u, x)
    BY <1>6, <2>1, <2>2 DEF HasRings
  <2>4. ASSUME NEW p2 \in Owners(u), u[p2].hWndLastChild # None
        PROVE  u[p2].hWndLastChild \in A /\ ListOwner(u, u[p2].hWndLastChild) = p2
    <3>1. p2 \in Owners(t)
      BY <1>2, <1>5, <2>4
    <3> QED
      BY <1>6, <2>1, <2>4, <3>1 DEF HasRings
  <2> QED
    BY <1>1, <2>1, <2>2, <2>3, <2>4 DEF HasRings
<1>11. ListOwner(u, w) \in Owners(u) /\ ListOwner(u, w) # w
  BY <1>1, <1>2, <1>5, <1>6 DEF ListOwner, Owners
<1>12. Without(u, w)
  <2>1. Live(u) \ {w} = A
    BY <1>5
  <2> QED
    BY <1>5, <1>9, <1>10, <1>11, <2>1 DEF Without
<1>13. w \in TopLevel(u) <=> k # "child"
  BY <1>5, <1>6 DEF TopLevel
<1> QED
  BY <1>2, <1>4, <1>5, <1>8, <1>12, <1>13 DEF u

Moves(r, w, p) ==
    [r EXCEPT ![w].hWndParent = p, ![w].kind = IF p = None THEN "popup" ELSE "child"]

LEMMA MovesFacts ==
    ASSUME NEW t \in Trees, Kin(t), Everyone(t), NEW w \in Live(t), t[w].hWndOwner = None, OwnsNothing(t, w),
           NEW p \in (Live(t) \cup {None}) \ Subtree(t, w), p # t[w].hWndParent
    PROVE  LET u == Moves(RemoveFromList(t, w), w, p)
           IN /\ u \in Trees /\ Kin(u) /\ Without(u, w) /\ Live(u) = Live(t)
              /\ \A x \in Live(u) \ {w} : ListOwner(u, x) = ListOwner(u, w) => u[w].hWndGroup # x
<1> DEFINE r == RemoveFromList(t, w)
           u == Moves(r, w, p)
           A == Live(t)
           B == A \ {w}
<1>1. /\ A \subseteq Win /\ None \notin Win /\ Root \notin Win /\ Root # None /\ TopLevel(t) \subseteq A
      /\ Owners(t) \subseteq Win \cup {Root} /\ w \in Win /\ Owners(t) = A \cup {Root}
  BY TreeFacts DEF Owners
<1>2. /\ r \in Trees /\ TreeKept(t, r) /\ HasLists(r, B) /\ HasRings(r, B)
      /\ r[w].hWndGroup \in A /\ ListOwner(t, r[w].hWndGroup) = ListOwner(t, w)
  BY RemoveKeepsLists DEF Everyone
<1> HIDE DEF r
<1>3. /\ Live(r) = A /\ Owners(r) = Owners(t) /\ TopLevel(r) = TopLevel(t) /\ DOMAIN r = Win \cup {Root}
      /\ \A x \in Win : ListOwner(r, x) = ListOwner(t, x)
      /\ \A x \in Win \cup {Root} : IsChildStyle(r, x) = IsChildStyle(t, x)
  BY <1>2, KeptTree DEF Trees
<1>4. /\ \A x \in Win \cup {Root} :
            /\ u[x].hWndSibling = r[x].hWndSibling /\ u[x].hWndChild = r[x].hWndChild
            /\ u[x].hWndGroup = r[x].hWndGroup /\ u[x].hWndLastChild = r[x].hWndLastChild
            /\ u[x].hWndOwner = r[x].hWndOwner
            /\ x # w => u[x].hWndParent = r[x].hWndParent /\ u[x].kind = r[x].kind
      /\ u[w].hWndParent = p /\ u[w].kind = (IF p = None THEN "popup" ELSE "child")
  BY <1>1, <1>2 DEF Moves, Trees
<1>5. u \in Trees
  <2>1. p \in Handle /\ {"popup", "child"} \subseteq Kind
    BY <1>1 DEF Handle, Kind
  <2>2. DOMAIN u = Win \cup {Root}
    BY <1>2 DEF Moves, Trees
  <2>3. \A x \in Win \cup {Root} : r[x] \in Hwnd
    BY <1>2 DEF Trees
  <2>4. \A x \in Win \cup {Root} : x # w => u[x] = r[x]
    BY <1>2 DEF Moves, Trees
  <2>5. u[w] = [r[w] EXCEPT !.hWndParent = p, !.kind = IF p = None THEN "popup" ELSE "child"]
    BY <1>1, <1>2 DEF Moves, Trees
  <2>6. r[w] \in Hwnd
    BY <1>1, <2>3
  <2>7. u[w] \in Hwnd
    BY <2>1, <2>5, <2>6 DEF Hwnd
  <2>8. u = [x \in Win \cup {Root} |-> u[x]]
    BY <2>2 DEF Moves
  <2> QED
    BY <2>3, <2>4, <2>7, <2>8 DEF Trees
<1> HIDE DEF u
<1>6. Live(u) = A /\ Owners(u) = Owners(t)
  <2>1. \A x \in Win : u[x].kind # "free" <=> t[x].kind # "free"
    BY <1>2, <1>4 DEF TreeKept, Live, IsWindow
  <2>2. Live(u) = A
    BY <2>1 DEF Live, IsWindow
  <2> QED
    BY <2>2 DEF Owners
<1>7. /\ \A x \in B : IsChildStyle(u, x) = IsChildStyle(t, x) /\ ListOwner(u, x) = ListOwner(t, x)
      /\ \A x \in B : u[x].hWndParent = t[x].hWndParent /\ u[x].hWndOwner = t[x].hWndOwner
      /\ u[w].hWndOwner = None
      /\ IsChildStyle(u, w) <=> p # None
      /\ ListOwner(u, w) = IF p = None THEN Root ELSE p
  BY <1>1, <1>2, <1>4 DEF IsChildStyle, ListOwner, TreeKept
<1>8. HasLists(u, B)
  <2>1. \A x \in B : ListOwner(u, x) \in Owners(u)
    BY <1>6, <1>7 DEF Everyone, HasLists
  <2>2. ASSUME NEW p2 \in Owners(u) PROVE ListedAll(u, B, p2, Children(u, p2))
    <3> DEFINE q == Children(r, p2)
    <3>1. Listed(r, p2, q) /\ ToSet(q) = {x \in B : ListOwner(r, x) = p2}
      BY <1>2, <1>3, <1>6 DEF HasLists, ListedAll
    <3> HIDE DEF q
    <3>2. Listed(u, p2, q)
      <4>1. q \in Seq(Win) /\ p2 \in Win \cup {Root}
        BY <1>1, <1>6, <3>1 DEF Listed
      <4>2. \A i \in 1..Len(q) : q[i] \in Win
        BY <4>1
      <4> QED
        BY <1>4, <3>1, <4>1, <4>2 DEF Listed
    <3>3. ToSet(q) = {x \in B : ListOwner(u, x) = p2}
      BY <1>1, <1>3, <1>7, <3>1
    <3> QED
      BY <3>2, <3>3, ListedIsChildren DEF ListedAll
  <2> QED
    BY <1>1, <2>1, <2>2 DEF HasLists
<1>9. HasRings(u, B)
  <2>1. \A x \in B : u[x].hWndGroup = r[x].hWndGroup
    BY <1>1, <1>4
  <2>2. \A x \in B : ListOwner(u, x) = ListOwner(r, x)
    BY <1>1, <1>3, <1>7
  <2>3. ASSUME NEW p2 \in Owners(u), u[p2].hWndLastChild # None
        PROVE  u[p2].hWndLastChild \in B /\ ListOwner(u, u[p2].hWndLastChild) = p2
    <3>1. p2 \in Win \cup {Root} /\ p2 \in Owners(r)
      BY <1>1, <1>3, <1>6
    <3> QED
      BY <1>2, <1>4, <2>2, <2>3, <3>1 DEF HasRings
  <2> QED
    BY <1>1, <1>2, <2>1, <2>2, <2>3 DEF HasRings
<1>10. w \in Subtree(t, w)
  BY <1>1, SubtreeSteps
<1>11. Without(u, w)
  <2>1. ListOwner(u, w) \in Owners(u) /\ ListOwner(u, w) # w
    BY <1>1, <1>6, <1>7, <1>10
  <2> QED
    BY <1>6, <1>8, <1>9, <2>1 DEF Without
<1>12. \A x \in Live(u) \ {w} : ListOwner(u, x) = ListOwner(u, w) => u[w].hWndGroup # x
  <2> SUFFICES ASSUME NEW x \in B, ListOwner(u, x) = ListOwner(u, w), u[w].hWndGroup = x PROVE FALSE
    BY <1>6
  <2>1. ListOwner(u, w) = ListOwner(t, w)
    BY <1>1, <1>2, <1>4, <1>7
  <2>2. /\ IsChildStyle(t, w) => t[w].hWndParent \in Live(t)
        /\ ~IsChildStyle(t, w) => t[w].hWndParent = None
    BY KinFacts
  <2> QED
    BY <1>1, <1>7, <2>1, <2>2 DEF ListOwner
<1>13. p \notin Doomed(t, w)
  <2>1. ASSUME NEW x \in Live(t), Keepers(t)[x] \in Subtree(t, w) \ {None} PROVE x \in Subtree(t, w)
    <3>1. /\ Keepers(t)[x] = IF IsChildStyle(t, x) THEN t[x].hWndParent ELSE t[x].hWndOwner
          /\ t[x].hWndOwner # None => t[x].hWndOwner \in TopLevel(t)
      BY KinFacts
    <3>2. CASE IsChildStyle(t, x)
      BY <1>1, <1>10, <2>1, <3>1, <3>2, SubtreeSteps
    <3>3. CASE ~IsChildStyle(t, x)
      <4>1. t[x].hWndOwner = w
        BY <1>1, <2>1, <3>1, <3>3, SubtreeSteps
      <4> QED
        BY <4>1 DEF OwnsNothing
    <3> QED
      BY <3>2, <3>3
  <2>2. Doomed(t, w) \subseteq Subtree(t, w)
    BY <1>1, <1>10, <2>1, DoomedLeast
  <2> QED
    BY <2>2
<1>14. Kin(u)
  <2>1. PICK rk \in [Win -> Nat] : KinBy(t, rk)
    BY DEF Kin
  <2> DEFINE n == IF p = None THEN 0 ELSE rk[p] + 1
             rk2 == [x \in Win |-> IF x \in Doomed(t, w) THEN rk[x] + n ELSE rk[x]]
  <2>2. n \in Nat /\ (p # None => rk[p] < n) /\ \A x \in Win : rk[x] \in Nat
    BY <1>1
  <2>3. rk2 \in [Win -> Nat] /\ \A x \in Win : rk2[x] = IF x \in Doomed(t, w) THEN rk[x] + n ELSE rk[x]
    BY <2>2
  <2> HIDE DEF rk2, n
  <2>4. w \in Doomed(t, w) /\ \A x \in B : x \in Doomed(t, w) <=> Keepers(t)[x] \in Doomed(t, w)
    BY <1>1, DoomedSteps
  <2>5. TopLevel(u) = (TopLevel(t) \ {w}) \cup (IF p = None THEN {w} ELSE {})
    BY <1>6, <1>7 DEF TopLevel
  <2>6. ASSUME NEW x \in B
        PROVE  /\ IsChildStyle(u, x) =>
                    u[x].hWndOwner = None /\ u[x].hWndParent \in Live(u) /\ rk2[u[x].hWndParent] < rk2[x]
               /\ ~IsChildStyle(u, x) =>
                    /\ u[x].hWndParent = None /\ u[x].hWndOwner \in TopLevel(u) \cup {None}
                    /\ u[x].hWndOwner # None => rk2[u[x].hWndOwner] < rk2[x]
    <3> DEFINE o == Keepers(t)[x]
    <3>1. x \in A /\ x \in Win /\ IsChildStyle(u, x) = IsChildStyle(t, x)
          /\ u[x].hWndParent = t[x].hWndParent /\ u[x].hWndOwner = t[x].hWndOwner
      BY <1>1, <1>7
    <3>2. /\ o = IF IsChildStyle(t, x) THEN t[x].hWndParent ELSE t[x].hWndOwner
          /\ o \in A \cup {None} /\ t[x].hWndOwner # w
      BY <3>1, KinFacts DEF OwnsNothing
    <3>3. x \in Doomed(t, w) <=> o \in Doomed(t, w)
      BY <2>4
    <3> HIDE DEF o
    <3>4. o # None => rk[o] < rk[x]
      BY <1>1, <2>1, <3>1, <3>2 DEF KinBy
    <3>5. o # None => rk2[o] < rk2[x]
      <4>1. o # None => o \in Win /\ rk[o] \in Nat /\ rk[x] \in Nat
        BY <1>1, <2>2, <3>1, <3>2
      <4> QED
        BY <2>2, <2>3, <3>1, <3>3, <3>4, <4>1
    <3>6. CASE IsChildStyle(t, x)
      <4>1. t[x].hWndOwner = None /\ t[x].hWndParent \in A
        BY <2>1, <3>1, <3>6 DEF KinBy
      <4> QED
        BY <1>1, <1>6, <3>1, <3>2, <3>5, <3>6, <4>1
    <3>7. CASE ~IsChildStyle(t, x)
      <4>1. t[x].hWndParent = None /\ t[x].hWndOwner \in TopLevel(t) \cup {None}
        BY <2>1, <3>1, <3>7 DEF KinBy
      <4> QED
        BY <2>5, <3>1, <3>2, <3>5, <3>7, <4>1
    <3> QED
      BY <3>6, <3>7
  <2>7. /\ IsChildStyle(u, w) =>
             u[w].hWndOwner = None /\ u[w].hWndParent \in Live(u) /\ rk2[u[w].hWndParent] < rk2[w]
        /\ ~IsChildStyle(u, w) =>
             /\ u[w].hWndParent = None /\ u[w].hWndOwner \in TopLevel(u) \cup {None}
             /\ u[w].hWndOwner # None => rk2[u[w].hWndOwner] < rk2[w]
    <3>1. CASE p = None
      BY <1>4, <1>7, <3>1
    <3>2. CASE p # None
      <4>1. p \in A /\ p \in Win /\ rk2[p] = rk[p] /\ rk2[w] = rk[w] + n
        BY <1>1, <1>13, <2>3, <2>4, <3>2
      <4>2. rk[p] < rk[w] + n
        BY <1>1, <2>2, <3>2, <4>1
      <4> QED
        BY <1>4, <1>6, <1>7, <3>2, <4>1, <4>2
    <3> QED
      BY <3>1, <3>2
  <2>8. KinBy(u, rk2)
    BY <1>6, <2>6, <2>7 DEF KinBy
  <2> QED
    BY <2>3, <2>8 DEF Kin
<1> QED
  BY <1>5, <1>6, <1>11, <1>12, <1>14 DEF u, r

-----------------------------------------------------------------------------
(* The inductive invariant: the links are exact, parents and owners are live *)
(* and lead nowhere in a circle, and every call of DestroyWindow under way   *)
(* is where it should be, for the windows that no walk was overtaken by; or   *)
(* the last step left one of those without its owner.                       *)
Sought == Live(wnd) \ overtaken
Whole ==
    /\ WindowTypeOK /\ Everyone(wnd) /\ Kin(wnd) /\ InputIsLive
    /\ CallsIn(wnd, Sought, calls, told)
Bereft ==
    /\ WindowTypeOK /\ Everyone(wnd) /\ InputIsLive
    /\ OrphansOvertaken /\ ~OwnersOutlive
IInv == Whole \/ Bereft

(* What a step frees was told. *)
FreesTold == Live(wnd) \ Live(wnd') \subseteq told

LEMMA WholeFacts ==
    ASSUME Whole
    PROVE  /\ wnd \in Trees /\ Everyone(wnd) /\ Kin(wnd) /\ Now \in States
           /\ Now.wnd = wnd /\ Now.active = active /\ Now.focus = focus /\ Now.capture = capture
           /\ {active, focus, capture} \subseteq Live(wnd) \cup {None} /\ {active, focus, capture} \subseteq Handle
           /\ calls \in Seq(CallRec) /\ told \subseteq Win /\ CallsIn(wnd, Sought, calls, told)
           /\ Len(calls) \in Nat /\ overtaken \subseteq Win /\ Sought \subseteq Live(wnd)
<1>1. /\ wnd \in Trees /\ {active, focus, capture} \subseteq Handle
      /\ calls \in Seq(CallRec) /\ told \subseteq Win /\ overtaken \subseteq Win
  BY DEF Whole, WindowTypeOK, Trees, CallRec
<1>2. Now \in States
  BY <1>1 DEF Now, States
<1> QED
  BY <1>1, <1>2 DEF Whole, InputIsLive, Now, Sought

LEMMA RestackedKeeps ==
    ASSUME NEW t \in Trees, Kin(t), NEW v, Restacked(t, Live(t), v)
    PROVE  /\ v \in Trees /\ Everyone(v) /\ Kin(v) /\ Live(v) = Live(t) /\ TopLevel(v) = TopLevel(t)
           /\ FreedOf(t, v, {})
<1>1. v \in Trees /\ TreeKept(t, v) /\ HasLists(v, Live(t)) /\ HasRings(v, Live(t))
  BY DEF Restacked
<1>2. /\ Live(v) = Live(t) /\ TopLevel(v) = TopLevel(t)
      /\ \A z : Subtree(v, z) = Subtree(t, z) /\ Doomed(v, z) = Doomed(t, z)
  BY <1>1, KeptTree
<1>3. Kin(v)
  BY <1>1, KinKept
<1>4. SameFields(t, v, {})
  <2>1. \A x \in Live(v) : x \in Win \cup {Root}
    BY <1>1, TreeFacts
  <2> QED
    BY <1>1, <1>2, <2>1 DEF TreeKept, SameFields
<1>5. FreedOf(t, v, {})
  BY <1>1, <1>2, <1>3, <1>4 DEF FreedOf
<1> QED
  BY <1>1, <1>2, <1>3, <1>5 DEF Everyone

LEMMA CallsFewer ==
    ASSUME NEW t, NEW X, NEW cs, NEW to, CallsIn(t, X, cs, to), NEW Y, Y \subseteq X
    PROVE  CallsIn(t, Y, cs, to)
<1>1. \A i \in 1..Len(cs) : WalkAt(t, X, cs, i) => WalkAt(t, Y, cs, i)
  BY DEF WalkAt
<1> QED
  BY <1>1 DEF CallsIn

LEMMA NoCalls ==
    ASSUME NEW t, NEW X, NEW to
    PROVE  CallsIn(t, X, << >>, to)
<1>1. << >> \in Seq(CallRec) /\ Len(<< >>) = 0 /\ 1..0 = {}
  OBVIOUS
<1> QED
  BY <1>1 DEF CallsIn, Apart

(* A step between destructions. *)
LEMMA IdleKeeps ==
    ASSUME Whole, Idle, UNCHANGED <<calls, told, overtaken>>,
           wnd' \in Trees, Everyone(wnd'), Kin(wnd'), Live(wnd) \subseteq Live(wnd'),
           {active', focus', capture'} \subseteq Live(wnd') \cup {None}
    PROVE  Whole' /\ FreesTold
<1>1. {active', focus', capture'} \subseteq Handle
  <2>1. Live(wnd') \subseteq Win
    BY TreeFacts
  <2> QED
    BY <2>1 DEF Handle
<1>2. WindowTypeOK'
  BY <1>1 DEF Whole, WindowTypeOK, Trees
<1>3. calls' = << >>
  BY DEF Idle
<1>4. CallsIn(wnd', Sought', calls', told')
  BY <1>3, NoCalls
<1>5. InputIsLive'
  BY DEF InputIsLive
<1> QED
  BY <1>2, <1>4, <1>5 DEF Whole, FreesTold

(* What is activated while nothing is destroyed. *)
LEMMA ShiftedKeeps ==
    ASSUME Whole, Idle, UNCHANGED <<calls, told, overtaken>>, NEW m, Shifted(Now, Live(wnd), m),
           NEW f \in Live(wnd) \cup {None},
           wnd' = m.wnd, active' = m.active, focus' = f, capture' = m.capture
    PROVE  Whole' /\ FreesTold
<1>1. /\ wnd \in Trees /\ Kin(wnd) /\ Now.wnd = wnd /\ Now.active = active /\ Now.capture = capture
      /\ {active, focus, capture} \subseteq Live(wnd) \cup {None}
  BY WholeFacts
<1>2. /\ Restacked(wnd, Live(wnd), m.wnd) /\ m.capture = capture
      /\ m.active \in {active, None} \cup (Live(wnd) \cap TopLevel(wnd))
  BY <1>1 DEF Shifted
<1>3. wnd' \in Trees /\ Everyone(wnd') /\ Kin(wnd') /\ Live(wnd') = Live(wnd)
  BY <1>1, <1>2, RestackedKeeps
<1> QED
  BY <1>1, <1>2, <1>3, IdleKeeps

LEMMA RestackKeeps ==
    ASSUME Whole, NEW w \in Win, Restack(w)
    PROVE  Whole' /\ FreesTold
<1>1. /\ wnd \in Trees /\ Kin(wnd) /\ HasLists(wnd, Live(wnd)) /\ HasRings(wnd, Live(wnd))
      /\ {active, focus, capture} \subseteq Live(wnd) \cup {None}
  BY WholeFacts DEF Everyone
<1>2. w \in Live(wnd)
  BY DEF Restack, Live
<1>3. Restacked(wnd, Live(wnd), wnd')
  <2>1. Restacked(wnd, Live(wnd), Top(wnd, w, calls))
    BY <1>1, <1>2, TopKeeps
  <2>2. Restacked(wnd, Live(wnd), Bottom(wnd, w))
    BY <1>1, <1>2, BottomKeeps
  <2>3. \A x \in ToSet(Children(wnd, ListOwner(wnd, w))) \ {w} : Restacked(wnd, Live(wnd), Behind(wnd, w, x))
    BY <1>1, <1>2, BehindKeeps
  <2>4. \/ wnd' = Top(wnd, w, calls) \/ wnd' = Bottom(wnd, w)
        \/ \E x \in ToSet(Children(wnd, ListOwner(wnd, w))) \ {w} : wnd' = Behind(wnd, w, x)
    BY DEF Restack
  <2> QED
    BY <2>1, <2>2, <2>3, <2>4
<1>4. wnd' \in Trees /\ Everyone(wnd') /\ Kin(wnd') /\ Live(wnd') = Live(wnd)
  BY <1>1, <1>3, RestackedKeeps
<1>5. Idle /\ UNCHANGED <<active, focus, capture, calls, told, overtaken>>
  BY DEF Restack
<1> QED
  BY <1>1, <1>4, <1>5, IdleKeeps

LEMMA ActivateKeeps ==
    ASSUME Whole, NEW w \in Win, Activate(w)
    PROVE  Whole' /\ FreesTold
<1>1. /\ wnd \in Trees /\ Kin(wnd) /\ HasLists(wnd, Live(wnd)) /\ HasRings(wnd, Live(wnd))
      /\ Now \in States /\ Now.wnd = wnd /\ Now.focus = focus
      /\ {active, focus, capture} \subseteq Live(wnd) \cup {None}
  BY WholeFacts DEF Everyone
<1>2. Idle /\ UNCHANGED <<calls, told, overtaken>>
  BY DEF Activate
<1>3. PICK u \in SetActiveWindow(Now, w) : Becomes(u)
  BY DEF Activate
<1>4. TopLevel(wnd) \subseteq Live(wnd)
  BY <1>1, TreeFacts
<1>5. Shifted(Now, Live(wnd), u)
  BY <1>1, <1>4, ActiveFacts
<1>6. u.focus \in Live(wnd) \cup {None}
  BY <1>1, <1>5 DEF Shifted
<1> QED
  BY <1>2, <1>3, <1>5, <1>6, ShiftedKeeps DEF Becomes

LEMMA FocusKeeps ==
    ASSUME Whole, NEW w \in Win, Focus(w)
    PROVE  Whole' /\ FreesTold
<1>1. Kin(wnd) /\ Everyone(wnd) /\ Now \in States /\ Now.wnd = wnd
  BY WholeFacts
<1>2. Idle /\ UNCHANGED <<calls, told, overtaken>> /\ w \in Live(wnd)
  BY DEF Focus, Live
<1>3. PICK u \in SetFocus(Now, w) : Becomes(u)
  BY DEF Focus
<1>4. PICK f \in Live(wnd) \cup {None} : \E m : Shifted(Now, Live(wnd), m) /\ u = [m EXCEPT !.focus = f]
  BY <1>1, <1>2, FocusFacts
<1>5. PICK m : Shifted(Now, Live(wnd), m) /\ u = [m EXCEPT !.focus = f]
  BY <1>4
<1>6. wnd' = m.wnd /\ active' = m.active /\ focus' = f /\ capture' = m.capture
  BY <1>3, <1>5 DEF Becomes, Shifted, States
<1> QED
  BY <1>2, <1>5, <1>6, ShiftedKeeps

LEMMA CaptureKeeps ==
    ASSUME Whole, NEW w \in Catchers \cup {None}, SetCapture(w)
    PROVE  Whole' /\ FreesTold
<1>1. /\ wnd \in Trees /\ Kin(wnd) /\ Everyone(wnd)
      /\ {active, focus, capture} \subseteq Live(wnd) \cup {None}
  BY WholeFacts
<1>2. /\ Idle /\ UNCHANGED <<wnd, active, focus, calls, told, overtaken>>
      /\ capture' \in Live(wnd) \cup {None}
  BY DEF SetCapture, Live, IsWindow
<1> QED
  BY <1>1, <1>2, IdleKeeps

LEMMA CreateKeeps ==
    ASSUME Whole, NEW w \in Win, Create(w)
    PROVE  Whole' /\ FreesTold
<1>1. /\ wnd \in Trees /\ Kin(wnd) /\ Everyone(wnd) /\ Now \in States
      /\ {active, focus, capture} \subseteq Live(wnd) \cup {None} /\ {active, focus, capture} \subseteq Handle
  BY WholeFacts
<1>2. Idle /\ w \notin Live(wnd) /\ UNCHANGED <<calls, told, overtaken>>
  BY DEF Create, Live
<1>3. PICK k \in Kind \ {"free"}, p \in Live(wnd) \cup {None}, g \in BOOLEAN :
         LET v == InsertAsLastSibling(Born(wnd, w, k, p, g), w)
             s == [Now EXCEPT !.wnd = v]
         IN /\ k = "child" => p # None
            /\ k # "child" => p \in TopLevel(wnd) \cup {None}
            /\ \E u \in IF k = "child" THEN {s} ELSE Activations(s, w) : Becomes(u)
  <2>1. PICK k \in Kind \ {"free"}, p \in Live(wnd) \cup {None}, g \in BOOLEAN :
           LET v == InsertAsLastSibling(Born(wnd, w, k, p, g), w)
               s == [Now EXCEPT !.wnd = v]
           IN /\ CASE k = "child" -> p # None
                   [] k = "popup" -> p \in TopLevel(wnd) \cup {None}
                   [] OTHER -> p = None
              /\ \E u \in IF k = "child" THEN {s} ELSE Activations(s, w) : Becomes(u)
    BY DEF Create, Born
  <2>2. /\ k = "child" => p # None
        /\ k # "child" => p \in TopLevel(wnd) \cup {None}
    BY <2>1
  <2> QED
    BY <2>1, <2>2
<1> DEFINE t == Born(wnd, w, k, p, g)
           v == InsertAsLastSibling(t, w)
           s == [Now EXCEPT !.wnd = v]
<1>4. k \in {"child", "popup", "overlapped"}
  BY DEF Kind
<1>5. /\ t \in Trees /\ Kin(t) /\ Without(t, w) /\ t[w].hWndSibling = None
      /\ Live(t) = Live(wnd) \cup {w} /\ (w \in TopLevel(t) <=> k # "child")
  BY <1>1, <1>2, <1>3, <1>4, BornFacts
<1>6. \E u \in IF k = "child" THEN {s} ELSE Activations(s, w) : Becomes(u)
  BY <1>3
<1> HIDE DEF t
<1>7. v \in Trees /\ TreeKept(t, v) /\ Everyone(v)
  BY <1>5, InsertLastKeeps
<1> HIDE DEF v
<1>8. Kin(v) /\ Live(v) = Live(wnd) \cup {w} /\ (w \in TopLevel(v) <=> k # "child")
  BY <1>5, <1>7, KeptTree, KinKept
<1>9. s \in States /\ s.wnd = v /\ s.active = active /\ s.focus = focus /\ s.capture = capture
  BY <1>1, <1>7 DEF Now, States
<1> HIDE DEF s
<1>10. CASE k = "child"
  <2>1. wnd' = v /\ active' = active /\ focus' = focus /\ capture' = capture
    BY <1>6, <1>9, <1>10 DEF Becomes
  <2> QED
    BY <1>1, <1>2, <1>7, <1>8, <2>1, IdleKeeps
<1>11. CASE k # "child"
  <2>1. PICK u \in Activations(s, w) : Becomes(u)
    BY <1>6, <1>11
  <2>2. w \in Live(v) /\ w \in TopLevel(v) /\ HasLists(v, Live(v)) /\ HasRings(v, Live(v))
    BY <1>7, <1>8, <1>11 DEF Everyone
  <2>3. w # s.active
    BY <1>1, <1>2, <1>9, TreeFacts
  <2>4. Shifted(s, Live(v), u) /\ u.active = w /\ u.focus \in Live(v)
    BY <1>8, <1>9, <2>2, <2>3, ActivationsFacts
  <2>5. Restacked(v, Live(v), u.wnd) /\ u.capture = capture
    BY <1>9, <2>4 DEF Shifted
  <2>6. wnd' \in Trees /\ Everyone(wnd') /\ Kin(wnd') /\ Live(wnd') = Live(wnd) \cup {w}
    BY <1>7, <1>8, <2>1, <2>5, RestackedKeeps DEF Becomes
  <2>7. {active', focus', capture'} \subseteq Live(wnd') \cup {None}
    BY <1>1, <1>8, <2>1, <2>4, <2>5, <2>6 DEF Becomes
  <2> QED
    BY <1>2, <2>6, <2>7, IdleKeeps
<1> QED
  BY <1>10, <1>11

LEMMA SetParentKeeps ==
    ASSUME Whole, NEW w \in Win, NEW p \in Win \cup {None}, SetParent(w, p)
    PROVE  Whole' /\ FreesTold
<1> DEFINE t == Moves(RemoveFromList(wnd, w), w, p)
           v == InsertAsFirstSibling(t, w)
<1>1. /\ wnd \in Trees /\ Kin(wnd) /\ Everyone(wnd)
      /\ {active, focus, capture} \subseteq Live(wnd) \cup {None}
  BY WholeFacts
<1>2. /\ Idle /\ UNCHANGED <<active, focus, capture, calls, told, overtaken>>
      /\ w \in Live(wnd) /\ wnd[w].hWndOwner = None /\ OwnsNothing(wnd, w)
      /\ p \in (Live(wnd) \cup {None}) \ Subtree(wnd, w) /\ p # wnd[w].hWndParent
      /\ wnd' = v
  BY DEF SetParent, Moves, Live, Owns, OwnsNothing
<1>3. /\ t \in Trees /\ Kin(t) /\ Without(t, w) /\ Live(t) = Live(wnd)
      /\ \A x \in Live(t) \ {w} : ListOwner(t, x) = ListOwner(t, w) => t[w].hWndGroup # x
  BY <1>1, <1>2, MovesFacts
<1> HIDE DEF t
<1>4. v \in Trees /\ TreeKept(t, v) /\ Everyone(v)
  BY <1>3, InsertFirstKeeps
<1> HIDE DEF v
<1>5. Kin(v) /\ Live(v) = Live(wnd)
  BY <1>3, <1>4, KeptTree, KinKept
<1> QED
  BY <1>1, <1>2, <1>4, <1>5, IdleKeeps

LEMMA InitWhole ==
    ASSUME WindowInit
    PROVE  Whole
<1>1. /\ DOMAIN wnd = Win \cup {Root} /\ \A x \in Win \cup {Root} : wnd[x] = IF x = Root THEN Desktop ELSE Freed
      /\ active = None /\ focus = None /\ capture = None /\ calls = << >> /\ told = {} /\ overtaken = {}
  BY DEF WindowInit
<1>2. Freed \in Hwnd /\ Desktop \in Hwnd
  BY DEF Freed, Desktop, Hwnd, Handle, Kind
<1>3. wnd \in Trees
  BY <1>2 DEF WindowInit, Trees
<1>4. Live(wnd) = {} /\ Owners(wnd) = {Root}
  <2>1. \A x \in Win : wnd[x].kind = "free"
    BY <1>1, WindowAssumption DEF Freed
  <2> QED
    BY <2>1 DEF Live, IsWindow, Owners
<1>5. wnd[Root].hWndChild = None /\ wnd[Root].hWndLastChild = None
  BY <1>1 DEF Desktop, Freed
<1>6. Everyone(wnd)
  <2>1. Children(wnd, Root) = << >>
    BY <1>5, NoSiblings DEF Children
  <2>2. Listed(wnd, Root, << >>) /\ ToSet(<< >>) = {}
    BY <1>5 DEF Listed, IsInjective, ToSet
  <2>3. HasLists(wnd, {})
    BY <1>4, <2>1, <2>2 DEF HasLists, ListedAll
  <2>4. HasRings(wnd, {})
    BY <1>4, <1>5 DEF HasRings
  <2> QED
    BY <1>4, <2>3, <2>4 DEF Everyone
<1>7. Kin(wnd)
  <2>1. [x \in Win |-> 0] \in [Win -> Nat]
    OBVIOUS
  <2> QED
    BY <1>4, <2>1 DEF Kin, KinBy
<1>8. CallsIn(wnd, Sought, calls, told)
  BY <1>1, NoCalls
<1>9. WindowTypeOK /\ InputIsLive
  <2>1. calls \in Seq(CallRec)
    BY <1>1
  <2>2. {active, focus, capture} \subseteq Handle /\ told \subseteq Win /\ overtaken \subseteq Win
    BY <1>1 DEF Handle
  <2>3. InputIsLive
    BY <1>1 DEF InputIsLive
  <2> QED
    BY <1>3, <2>1, <2>2, <2>3 DEF WindowTypeOK, Trees, CallRec
<1> QED
  BY <1>1, <1>6, <1>7, <1>8, <1>9 DEF Whole

-----------------------------------------------------------------------------
(* The steps of DestroyWindow. *)
LEMMA InnerFacts ==
    ASSUME Whole, ~Idle
    PROVE  /\ Len(calls) \in Nat \ {0} /\ Outer \in Seq(CallRec) /\ Inner \in CallRec
           /\ HasLast(calls, Inner, Outer) /\ Inner = calls[Len(calls)]
           /\ Len(calls) = Len(Outer) + 1 /\ Len(Outer) \in Nat
           /\ \A i \in 1..Len(Outer) : i \in 1..Len(calls) /\ Outer[i] = calls[i] /\ i < Len(calls)
           /\ \A i \in 1..Len(calls) : i \in 1..Len(Outer) \/ i = Len(calls)
           /\ CallOK(wnd, Inner) /\ RestOf(wnd, Inner, told) /\ WalkAt(wnd, Sought, calls, Len(calls))
           /\ Inner.w \in Win /\ Inner.path \in Seq(Win) /\ Inner.cur \in Handle
<1> DEFINE n == Len(calls)
<1>1. calls \in Seq(CallRec) /\ calls # << >> /\ CallsIn(wnd, Sought, calls, told)
  BY WholeFacts DEF Idle
<1>2. n \in Nat \ {0} /\ n \in 1..n
  BY <1>1
<1>3. /\ Outer \in Seq(CallRec) /\ Len(Outer) = n - 1
      /\ \A i \in 1..(n - 1) : Outer[i] = calls[i] /\ i \in 1..n
  BY <1>1, <1>2, FrontOfSeq DEF Outer, Front
<1>4. Inner = calls[n] /\ Inner \in CallRec
  BY <1>1, <1>2 DEF Inner, Last
<1>5. HasLast(calls, Inner, Outer)
  BY <1>2, <1>3, <1>4 DEF HasLast
<1>6. CallOK(wnd, Inner) /\ RestOf(wnd, Inner, told) /\ WalkAt(wnd, Sought, calls, n)
  BY <1>1, <1>2, <1>4 DEF CallsIn
<1>7. Inner.w \in Win /\ Inner.path \in Seq(Win) /\ Inner.cur \in Handle
  BY <1>4 DEF CallRec
<1>8. \A i \in 1..n : i \in 1..Len(Outer) \/ i = n
  BY <1>2, <1>3
<1> QED
  BY <1>2, <1>3, <1>4, <1>5, <1>6, <1>7, <1>8

(* A step that frees nothing and leaves the windows as they are. *)
LEMMA CallsStep ==
    ASSUME Whole, UNCHANGED <<wnd, active, focus, capture, overtaken>>, told' \subseteq Win,
           CallsIn(wnd, Sought, calls', told')
    PROVE  Whole' /\ FreesTold
<1>1. calls' \in Seq(CallRec)
  BY DEF CallsIn
<1>2. WindowTypeOK'
  BY <1>1 DEF Whole, WindowTypeOK, CallRec
<1>3. Sought' = Sought
  BY DEF Sought
<1>4. Everyone(wnd') /\ Kin(wnd') /\ InputIsLive' /\ CallsIn(wnd', Sought', calls', told')
  BY <1>3 DEF Whole, InputIsLive
<1> QED
  BY <1>2, <1>4 DEF Whole, FreesTold

LEMMA CalledFacts ==
    ASSUME Whole, NEW w \in Live(wnd)
    PROVE  LET d == Called(w)
           IN /\ d \in CallRec /\ d.w = w /\ CallOK(wnd, d) /\ d.pc # "tell"
              /\ d.pc = "owned" => \A x \in Live(wnd) : wnd[x].hWndOwner = w => AheadOf(wnd, d.cur, x)
<1> DEFINE d == Called(w)
           q == Children(wnd, Root)
           f == wnd[Root].hWndChild
<1>1. wnd \in Trees /\ Kin(wnd) /\ Everyone(wnd)
  BY WholeFacts
<1>2. w \in Win /\ f \in Handle
  BY <1>1, TreeFacts
<1>3. d \in CallRec /\ d.w = w /\ d.path = << >>
      /\ d.pc = (IF IsChildStyle(wnd, w) THEN "notify" ELSE "owned")
      /\ d.cur = IF IsChildStyle(wnd, w) THEN None ELSE f
  <2>1. << >> \in Seq(Win)
    OBVIOUS
  <2> QED
    BY <1>2, <2>1 DEF Called, CallRec, Handle
<1> HIDE DEF d
<1>4. RootList(wnd, q)
  BY <1>1, RootListed
<1>5. f = (IF Len(q) = 0 THEN None ELSE q[1]) /\ Len(q) \in Nat
  BY <1>4 DEF RootList, Listed
<1>6. f \in Live(wnd) => f \in TopLevel(wnd)
  <2>1. None \notin Live(wnd)
    BY <1>1, TreeFacts
  <2>2. Len(q) # 0 => 1 \in 1..Len(q)
    BY <1>5
  <2> QED
    BY <1>4, <1>5, <2>1, <2>2 DEF RootList
<1>7. CallOK(wnd, d)
  BY <1>3, <1>6 DEF CallOK
<1>8. ASSUME d.pc = "owned", NEW x \in Live(wnd), wnd[x].hWndOwner = w PROVE AheadOf(wnd, d.cur, x)
  <2>1. x \in TopLevel(wnd)
    BY <1>1, <1>2, <1>8, KinFacts, TreeFacts
  <2>2. PICK i \in 1..Len(q) : q[i] = x
    <3>1. DOMAIN q = 1..Len(q)
      BY <1>4 DEF RootList, Listed
    <3> QED
      BY <1>4, <2>1, <3>1 DEF RootList, ToSet
  <2>3. f = q[1] /\ f # None /\ 1 \in 1..Len(q)
    <3>1. 1 \in 1..Len(q)
      BY <1>5, <2>2
    <3>2. q[1] \in Win /\ None \notin Win
      BY <1>1, <1>4, <3>1, TreeFacts DEF RootList
    <3> QED
      BY <1>5, <2>2, <3>1, <3>2
  <2>4. x = f \/ Above(wnd, f, x)
    <3>1. CASE i = 1
      BY <2>2, <2>3, <3>1
    <3>2. CASE i # 1
      <4>1. DOMAIN q = 1..Len(q) /\ 1 < i
        BY <1>4, <1>5, <3>2 DEF RootList, Listed
      <4>2. Precedes(q, f, x)
        BY <2>2, <2>3, <4>1 DEF Precedes
      <4> QED
        BY <4>2 DEF Above, Owners
    <3> QED
      BY <3>1, <3>2
  <2>5. d.cur = f
    BY <1>3, <1>8
  <2> QED
    BY <2>3, <2>4, <2>5 DEF AheadOf
<1> QED
  BY <1>3, <1>7, <1>8 DEF d

LEMMA DestroyKeeps ==
    ASSUME Whole, NEW w \in Win, DestroyWindow(w)
    PROVE  Whole' /\ FreesTold
<1> DEFINE d == Called(w)
<1>1. /\ w \in Live(wnd) /\ calls' = Append(calls, d)
      /\ UNCHANGED <<wnd, active, focus, capture, told, overtaken>>
  BY DEF DestroyWindow, Live
<1>2. /\ calls \in Seq(CallRec) /\ CallsIn(wnd, Sought, calls, told) /\ told \subseteq Win
      /\ Len(calls) \in Nat /\ Sought \subseteq Live(wnd)
  BY WholeFacts
<1>3. /\ d \in CallRec /\ d.w = w /\ CallOK(wnd, d) /\ d.pc # "tell"
      /\ d.pc = "owned" => \A x \in Live(wnd) : wnd[x].hWndOwner = w => AheadOf(wnd, d.cur, x)
  BY <1>1, CalledFacts
<1> HIDE DEF d
<1>4. calls' \in Seq(CallRec) /\ HasLast(calls', d, calls)
  BY <1>1, <1>2, <1>3, AppendedSeq
<1>5. CallsIn(wnd, Sought \ {d.w}, calls, told)
  BY <1>2, CallsFewer
<1>6. ASSUME NEW i \in 1..Len(calls), calls[i].pc # "notify" PROVE Doomed(wnd, d.w) \cap Held(calls[i]) = {}
  <2>1. ~Idle
    BY <1>2, <1>6 DEF Idle
  <2>2. /\ Inner = calls[Len(calls)] /\ \A k \in 1..Len(calls) : k \in 1..Len(Outer) \/ k = Len(calls)
        /\ \A k \in 1..Len(Outer) : Outer[k] = calls[k] /\ DOMAIN Outer = 1..Len(Outer)
    BY <2>1, InnerFacts
  <2>3. DOMAIN calls = 1..Len(calls)
    BY <1>2
  <2>4. CASE Doomed(wnd, w) \cap UnderWay(calls) = {}
    <3>1. Held(calls[i]) \subseteq UnderWay(calls)
      BY <2>3 DEF Held, UnderWay
    <3> QED
      BY <1>3, <2>4, <3>1
  <2>5. CASE Inner.pc = "notify" /\ Doomed(wnd, w) \cap UnderWay(Outer) = {}
    <3>1. i \in 1..Len(Outer)
      BY <1>6, <2>2, <2>5
    <3>2. Outer[i] = calls[i] /\ i \in DOMAIN Outer
      BY <2>2, <3>1
    <3>3. Held(calls[i]) \subseteq UnderWay(Outer)
      BY <3>2 DEF Held, UnderWay
    <3> QED
      BY <1>3, <2>5, <3>3
  <2> QED
    BY <2>1, <2>4, <2>5 DEF DestroyWindow
<1>7. d.w \in Sought => \A i \in 1..Len(calls) : calls[i].pc = "tell" => wnd[d.w].hWndOwner # calls[i].w
  BY <1>1, <1>2, <1>3 DEF CallsIn, WalkAt
<1>8. CallsIn(wnd, Sought, calls', told)
  BY <1>2, <1>3, <1>4, <1>5, <1>6, <1>7, CallsAnother
<1> QED
  BY <1>1, <1>2, <1>8, CallsStep

LEMMA NotifiedKeeps ==
    ASSUME Whole, Notified
    PROVE  Whole' /\ FreesTold
<1>1. /\ ~Idle /\ Inner.pc = "notify" /\ UNCHANGED <<wnd, active, focus, capture, told, overtaken>>
  BY DEF Notified
<1>2. /\ Outer \in Seq(CallRec) /\ Inner \in CallRec /\ HasLast(calls, Inner, Outer)
      /\ CallOK(wnd, Inner) /\ Inner.w \in Win /\ Inner.path \in Seq(Win)
  BY <1>1, InnerFacts
<1>3. /\ CallsIn(wnd, Sought, calls, told) /\ told \subseteq Win
      /\ wnd \in Trees /\ Kin(wnd) /\ Sought \subseteq Live(wnd)
  BY WholeFacts
<1>4. CASE Inner.w \notin Live(wnd)
  <2>3. Inner.w \notin Sought
    BY <1>3, <1>4
  <2>1. calls' = Outer
    BY <1>2, <1>4 DEF Notified, Live
  <2>2. CallsIn(wnd, Sought, calls', told)
    BY <1>2, <1>3, <1>4, <2>1, <2>3, CallReturns
  <2> QED
    BY <1>1, <1>3, <2>2, CallsStep
<1>5. CASE Inner.w \in Live(wnd)
  <2> DEFINE d == [Inner EXCEPT !.pc = "owned"]
  <2>1. calls' = Append(Outer, d)
    BY <1>5 DEF Notified, Live
  <2>2. d \in CallRec /\ d.w = Inner.w /\ d.pc = "owned" /\ d.path = Inner.path /\ d.cur = Inner.cur
    BY <1>2 DEF CallRec
  <2> HIDE DEF d
  <2>3. calls' \in Seq(CallRec) /\ HasLast(calls', d, Outer)
    BY <1>2, <2>1, <2>2, AppendedSeq
  <2>4. Inner.path = << >> /\ Inner.cur = None /\ IsChildStyle(wnd, Inner.w) /\ None \notin Live(wnd)
    BY <1>1, <1>2, <1>3, <1>5, TreeFacts DEF CallOK
  <2>5. CallOK(wnd, d)
    BY <1>5, <2>2, <2>4 DEF CallOK
  <2>6. \A x \in Live(wnd) : wnd[x].hWndOwner # Inner.w
    <3>1. \A x \in Live(wnd) : wnd[x].hWndOwner # None => wnd[x].hWndOwner \in TopLevel(wnd)
      BY <1>3, KinFacts
    <3>2. Inner.w \notin TopLevel(wnd) /\ Inner.w # None
      BY <1>5, <2>4 DEF TopLevel
    <3> QED
      BY <3>1, <3>2
  <2>7. WalkAt(wnd, Sought, calls', Len(calls'))
    <3>1. calls'[Len(calls')] = d
      BY <1>2, <2>3 DEF HasLast
    <3> QED
      BY <1>3, <2>2, <2>6, <3>1 DEF WalkAt
  <2>8. RestOf(wnd, d, told)
    BY <2>2 DEF RestOf
  <2>9. CallsIn(wnd, Sought, calls', told)
    BY <1>2, <1>3, <2>2, <2>3, <2>5, <2>7, <2>8, CallGoesOn
  <2> QED
    BY <1>1, <1>3, <2>9, CallsStep
<1> QED
  BY <1>4, <1>5

LEMMA OwnedKeeps ==
    ASSUME Whole, DestroyOwned
    PROVE  Whole' /\ FreesTold
<1> DEFINE x == OwnedFrom(wnd, Inner.cur, Inner.w)
           d == [Inner EXCEPT !.cur = wnd[x].hWndSibling]
           e == Called(x)
           ds == Append(Outer, d)
<1>1. /\ ~Idle /\ Inner.pc = "owned" /\ UNCHANGED <<wnd, active, focus, capture, told, overtaken>>
      /\ x # None /\ calls' = Outer \o <<d, e>>
  BY DEF DestroyOwned
<1>2. /\ Outer \in Seq(CallRec) /\ Inner \in CallRec /\ HasLast(calls, Inner, Outer)
      /\ CallOK(wnd, Inner) /\ Inner.w \in Win /\ Inner.path \in Seq(Win) /\ Inner.cur \in Handle
      /\ WalkAt(wnd, Sought, calls, Len(calls)) /\ Inner = calls[Len(calls)]
      /\ Len(calls) = Len(Outer) + 1 /\ Len(Outer) \in Nat
      /\ \A i \in 1..Len(Outer) : i \in 1..Len(calls) /\ Outer[i] = calls[i] /\ i < Len(calls)
  BY <1>1, InnerFacts
<1>3. /\ CallsIn(wnd, Sought, calls, told) /\ told \subseteq Win
      /\ wnd \in Trees /\ Kin(wnd) /\ Everyone(wnd) /\ Sought \subseteq Live(wnd)
  BY WholeFacts
<1>4. /\ Inner.w \in Live(wnd) /\ Inner.path = << >>
      /\ Inner.cur \in Live(wnd) => Inner.cur \in TopLevel(wnd)
  BY <1>1, <1>2 DEF CallOK
<1>5. \A y \in Sought : wnd[y].hWndOwner = Inner.w => AheadOf(wnd, Inner.cur, y)
  <2>1. \A y : ~LaterCall(calls, Len(calls), y)
    BY <1>2 DEF LaterCall
  <2> QED
    BY <1>1, <1>2, <2>1 DEF WalkAt
<1>6. /\ x \in TopLevel(wnd) /\ wnd[x].hWndOwner = Inner.w
      /\ wnd[x].hWndSibling \in Live(wnd) => wnd[x].hWndSibling \in TopLevel(wnd)
      /\ \A y \in Sought \ {x} : wnd[y].hWndOwner = Inner.w => AheadOf(wnd, wnd[x].hWndSibling, y)
  BY <1>1, <1>2, <1>3, <1>4, <1>5, OwnedWalk
<1> HIDE DEF x
<1>7. x \in Live(wnd) /\ x \in Win /\ wnd[x].hWndSibling \in Handle /\ ~IsChildStyle(wnd, x)
  BY <1>3, <1>6, TreeFacts DEF TopLevel
<1>8. /\ d \in CallRec /\ d.w = Inner.w /\ d.pc = "owned" /\ d.path = << >>
      /\ d.cur = wnd[x].hWndSibling
  BY <1>1, <1>2, <1>4, <1>7 DEF CallRec
<1>9. /\ e \in CallRec /\ e.w = x /\ CallOK(wnd, e) /\ e.pc # "tell"
      /\ e.pc = "owned" => \A y \in Live(wnd) : wnd[y].hWndOwner = x => AheadOf(wnd, e.cur, y)
  BY <1>7, CalledFacts
<1> HIDE DEF d, e
<1>10. ds \in Seq(CallRec) /\ HasLast(ds, d, Outer)
  BY <1>2, <1>8, AppendedSeq
<1>11. calls' = Append(ds, e)
  BY <1>1, <1>2, <1>8, <1>9
<1> HIDE DEF ds
<1>12. calls' \in Seq(CallRec) /\ HasLast(calls', e, ds)
  BY <1>9, <1>10, <1>11, AppendedSeq
<1>13. CallsIn(wnd, Sought \ {x}, ds, told)
  <2>1. CallOK(wnd, d)
    BY <1>4, <1>6, <1>8 DEF CallOK
  <2>2. WalkAt(wnd, Sought \ {x}, ds, Len(ds))
    <3>1. ds[Len(ds)] = d
      BY <1>2, <1>10 DEF HasLast
    <3> QED
      BY <1>6, <1>8, <3>1 DEF WalkAt
  <2>3. RestOf(wnd, d, told)
    BY <1>8 DEF RestOf
  <2> QED
    BY <1>2, <1>3, <1>8, <1>10, <2>1, <2>2, <2>3, CallGoesOn
<1>14. ASSUME NEW i \in 1..Len(ds), ds[i] # d PROVE i \in 1..Len(Outer) /\ ds[i] = calls[i]
  <2>1. /\ Len(ds) = Len(Outer) + 1
        /\ \A k \in 1..(Len(Outer) + 1) : ds[k] = IF k = Len(Outer) + 1 THEN d ELSE Outer[k]
    BY <1>10 DEF HasLast
  <2>2. i \in 1..Len(Outer) /\ ds[i] = Outer[i]
    BY <1>2, <1>14, <2>1
  <2> QED
    BY <1>2, <2>2
<1>15. ASSUME NEW i \in 1..Len(ds), ds[i].pc # "notify" PROVE Doomed(wnd, x) \cap Held(ds[i]) = {}
  <2>1. Keepers(wnd)[x] = Inner.w
    BY <1>3, <1>6, <1>7, KinFacts
  <2>2. x # Inner.w /\ Inner.w \notin Doomed(wnd, x)
    BY <1>2, <1>3, <1>7, <2>1, DoomedAcyclic
  <2>3. CASE i \in 1..Len(Outer) /\ ds[i] = calls[i]
    <3>1. Doomed(wnd, Inner.w) \cap Held(calls[i]) = {}
      <4>1. Apart(wnd, calls) /\ i \in 1..Len(calls) /\ Len(calls) \in 1..Len(calls) /\ i < Len(calls)
        BY <1>2, <1>3, <2>3 DEF CallsIn
      <4> QED
        BY <1>2, <1>15, <2>3, <4>1 DEF Apart
    <3>2. x \in Doomed(wnd, Inner.w)
      BY <1>2, <1>3, <1>4, <1>7, <2>1, <2>2, DoomedSteps
    <3>3. Doomed(wnd, x) \subseteq Doomed(wnd, Inner.w)
      BY <1>2, <1>3, <3>2, DoomedTrans
    <3> QED
      BY <2>3, <3>1, <3>3
  <2>4. CASE ds[i] = d
    <3>1. Held(d) = {Inner.w}
      BY <1>8 DEF Held, ToSet
    <3> QED
      BY <2>2, <2>4, <3>1
  <2> QED
    BY <1>14, <2>3, <2>4
<1>16. x \in Sought => \A i \in 1..Len(ds) : ds[i].pc = "tell" => wnd[x].hWndOwner # ds[i].w
  <2> SUFFICES ASSUME x \in Sought PROVE \A i \in 1..Len(ds) : ds[i].pc = "tell" => wnd[x].hWndOwner # ds[i].w
    OBVIOUS
  <2>1. \A i \in 1..Len(calls) : calls[i].pc = "tell" => wnd[x].hWndOwner # calls[i].w
    BY <1>3, <1>7 DEF CallsIn, WalkAt
  <2> QED
    BY <1>2, <1>8, <1>14, <2>1
<1>17. CallsIn(wnd, Sought, calls', told)
  BY <1>3, <1>9, <1>12, <1>13, <1>15, <1>16, CallsAnother
<1> QED
  BY <1>1, <1>3, <1>17, CallsStep

(* A window that some call destroys, while an earlier or a later call walks  *)
(* over what its owner owns: it is the walk that made the other call.        *)
LEMMA RaisedIsKnown ==
    ASSUME NEW t \in Trees, Kin(t), NEW X, NEW cs, NEW to, CallsIn(t, X, cs, to), NEW a \in TopLevel(t),
           NEW i \in 1..Len(cs), cs[i].pc = "owned", t[a].hWndOwner = cs[i].w,
           NEW j \in 1..Len(cs), cs[j].w = a
    PROVE  i < j
<1>1. /\ cs \in Seq(CallRec) /\ Apart(t, cs) /\ CallOK(t, cs[i]) /\ CallOK(t, cs[j])
      /\ Len(cs) \in Nat
  BY DEF CallsIn
<1>2. a \in Live(t) /\ a \in Win /\ a # cs[i].w /\ Keepers(t)[a] = cs[i].w /\ ~IsChildStyle(t, a)
      /\ cs[i].w \in Win /\ None \notin Win
  <2>1. a \in Live(t) /\ a \in Win /\ None \notin Win
    BY TreeFacts
  <2>2. cs[i] \in CallRec
    BY <1>1
  <2>3. cs[i].w \in Win
    BY <2>2 DEF CallRec
  <2>4. /\ a \in TopLevel(t) <=> ~IsChildStyle(t, a)
        /\ t[a].hWndOwner # a /\ Keepers(t)[a] = IF IsChildStyle(t, a) THEN t[a].hWndParent ELSE t[a].hWndOwner
    BY <2>1, KinFacts
  <2> QED
    BY <2>1, <2>3, <2>4
<1>3. i # j
  BY <1>2
<1>4. cs[j].pc # "notify"
  BY <1>1, <1>2 DEF CallOK
<1>5. a \in Doomed(t, cs[i].w)
  <2>1. cs[i].w \in Live(t)
    BY <1>1 DEF CallOK
  <2> QED
    BY <1>2, <2>1, DoomedSteps
<1>6. ~(j < i)
  BY <1>1, <1>4, <1>5 DEF Apart, Held
<1> QED
  BY <1>1, <1>3, <1>6

(* A step that raises a window and does not overtake a walk: the walk has     *)
(* called for that window's destruction.                                    *)
LEMMA NotOvertaking ==
    ASSUME Whole, NEW a \in TopLevel(wnd) \ {active}, a \notin Overtaking(a),
           NEW i \in 1..Len(calls), calls[i].pc = "owned", wnd[a].hWndOwner = calls[i].w
    PROVE  \E j \in 1..Len(calls) : i < j /\ calls[j].w = a
<1>1. /\ CallsIn(wnd, Sought, calls, told) /\ wnd \in Trees /\ Kin(wnd)
      /\ calls \in Seq(CallRec)
  BY WholeFacts
<1>2. a \in Live(wnd) /\ DOMAIN calls = 1..Len(calls)
  BY <1>1, TreeFacts
<1>3. PICK j \in 1..Len(calls) : calls[j].w = a
  BY <1>2 DEF Overtaking
<1>4. i < j
  BY <1>1, <1>3, RaisedIsKnown
<1> QED
  BY <1>3, <1>4

LEMMA TellKeeps ==
    ASSUME Whole, Tell
    PROVE  Whole' /\ FreesTold
<1> DEFINE path == NextToTell(wnd, Inner.path)
           d == [Inner EXCEPT !.path = path]
<1>1. /\ ~Idle /\ Inner.pc = "tell" /\ path # << >> /\ UNCHANGED <<wnd, active, focus, capture, overtaken>>
      /\ calls' = Append(Outer, d) /\ told' = told \cup {Last(path)}
  BY DEF Tell
<1>2. /\ Outer \in Seq(CallRec) /\ Inner \in CallRec /\ HasLast(calls, Inner, Outer)
      /\ CallOK(wnd, Inner) /\ RestOf(wnd, Inner, told) /\ Inner.path \in Seq(Win)
      /\ WalkAt(wnd, Sought, calls, Len(calls)) /\ Inner = calls[Len(calls)]
      /\ Len(Outer) \in Nat
  BY <1>1, InnerFacts
<1>3. /\ CallsIn(wnd, Sought, calls, told) /\ told \subseteq Win
      /\ wnd \in Trees /\ Kin(wnd) /\ Everyone(wnd)
  BY WholeFacts
<1>4. /\ Inner.w \in Live(wnd) /\ PathOK(wnd, Inner.w, Inner.path)
      /\ \A x \in Subtree(wnd, Inner.w) : x \in told \/ ToCome(wnd, Inner.path, x)
  BY <1>1, <1>2 DEF CallOK, RestOf
<1>5. /\ path \in Seq(Win) /\ PathOK(wnd, Inner.w, path)
      /\ \A x \in Subtree(wnd, Inner.w) : x \in told \cup {Last(path)} \/ ToCome(wnd, path, x)
  BY <1>1, <1>2, <1>3, <1>4, TellOn
<1> HIDE DEF path
<1>6. Last(path) \in Win
  BY <1>5 DEF PathOK, Last
<1>7. d \in CallRec /\ d.w = Inner.w /\ d.pc = "tell" /\ d.path = path
  BY <1>1, <1>2, <1>5 DEF CallRec
<1> HIDE DEF d
<1>8. calls' \in Seq(CallRec) /\ HasLast(calls', d, Outer)
  BY <1>1, <1>2, <1>7, AppendedSeq
<1>9. CallOK(wnd, d) /\ RestOf(wnd, d, told')
  BY <1>1, <1>4, <1>5, <1>7 DEF CallOK, RestOf
<1>10. WalkAt(wnd, Sought, calls', Len(calls'))
  <2>1. calls'[Len(calls')] = d
    BY <1>2, <1>8 DEF HasLast
  <2> QED
    BY <1>1, <1>2, <1>7, <2>1 DEF WalkAt
<1>11. CallsIn(wnd, Sought, calls', told')
  BY <1>1, <1>2, <1>3, <1>7, <1>8, <1>9, <1>10, CallGoesOn
<1>12. told' \subseteq Win
  BY <1>1, <1>3, <1>6
<1> QED
  BY <1>1, <1>11, <1>12, CallsStep

(* The windows and their links change, and the calls under way stay good.    *)
LEMMA ChangedKeeps ==
    ASSUME Whole, wnd' \in Trees, Everyone(wnd'), Kin(wnd'),
           {active', focus', capture'} \subseteq Live(wnd') \cup {None},
           told' \subseteq Win, overtaken' \subseteq Win, CallsIn(wnd', Sought', calls', told')
    PROVE  Whole'
<1>1. {active', focus', capture'} \subseteq Handle
  <2>1. Live(wnd') \subseteq Win
    BY TreeFacts
  <2> QED
    BY <2>1 DEF Handle
<1>2. calls' \in Seq(CallRec)
  BY DEF CallsIn
<1>3. WindowTypeOK'
  BY <1>1, <1>2 DEF WindowTypeOK, Trees, CallRec
<1>4. InputIsLive'
  BY DEF InputIsLive
<1> QED
  BY <1>3, <1>4 DEF Whole

LEMMA StartKeeps ==
    ASSUME Whole, StartTelling
    PROVE  Whole' /\ FreesTold
<1> DEFINE w == Inner.w
           d == [Inner EXCEPT !.pc = "tell", !.cur = None, !.path = <<Inner.w>>]
<1>1. /\ ~Idle /\ Inner.pc = "owned" /\ OwnedFrom(wnd, Inner.cur, w) = None
      /\ calls' = Append(Outer, d) /\ told' = told \cup {w} /\ overtaken' = overtaken \cup Overtaking(active')
      /\ \/ UNCHANGED <<wnd, active, focus, capture>>
         \/ \E u \in SetFocus(Now, GetParent(wnd, w)) : Becomes(u)
  BY DEF StartTelling
<1>2. /\ Outer \in Seq(CallRec) /\ Inner \in CallRec /\ HasLast(calls, Inner, Outer)
      /\ CallOK(wnd, Inner) /\ w \in Win /\ Inner.cur \in Handle
      /\ WalkAt(wnd, Sought, calls, Len(calls)) /\ Inner = calls[Len(calls)]
      /\ Len(calls) = Len(Outer) + 1 /\ Len(Outer) \in Nat
      /\ \A i \in 1..Len(Outer) : i \in 1..Len(calls) /\ Outer[i] = calls[i] /\ i < Len(calls)
  BY <1>1, InnerFacts
<1>3. /\ CallsIn(wnd, Sought, calls, told) /\ told \subseteq Win
      /\ wnd \in Trees /\ Kin(wnd) /\ Everyone(wnd) /\ Now \in States
      /\ Now.wnd = wnd /\ Now.active = active /\ Now.focus = focus /\ Now.capture = capture
      /\ {active, focus, capture} \subseteq Live(wnd) \cup {None}
      /\ overtaken \subseteq Win /\ Sought \subseteq Live(wnd)
  BY WholeFacts
<1>4. w \in Live(wnd) /\ Inner.path = << >> /\ (Inner.cur \in Live(wnd) => Inner.cur \in TopLevel(wnd))
  BY <1>1, <1>2 DEF CallOK
<1>5. \A y \in Sought : wnd[y].hWndOwner # w
  <2>1. \A y : ~LaterCall(calls, Len(calls), y)
    BY <1>2 DEF LaterCall
  <2>2. \A y \in Sought : wnd[y].hWndOwner = w => AheadOf(wnd, Inner.cur, y)
    BY <1>1, <1>2, <2>1 DEF WalkAt
  <2> QED
    BY <1>1, <1>2, <1>3, <1>4, <2>2, OwnedWalk
<1>6. d \in CallRec /\ d.w = w /\ d.pc = "tell" /\ d.path = <<w>>
  <2>1. <<w>> \in Seq(Win)
    BY <1>2
  <2> QED
    BY <1>2, <2>1 DEF CallRec, Handle
<1> HIDE DEF w, d
<1>7. calls' \in Seq(CallRec) /\ HasLast(calls', d, Outer)
  BY <1>1, <1>2, <1>6, AppendedSeq
<1>8. /\ Len(calls') = Len(calls) /\ calls'[Len(calls')] = d
      /\ \A i \in 1..Len(Outer) : calls'[i] = calls[i]
      /\ \A i \in 1..Len(calls) : i \in 1..Len(Outer) \/ i = Len(calls)
  BY <1>2, <1>7 DEF HasLast
<1>9. CallsIn(wnd, Sought, calls', told')
  <2>1. CallOK(wnd, d)
    <3>1. PathOK(wnd, w, <<w>>)
      BY DEF PathOK
    <3> QED
      BY <1>4, <1>6, <3>1 DEF CallOK
  <2>2. WalkAt(wnd, Sought, calls', Len(calls'))
    BY <1>5, <1>6, <1>8 DEF WalkAt
  <2>3. RestOf(wnd, d, told')
    <3>1. Last(<<w>>) = w
      BY DEF Last
    <3> QED
      BY <1>1, <1>6, <3>1 DEF RestOf, ToCome
  <2>4. d.w = Inner.w
    BY <1>6 DEF w
  <2> QED
    BY <1>1, <1>2, <1>3, <1>6, <1>7, <2>1, <2>2, <2>3, <2>4, CallGoesOn
<1>10. told' \subseteq Win /\ overtaken' \subseteq Win
  <2>1. Overtaking(active') \subseteq Live(wnd) /\ Live(wnd) \subseteq Win
    BY <1>3, TreeFacts DEF Overtaking
  <2> QED
    BY <1>1, <1>2, <1>3, <2>1
<1>11. CASE UNCHANGED <<wnd, active, focus, capture>>
  <2>1. Sought' \subseteq Sought
    BY <1>1, <1>11 DEF Sought
  <2>2. CallsIn(wnd', Sought', calls', told')
    BY <1>9, <1>11, <2>1, CallsFewer
  <2> QED
    BY <1>3, <1>10, <1>11, <2>2, ChangedKeeps DEF FreesTold
<1>12. ASSUME NEW u \in SetFocus(Now, GetParent(wnd, w)), Becomes(u)
       PROVE  Whole' /\ FreesTold
  <2>1. GetParent(wnd, w) \in Live(wnd) \cup {None}
    <3>1. /\ IsChildStyle(wnd, w) => wnd[w].hWndParent \in Live(wnd)
          /\ ~IsChildStyle(wnd, w) => wnd[w].hWndOwner \in TopLevel(wnd) \cup {None}
      BY <1>3, <1>4, KinFacts
    <3>2. TopLevel(wnd) \subseteq Live(wnd)
      BY <1>3, TreeFacts
    <3> QED
      BY <3>1, <3>2 DEF GetParent, IsChildStyle
  <2>2. PICK f \in Live(wnd) \cup {None} : \E m : Shifted(Now, Live(wnd), m) /\ u = [m EXCEPT !.focus = f]
    BY <1>3, <1>12, <2>1, FocusFacts
  <2>3. PICK m : Shifted(Now, Live(wnd), m) /\ u = [m EXCEPT !.focus = f]
    BY <2>2
  <2>4. wnd' = m.wnd /\ active' = m.active /\ focus' = f /\ capture' = m.capture
    BY <1>12, <2>3 DEF Becomes, Shifted, States
  <2>5. /\ Restacked(wnd, Live(wnd), wnd') /\ capture' = capture
        /\ active' \in {active, None} \cup TopLevel(wnd)
        /\ \A x, y : Above(wnd, x, y) /\ (y = active' => y = active) => Above(wnd', x, y)
    BY <1>3, <2>3, <2>4 DEF Shifted
  <2>6. /\ wnd' \in Trees /\ Everyone(wnd') /\ Kin(wnd') /\ Live(wnd') = Live(wnd) /\ FreedOf(wnd, wnd', {})
    BY <1>3, <2>5, RestackedKeeps
  <2>7. None \notin Live(wnd) /\ TopLevel(wnd) \subseteq Live(wnd)
    BY <1>3, TreeFacts
  <2>8. {active', focus', capture'} \subseteq Live(wnd') \cup {None}
    BY <1>3, <2>4, <2>5, <2>6, <2>7
  <2>9. Whole'
    <3> DEFINE Up == {active'} \ {active, None}
    <3>1. Up \subseteq TopLevel(wnd)
      BY <2>5
    <3>2. \A x \in Live(wnd'), y \in Live(wnd') \ Up : Above(wnd, x, y) => Above(wnd', x, y)
      BY <2>5, <2>6, <2>7
    <3>3. ASSUME NEW i \in 1..Len(calls'), NEW a \in Up \cap Sought', calls'[i].pc = "owned", wnd[a].hWndOwner = calls'[i].w
          PROVE  LaterCall(calls', i, a)
      <4>1. a \in TopLevel(wnd) \ {active} /\ a \notin Overtaking(a)
        BY <1>1, <3>1, <3>3 DEF Sought
      <4>2. i \in 1..Len(calls) /\ calls'[i] = calls[i]
        BY <1>6, <1>8, <3>3
      <4>3. PICK j \in 1..Len(calls) : i < j /\ calls[j].w = a
        BY <3>3, <4>1, <4>2, NotOvertaking
      <4>4. calls'[j].w = a
        BY <1>2, <1>6, <1>8, <4>3 DEF w
      <4> QED
        BY <1>8, <4>3, <4>4 DEF LaterCall
    <3> HIDE DEF Up
    <3>4. Sought' \subseteq Live(wnd') /\ CallsIn(wnd, Sought', calls', told')
      <4>1. Sought' \subseteq Live(wnd') /\ Sought' \subseteq Sought
        BY <1>1, <2>6 DEF Sought
      <4> QED
        BY <1>9, <4>1, CallsFewer
    <3>5. CallsIn(wnd', Sought', calls', told')
      <4> DEFINE X == Sought'
                 v == wnd'
                 T == {}
      <4>1. wnd \in Trees /\ Kin(wnd) /\ Everyone(wnd) /\ FreedOf(wnd, v, T) /\ X \subseteq Live(v)
        BY <1>3, <2>6, <3>4
      <4>2. CallsIn(wnd, X, calls', told') /\ told' \ T \subseteq told'
        BY <3>4
      <4>3. \A i \in 1..Len(calls') : calls'[i].pc # "notify" => T \cap Held(calls'[i]) = {}
        OBVIOUS
      <4>4. \A x \in Live(v), y \in Live(v) \ Up : Above(wnd, x, y) => Above(v, x, y)
        BY <3>2
      <4>5. \A i \in 1..Len(calls'), a \in Up \cap X :
               calls'[i].pc = "owned" /\ wnd[a].hWndOwner = calls'[i].w => LaterCall(calls', i, a)
        BY <3>3
      <4> HIDE DEF X, v, T
      <4>6. CallsIn(v, X, calls', told')
        BY <3>1, <4>1, <4>2, <4>3, <4>4, <4>5, CallsStay
      <4> QED
        BY <4>6 DEF X, v
    <3> QED
      BY <1>10, <2>6, <2>8, <3>5, ChangedKeeps
  <2> QED
    BY <2>6, <2>9 DEF FreesTold
<1> QED
  BY <1>1, <1>11, <1>12

LEMMA FreeKeeps ==
    ASSUME Whole, Free
    PROVE  (Whole' \/ Bereft') /\ FreesTold
<1> DEFINE w == Inner.w
           r == RemoveFromList(wnd, w)
           s == [Now EXCEPT !.wnd = r]
           T == Subtree(wnd, w)
           n == Len(calls)
<1>1. /\ ~Idle /\ Inner.pc = "tell" /\ NextToTell(wnd, Inner.path) = << >>
      /\ told' = told \ T /\ calls' = Outer /\ overtaken' = (overtaken \cup Overtaking(active')) \ T
  BY DEF Free
<1>2. PICK u \in FreeWindow(s, w) : Becomes(u)
  BY DEF Free
<1>3. /\ Outer \in Seq(CallRec) /\ HasLast(calls, Inner, Outer)
      /\ CallOK(wnd, Inner) /\ RestOf(wnd, Inner, told) /\ w \in Win /\ Inner.path \in Seq(Win)
      /\ WalkAt(wnd, Sought, calls, n) /\ Inner = calls[n] /\ n \in 1..n
      /\ \A i \in 1..Len(Outer) : i \in 1..n /\ Outer[i] = calls[i] /\ i < n
      /\ \A i \in 1..n : i \in 1..Len(Outer) \/ i = n
  BY <1>1, InnerFacts
<1>4. /\ CallsIn(wnd, Sought, calls, told) /\ told \subseteq Win
      /\ wnd \in Trees /\ Kin(wnd) /\ Everyone(wnd) /\ Now \in States
      /\ Now.active = active /\ Now.focus = focus /\ Now.capture = capture
      /\ {active, focus, capture} \subseteq Live(wnd) \cup {None}
      /\ overtaken \subseteq Win /\ Sought \subseteq Live(wnd)
  BY WholeFacts
<1>5. w \in Live(wnd) /\ (\A y \in Sought : wnd[y].hWndOwner # w) /\ T \subseteq told
  <2>1. w \in Live(wnd) /\ PathOK(wnd, w, Inner.path)
    BY <1>1, <1>3 DEF CallOK
  <2>2. \A y \in Sought : wnd[y].hWndOwner # w
    BY <1>1, <1>3 DEF WalkAt
  <2>3. \A x \in T : x \in told \/ ToCome(wnd, Inner.path, x)
    BY <1>1, <1>3 DEF RestOf
  <2>4. T \subseteq told
    BY <1>1, <1>3, <1>4, <2>1, <2>3, TellOn
  <2> QED
    BY <2>1, <2>2, <2>4
<1>6. w \in T
  BY <1>3, <1>4, <1>5, SubtreeSteps
<1> HIDE DEF w
<1>7. /\ r \in Trees /\ TreeKept(wnd, r)
      /\ HasLists(r, Live(wnd) \ {w}) /\ HasRings(r, Live(wnd) \ {w})
      /\ \A x, y : Above(wnd, x, y) /\ x # w /\ y # w => Above(r, x, y)
  BY <1>4, <1>5, RemoveKeepsLists DEF Everyone
<1> HIDE DEF r
<1>8. /\ Kin(r) /\ Live(r) = Live(wnd) /\ TopLevel(r) = TopLevel(wnd) /\ Subtree(r, w) = T
  BY <1>4, <1>7, KeptTree, KinKept
<1>9. OwnsNothing(wnd, w) => OwnsNothing(r, w)
  <2>1. Live(wnd) \subseteq Win
    BY <1>4, TreeFacts
  <2> QED
    BY <1>7, <1>8, <2>1 DEF OwnsNothing, TreeKept
<1>10. s \in States /\ s.wnd = r /\ s.active = active /\ s.focus = focus /\ s.capture = capture
  BY <1>4, <1>7 DEF Now, States
<1> HIDE DEF s, T
<1>11. /\ u \in States /\ SameFields(r, u.wnd, T) /\ Everyone(u.wnd)
       /\ OwnsNothing(r, w) => FreedOf(r, u.wnd, T)
       /\ {u.active, u.focus, u.capture} \subseteq Live(u.wnd) \cup {None}
       /\ u.active \in {active, None} \cup TopLevel(wnd)
       /\ \A x \in Live(u.wnd) : \A y :
             Above(r, x, y) /\ (y = u.active => y = active) => Above(u.wnd, x, y)
  <2>1. /\ s \in States /\ Kin(s.wnd) /\ w \in Live(s.wnd)
        /\ {s.active, s.focus, s.capture} \subseteq Live(s.wnd) \cup {None} /\ u \in FreeWindow(s, w)
    BY <1>2, <1>4, <1>5, <1>8, <1>10
  <2>2. HasLists(s.wnd, Live(s.wnd) \ {w}) /\ HasRings(s.wnd, Live(s.wnd) \ {w})
    BY <1>7, <1>8, <1>10
  <2>3. /\ u \in States /\ SameFields(s.wnd, u.wnd, Subtree(s.wnd, w)) /\ Everyone(u.wnd)
        /\ OwnsNothing(s.wnd, w) => FreedOf(s.wnd, u.wnd, Subtree(s.wnd, w))
        /\ {u.active, u.focus, u.capture} \subseteq Live(u.wnd) \cup {None}
        /\ u.active \in {s.active, None} \cup TopLevel(s.wnd)
        /\ \A x \in Live(u.wnd) : \A y :
              Above(s.wnd, x, y) /\ (y = u.active => y = s.active) => Above(u.wnd, x, y)
    BY <2>1, <2>2, FreeFacts
  <2> QED
    BY <1>8, <1>10, <2>3
<1>12. wnd' = u.wnd /\ active' = u.active /\ focus' = u.focus /\ capture' = u.capture
  BY <1>2 DEF Becomes
<1>13. /\ SameFields(wnd, wnd', T) /\ wnd' \in Trees /\ Everyone(wnd')
       /\ OwnsNothing(wnd, w) => FreedOf(wnd, wnd', T)
       /\ Live(wnd') = Live(wnd) \ T
       /\ {active', focus', capture'} \subseteq Live(wnd') \cup {None}
       /\ active' \in {active, None} \cup TopLevel(wnd)
       /\ \A x \in Live(wnd') : \A y : Above(r, x, y) /\ (y = active' => y = active) => Above(wnd', x, y)
  <2>1. SameFields(wnd, wnd', T)
    BY <1>4, <1>7, <1>11, <1>12, SameFieldsKept
  <2>2. OwnsNothing(wnd, w) => FreedOf(wnd, wnd', T)
    BY <1>4, <1>7, <1>9, <1>11, <1>12, FreedOfKept
  <2>3. wnd' \in Trees
    BY <1>11, <1>12 DEF States
  <2> QED
    BY <1>11, <1>12, <2>1, <2>2, <2>3 DEF SameFields
<1>14. FreesTold
  BY <1>5, <1>13 DEF FreesTold
<1>15. told' \subseteq Win /\ overtaken' \subseteq Win
  <2>1. Overtaking(active') \subseteq Live(wnd) /\ Live(wnd) \subseteq Win
    BY <1>4, TreeFacts DEF Overtaking
  <2> QED
    BY <1>1, <1>4, <2>1
<1>16. CASE OwnsNothing(wnd, w)
  <2> DEFINE Up == {active'} \ {active, None}
  <2>1. w \notin Live(wnd') /\ None \notin Live(wnd') /\ TopLevel(wnd) \subseteq Live(wnd)
    BY <1>4, <1>6, <1>13, TreeFacts
  <2>2. Sought' \subseteq Live(wnd') /\ CallsIn(wnd, Sought', Outer, told)
    <3>1. Sought' \subseteq Live(wnd') /\ Sought' \subseteq Sought
      BY <1>1, <1>13 DEF Sought
    <3>2. CallsIn(wnd, Sought', calls, told)
      BY <1>4, <3>1, CallsFewer
    <3> QED
      BY <1>3, <2>1, <3>1, <3>2, CallReturns DEF w
  <2>3. Up \subseteq TopLevel(wnd)
    BY <1>13
  <2>4. \A x \in Live(wnd'), y \in Live(wnd') \ Up : Above(wnd, x, y) => Above(wnd', x, y)
    BY <1>7, <1>13, <2>1
  <2>5. ASSUME NEW i \in 1..Len(Outer), Outer[i].pc # "notify" PROVE T \cap Held(Outer[i]) = {}
    <3>1. Doomed(wnd, w) \cap Held(calls[i]) = {}
      <4>1. Apart(wnd, calls) /\ i \in 1..n /\ i < n /\ calls[i].pc # "notify" /\ calls[n].w = w
        BY <1>3, <1>4, <2>5 DEF CallsIn, w
      <4> QED
        BY <1>3, <4>1 DEF Apart
    <3>2. T \subseteq Doomed(wnd, w)
      BY <1>4, <1>5, SubtreeIsDoomed DEF T
    <3> QED
      BY <1>3, <3>1, <3>2
  <2>6. ASSUME NEW i \in 1..Len(Outer), NEW a \in Up \cap Sought', Outer[i].pc = "owned", wnd[a].hWndOwner = Outer[i].w
        PROVE  LaterCall(Outer, i, a)
    <3>1. a \in TopLevel(wnd) \ {active} /\ a \notin Overtaking(a) /\ a \in Live(wnd')
      BY <1>1, <1>13, <2>3, <2>6 DEF Sought
    <3>2. PICK j \in 1..n : i < j /\ calls[j].w = a
      BY <1>3, <2>6, <3>1, NotOvertaking
    <3>3. j \in 1..Len(Outer) /\ Outer[j] = calls[j]
      BY <1>3, <2>1, <3>1, <3>2 DEF w
    <3> QED
      BY <3>2, <3>3 DEF LaterCall
  <2> HIDE DEF Up
  <2>7. CallsIn(wnd', Sought', Outer, told')
    BY <1>1, <1>4, <1>13, <1>16, <2>2, <2>3, <2>4, <2>5, <2>6, CallsStay DEF T
  <2>8. Kin(wnd')
    BY <1>13, <1>16 DEF FreedOf
  <2> QED
    BY <1>1, <1>13, <1>14, <1>15, <2>7, <2>8, ChangedKeeps
<1>17. CASE ~OwnsNothing(wnd, w)
  <2>1. /\ w \in Win /\ None \notin Win /\ Live(wnd') \subseteq Live(wnd) /\ T \subseteq Live(wnd)
        /\ \A x \in TopLevel(wnd) : x \in T => x = w
    BY <1>3, <1>4, <1>5, <1>13, SubtreeSteps, TreeFacts DEF T, w
  <2>2. \A x \in Live(wnd') : wnd'[x].hWndOwner = wnd[x].hWndOwner
    BY <1>13 DEF SameFields
  <2>3. ASSUME NEW x \in Live(wnd), wnd[x].hWndOwner = w PROVE x \in Live(wnd') /\ w \notin Live(wnd')
    <3>1. x \in TopLevel(wnd) /\ x # w
      BY <1>4, <2>1, <2>3, KinFacts
    <3> QED
      BY <1>6, <1>13, <2>1, <3>1
  <2>4. ~OwnersOutlive'
    <3>1. PICK x \in Live(wnd) : wnd[x].hWndOwner = w
      BY <1>17 DEF OwnsNothing
    <3>2. x \in Live(wnd') /\ wnd'[x].hWndOwner \notin Live(wnd') \cup {None}
      BY <2>1, <2>2, <2>3, <3>1
    <3> QED
      BY <3>2 DEF OwnersOutlive
  <2>5. ASSUME NEW x \in Live(wnd') PROVE wnd'[x].hWndOwner \in Live(wnd') \cup {None} \/ x \in overtaken'
    <3>1. x \in Live(wnd) /\ x \notin T /\ wnd'[x].hWndOwner = wnd[x].hWndOwner
      BY <1>13, <2>1, <2>2, <2>5
    <3>2. wnd[x].hWndOwner # None => wnd[x].hWndOwner \in TopLevel(wnd)
      BY <1>4, <3>1, KinFacts
    <3>3. wnd[x].hWndOwner = w => x \in overtaken'
      BY <1>1, <1>5, <3>1 DEF Sought
    <3>4. TopLevel(wnd) \subseteq Live(wnd)
      BY <1>4, TreeFacts
    <3> QED
      BY <1>13, <2>1, <3>1, <3>2, <3>3, <3>4
  <2>6. OrphansOvertaken'
    BY <2>5 DEF OrphansOvertaken
  <2>7. WindowTypeOK'
    <3>1. {active', focus', capture'} \subseteq Handle
      BY <1>11, <1>12 DEF States
    <3>2. calls' \in Seq(CallRec)
      BY <1>1, <1>3
    <3> QED
      BY <1>13, <1>15, <3>1, <3>2 DEF WindowTypeOK, Trees, CallRec
  <2>8. InputIsLive'
    BY <1>13 DEF InputIsLive
  <2> QED
    BY <1>13, <1>14, <2>4, <2>6, <2>7, <2>8 DEF Bereft
<1> QED
  BY <1>16, <1>17

LEMMA StepKeeps ==
    ASSUME Whole, WindowNext
    PROVE  (Whole' \/ Bereft') /\ FreesTold
<1>1. ASSUME NEW w \in Win, Create(w) PROVE Whole' /\ FreesTold
  BY <1>1, CreateKeeps
<1>2. ASSUME NEW w \in Win, Restack(w) PROVE Whole' /\ FreesTold
  BY <1>2, RestackKeeps
<1>3. ASSUME NEW w \in Win, Activate(w) PROVE Whole' /\ FreesTold
  BY <1>3, ActivateKeeps
<1>4. ASSUME NEW w \in Win, Focus(w) PROVE Whole' /\ FreesTold
  BY <1>4, FocusKeeps
<1>5. ASSUME NEW w \in Win, DestroyWindow(w) PROVE Whole' /\ FreesTold
  BY <1>5, DestroyKeeps
<1>6. ASSUME NEW w \in Win, NEW p \in Win \cup {None}, SetParent(w, p) PROVE Whole' /\ FreesTold
  BY <1>6, SetParentKeeps
<1>7. ASSUME NEW w \in Catchers \cup {None}, SetCapture(w) PROVE Whole' /\ FreesTold
  BY <1>7, CaptureKeeps
<1>8. CASE Notified
  BY <1>8, NotifiedKeeps
<1>9. CASE DestroyOwned
  BY <1>9, OwnedKeeps
<1>10. CASE StartTelling
  BY <1>10, StartKeeps
<1>11. CASE Tell
  BY <1>11, TellKeeps
<1>12. CASE Free
  BY <1>12, FreeKeeps
<1> QED
  BY <1>1, <1>2, <1>3, <1>4, <1>5, <1>6, <1>7, <1>8, <1>9, <1>10, <1>11, <1>12
     DEF WindowNext, Destroying

LEMMA WindowInductive ==
    ASSUME IInv, [WindowNext]_wtvars
    PROVE  IInv'
<1>1. CASE UNCHANGED wtvars
  <2>1. wnd' = wnd /\ active' = active /\ focus' = focus /\ capture' = capture
        /\ calls' = calls /\ told' = told /\ overtaken' = overtaken
    BY <1>1 DEF wtvars
  <2>2. WindowTypeOK => WindowTypeOK'
    BY <2>1 DEF WindowTypeOK
  <2>3. InputIsLive => InputIsLive'
    BY <2>1 DEF InputIsLive
  <2>4. Whole => Whole'
    BY <2>1, <2>2, <2>3 DEF Whole, Sought
  <2>5. Bereft => Bereft'
    BY <2>1, <2>2, <2>3 DEF Bereft, OrphansOvertaken, OwnersOutlive
  <2> QED
    BY <2>4, <2>5 DEF IInv
<1>2. CASE WindowNext
  <2>1. Whole
    BY <1>2 DEF IInv, Bereft, WindowNext
  <2> QED
    BY <1>2, <2>1, StepKeeps DEF IInv
<1> QED
  BY <1>1, <1>2

LEMMA WindowInvariant == WindowSpec => []IInv
<1>1. WindowInit => IInv
  BY InitWhole DEF IInv
<1>2. IInv /\ [WindowNext]_wtvars => IInv'
  BY WindowInductive
<1> QED
  BY <1>1, <1>2, PTL DEF WindowSpec

-----------------------------------------------------------------------------
(* The theorems. *)

(* The windows, the handles and the calls under way are of their types.      *)
THEOREM WindowTyped == WindowSpec => []WindowTypeOK
<1>1. IInv => WindowTypeOK
  BY DEF IInv, Whole, Bereft
<1> QED
  BY <1>1, WindowInvariant, PTL

(* LinksExact: CreateWindowEx, SetParent, SetWindowPos, activation and the   *)
(* steps of nested calls of DestroyWindow leave every window once in the    *)
(* list of its parent, every list without others, and the groups as rings;   *)
(* so does the step that frees a window which still owns another.           *)
THEOREM LinksAreExact == WindowSpec => []LinksExact
<1>1. IInv => ListsExact /\ GroupsAreRings
  <2> SUFFICES ASSUME IInv PROVE ListsExact /\ GroupsAreRings
    OBVIOUS
  <2>1. HasLists(wnd, Live(wnd)) /\ HasRings(wnd, Live(wnd)) /\ Owners(wnd) = Live(wnd) \cup {Root}
    BY DEF IInv, Whole, Bereft, Everyone, Owners
  <2>2. ListsExact
    <3>1. \A p \in Owners(wnd) : /\ IsInjective(Children(wnd, p))
                                 /\ ToSet(Children(wnd, p)) = {w \in Live(wnd) : ListOwner(wnd, w) = p}
      BY <2>1 DEF HasLists, ListedAll, Listed
    <3> QED
      BY <2>1, <3>1 DEF HasLists, ListsExact
  <2>3. GroupsAreRings
    BY <2>1 DEF HasRings, GroupsAreRings
  <2> QED
    BY <2>2, <2>3
<1>2. IInv => LinksExact
  BY <1>1 DEF LinksExact
<1> QED
  BY <1>2, WindowInvariant, PTL

(* NothingDangles: the windows that have the activation, the focus and the   *)
(* capture exist, between all steps of a destruction and of those that it   *)
(* starts; and so does every owner, but that of a window raised above the    *)
(* place where its owner's walk over what it owns goes on.                  *)
THEOREM HandlesAreLive == WindowSpec => []NothingDangles
<1>1. Whole => InputIsLive /\ OrphansOvertaken
  <2> SUFFICES ASSUME Whole PROVE InputIsLive /\ OrphansOvertaken
    OBVIOUS
  <2>1. wnd \in Trees /\ Kin(wnd)
    BY WholeFacts
  <2>2. TopLevel(wnd) \subseteq Live(wnd)
    BY <2>1, TreeFacts
  <2>3. \A w \in Live(wnd) : wnd[w].hWndOwner # None => wnd[w].hWndOwner \in TopLevel(wnd)
    BY <2>1, KinFacts
  <2> QED
    BY <2>2, <2>3 DEF Whole, OrphansOvertaken
<1>2. IInv => NothingDangles
  BY <1>1 DEF IInv, Bereft, NothingDangles
<1> QED
  BY <1>2, WindowInvariant, PTL

(* ToldBeforeFreed: no step frees a window that was not sent WM_DESTROY.     *)
THEOREM FreedWereTold == WindowSpec => ToldBeforeFreed
<1>1. ASSUME IInv, [WindowNext]_wtvars
      PROVE  [\A w \in Win : IsWindow(wnd, w) /\ ~IsWindow(wnd', w) => w \in told]_wtvars
  <2>1. CASE WindowNext
    <3>1. Whole
      BY <1>1, <2>1 DEF IInv, Bereft, WindowNext
    <3>2. FreesTold
      BY <2>1, <3>1, StepKeeps
    <3> QED
      BY <3>2 DEF FreesTold, Live
  <2> QED
    BY <1>1, <2>1
<1> QED
  BY <1>1, WindowInvariant, PTL DEF WindowSpec, ToldBeforeFreed
=============================================================================
