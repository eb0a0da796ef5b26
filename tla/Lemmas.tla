------------------------------ MODULE Lemmas -------------------------------
(***************************************************************************)
(* Facts about natural numbers, sequences and linked lists that the proofs *)
(* about several modules need.  Those about numbers are stated with sets   *)
(* where a textbook has predicates: to prove P(n) for every n, show that   *)
(* {n \in Nat : P(n)} is all of Nat.                                       *)
(***************************************************************************)
EXTENDS Integers, Sequences, Links, WellFoundedInduction, TLAPS

(* A set of natural numbers that is not empty has a least element. *)
LEMMA LeastNumber ==
    ASSUME NEW S \in SUBSET Nat, S # {}
    PROVE  \E x \in S : \A y \in S : x <= y
<1>1. PICK x \in S : \A y \in S : <<y, x>> \notin OpToRel(<, Nat)
  BY NatLessThanWellFounded, WFMin
<1>2. \A y \in S : ~(y < x)
  BY <1>1 DEF OpToRel
<1> QED
  BY <1>2

(* Induction: a set with 0, and n + 1 for each of its n, has all numbers.   *)
LEMMA SetInduction ==
    ASSUME NEW S, 0 \in S, \A n \in Nat : n \in S => n + 1 \in S
    PROVE  Nat \subseteq S
<1> SUFFICES ASSUME Nat \ S # {} PROVE FALSE
  OBVIOUS
<1>1. PICK x \in Nat \ S : \A y \in Nat \ S : x <= y
  BY LeastNumber
<1>2. x - 1 \in Nat /\ x - 1 \in S
  BY <1>1
<1> QED
  BY <1>1, <1>2

(* Min and Max of FiniteSetsExt. *)
LEMMA MinOfNats ==
    ASSUME NEW S \in SUBSET Nat, S # {}
    PROVE  Min(S) \in S /\ \A y \in S : Min(S) <= y
BY LeastNumber DEF Min

LEMMA MaxOfNats ==
    ASSUME NEW S \in SUBSET Nat, S # {}, NEW b \in Nat, \A y \in S : y <= b
    PROVE  Max(S) \in S /\ \A y \in S : y <= Max(S)
<1> DEFINE B == {n \in Nat : \A y \in S : y <= n}
<1>1. PICK m \in B : \A n \in B : m <= n
  BY LeastNumber
<1>2. m \in S
  <2> SUFFICES ASSUME m \notin S PROVE FALSE
    OBVIOUS
  <2>1. \A y \in S : y < m
    BY <1>1
  <2>2. PICK y \in S : TRUE
    OBVIOUS
  <2>3. y < m /\ m \in Nat /\ y \in Nat
    BY <1>1, <2>1
  <2>4. m > 0
    BY <2>3
  <2>5. m - 1 \in B
    BY <1>1, <2>1, <2>4
  <2> QED
    BY <1>1, <2>5
<1> QED
  BY <1>1, <1>2 DEF Max

LEMMA MinOfTwo ==
    ASSUME NEW a \in Int, NEW b \in Int
    PROVE  Min({a, b}) = IF a <= b THEN a ELSE b
BY DEF Min

(* Division rounds down. *)
LEMMA RoundedDown ==
    ASSUME NEW a \in Nat, NEW b \in Nat \ {0}
    PROVE  (a \div b) * b \in 0..a
OBVIOUS

-----------------------------------------------------------------------------
LEMMA FcnIsSeq ==
    ASSUME NEW S, NEW k \in Nat, NEW h \in [1..k -> S]
    PROVE  h \in Seq(S) /\ Len(h) = k
OBVIOUS

LEMMA SameSeq ==
    ASSUME NEW S, NEW a \in Seq(S), NEW b \in Seq(S), Len(a) = Len(b),
           \A i \in 1..Len(a) : a[i] = b[i]
    PROVE  a = b
OBVIOUS

(* v is q with x before it, and with x after it.                            *)
HasFirst(v, x, q) ==
    Len(v) = Len(q) + 1 /\ \A i \in 1..(Len(q) + 1) : v[i] = IF i = 1 THEN x ELSE q[i - 1]
HasLast(v, x, q) ==
    Len(v) = Len(q) + 1 /\ \A i \in 1..(Len(q) + 1) : v[i] = IF i = Len(q) + 1 THEN x ELSE q[i]

LEMMA PushedSeq ==
    ASSUME NEW S, NEW q \in Seq(S), NEW x \in S
    PROVE  <<x>> \o q \in Seq(S) /\ HasFirst(<<x>> \o q, x, q)
<1>1. <<x>> \o q \in Seq(S) /\ Len(<<x>> \o q) = Len(q) + 1
  OBVIOUS
<1>2. \A i \in 1..(Len(q) + 1) : (<<x>> \o q)[i] = IF i = 1 THEN x ELSE q[i - 1]
  OBVIOUS
<1> QED
  BY <1>1, <1>2 DEF HasFirst

LEMMA AppendedSeq ==
    ASSUME NEW S, NEW q \in Seq(S), NEW x \in S
    PROVE  Append(q, x) \in Seq(S) /\ HasLast(Append(q, x), x, q)
<1>1. Append(q, x) \in Seq(S) /\ Len(Append(q, x)) = Len(q) + 1
  OBVIOUS
<1>2. \A i \in 1..(Len(q) + 1) : Append(q, x)[i] = IF i = Len(q) + 1 THEN x ELSE q[i]
  OBVIOUS
<1> QED
  BY <1>1, <1>2 DEF HasLast

LEMMA FirstUnique ==
    ASSUME NEW S, NEW a \in Seq(S), NEW b \in Seq(S), NEW q \in Seq(S), NEW x,
           HasFirst(a, x, q), HasFirst(b, x, q)
    PROVE  a = b
<1>1. Len(a) = Len(b) /\ \A i \in 1..Len(a) : a[i] = b[i]
  BY DEF HasFirst
<1> QED
  BY <1>1, SameSeq

LEMMA LastUnique ==
    ASSUME NEW S, NEW a \in Seq(S), NEW b \in Seq(S), NEW q \in Seq(S), NEW x,
           HasLast(a, x, q), HasLast(b, x, q)
    PROVE  a = b
<1>1. Len(a) = Len(b) /\ \A i \in 1..Len(a) : a[i] = b[i]
  BY DEF HasLast
<1> QED
  BY <1>1, SameSeq

LEMMA FrontOfSeq ==
    ASSUME NEW S, NEW q \in Seq(S), Len(q) \in Nat \ {0}
    PROVE  /\ SubSeq(q, 1, Len(q) - 1) \in Seq(S)
           /\ Len(SubSeq(q, 1, Len(q) - 1)) = Len(q) - 1
           /\ \A i \in 1..(Len(q) - 1) : SubSeq(q, 1, Len(q) - 1)[i] = q[i] /\ i \in 1..Len(q)
<1>1. Len(q) - 1 \in Nat /\ \A i \in 1..(Len(q) - 1) : i \in 1..Len(q)
  OBVIOUS
<1>2. PICK n \in Nat : n = Len(q) - 1
  BY <1>1
<1>3. SubSeq(q, 1, n) = [i \in 1..n |-> q[i]]
  BY <1>2
<1>4. [i \in 1..n |-> q[i]] \in [1..n -> S]
  BY <1>1, <1>2
<1>5. SubSeq(q, 1, n) \in Seq(S) /\ Len(SubSeq(q, 1, n)) = n
  BY <1>3, <1>4, FcnIsSeq
<1> QED
  BY <1>1, <1>2, <1>3, <1>5

-----------------------------------------------------------------------------
(* The recursive function After exists. *)
LEMMA AfterValues ==
    ASSUME NEW next, NEW null, NEW bound \in Nat, NEW p
    PROVE  \A n \in 0..bound :
              After(next, null, bound, p)[n] =
                 IF n = 0 THEN p ELSE Following(next, null, After(next, null, bound, p)[n - 1])
<1> DEFINE at(f, n) == IF n = 0 THEN p ELSE Following(next, null, f[n - 1])
           S == {k \in Nat : \E f : \A n \in 0..k : f[n] = at(f, n)}
<1>1. 0 \in S
  <2> DEFINE f == [n \in {0} |-> p]
  <2>1. \A n \in 0..0 : f[n] = at(f, n)
    OBVIOUS
  <2> HIDE DEF f, at
  <2> QED
    BY <2>1
<1>2. ASSUME NEW k \in Nat, k \in S PROVE k + 1 \in S
  <2>1. PICK f : \A n \in 0..k : f[n] = at(f, n)
    BY <1>2
  <2> DEFINE g == [n \in 0..(k + 1) |-> IF n = k + 1 THEN Following(next, null, f[k]) ELSE f[n]]
  <2>2. ASSUME NEW n \in 0..(k + 1) PROVE g[n] = at(g, n)
    <3>1. CASE n = k + 1
      BY <3>1
    <3>2. CASE n # k + 1
      BY <2>1, <3>2
    <3> QED
      BY <3>1, <3>2
  <2> HIDE DEF g, at
  <2> QED
    BY <2>2
<1> HIDE DEF S
<1>3. bound \in S
  BY <1>1, <1>2, SetInduction
<1>4. PICK f : \A n \in 0..bound : f[n] = at(f, n)
  BY <1>3 DEF S
<1> DEFINE g == [n \in 0..bound |-> f[n]]
<1>5. g = [n \in 0..bound |-> at(g, n)]
  <2>1. \A n \in 0..bound : g[n] = at(g, n)
    BY <1>4
  <2> HIDE DEF at
  <2> QED
    BY <2>1
<1>6. After(next, null, bound, p) = CHOOSE h : h = [n \in 0..bound |-> at(h, n)]
  BY DEF After
<1> HIDE DEF g
<1>7. After(next, null, bound, p) = [n \in 0..bound |-> at(After(next, null, bound, p), n)]
  BY <1>5, <1>6
<1> QED
  BY <1>7

(* A list no longer than the bound is what Chain returns. *)
LEMMA ChainOfLinks ==
    ASSUME NEW S, NEW null, null \notin S, NEW q \in Seq(S), NEW next, NEW p,
           p = IF Len(q) = 0 THEN null ELSE q[1],
           \A i \in 1..Len(q) : next[q[i]] = IF i = Len(q) THEN null ELSE q[i + 1],
           NEW bound \in Nat, Len(q) <= bound
    PROVE  Chain(next, null, bound, p) = q
<1> DEFINE at == After(next, null, bound, p)
           elem(n) == IF n < Len(q) THEN q[n + 1] ELSE null
           T == {n \in Nat : n <= bound => at[n] = elem(n)}
<1>1. q \in Seq(S) /\ Len(q) \in Nat /\ bound \in Nat
  OBVIOUS
<1>2. \A n \in 0..bound : at[n] = IF n = 0 THEN p ELSE Following(next, null, at[n - 1])
  BY AfterValues
<1> HIDE DEF at
<1>3. 0 \in T
  BY <1>1, <1>2
<1>4. ASSUME NEW n \in Nat, n \in T PROVE n + 1 \in T
  <2> SUFFICES ASSUME n + 1 <= bound PROVE at[n + 1] = elem(n + 1)
    OBVIOUS
  <2>1. at[n] = elem(n) /\ at[n + 1] = Following(next, null, at[n])
    BY <1>1, <1>2, <1>4
  <2>2. CASE n < Len(q)
    <3>1. n + 1 \in 1..Len(q) /\ q[n + 1] \in S /\ q[n + 1] # null
      BY <1>1, <2>2
    <3>2. at[n + 1] = next[q[n + 1]]
      BY <2>1, <2>2, <3>1 DEF Following
    <3> QED
      BY <1>1, <2>2, <3>1, <3>2
  <2>3. CASE ~(n < Len(q))
    BY <1>1, <2>1, <2>3 DEF Following
  <2> QED
    BY <2>2, <2>3
<1> HIDE DEF T
<1>5. Nat \subseteq T
  BY <1>3, <1>4, SetInduction
<1>6. \A n \in 0..bound : at[n] = elem(n)
  BY <1>5 DEF T
<1>7. \A n \in 0..bound : at[n] = null <=> n >= Len(q)
  <2>1. \A n \in 0..bound : n < Len(q) => q[n + 1] \in S
    BY <1>1
  <2>2. \A s \in S : s # null
    OBVIOUS
  <2> QED
    BY <1>1, <1>6, <2>1, <2>2
<1> DEFINE ends == {bound} \cup {n \in 0..bound : at[n] = null}
<1>8. Min(ends) = Len(q)
  <2>1. ends \in SUBSET Nat /\ ends # {} /\ Len(q) \in ends
    BY <1>1, <1>7
  <2>2. Min(ends) \in ends /\ Min(ends) <= Len(q)
    BY <2>1, MinOfNats
  <2> HIDE DEF at
  <2>3. Min(ends) >= Len(q)
    BY <1>1, <1>7, <2>2
  <2>4. Min(ends) \in Nat
    BY <2>1, <2>2
  <2> HIDE DEF ends
  <2> QED
    BY <1>1, <2>2, <2>3, <2>4
<1>9. \A i \in 1..Len(q) : at[i - 1] = q[i]
  BY <1>1, <1>6
<1>10. Chain(next, null, bound, p) = [i \in 1..Len(q) |-> at[i - 1]]
  BY <1>8 DEF Chain, at
<1> QED
  BY <1>1, <1>9, <1>10
=============================================================================
