---------------------------- MODULE Paint_proofs ----------------------------
(***************************************************************************)
(* Proofs about Paint, for any tree of windows and any number of events:   *)
(* types, that the search for a window to paint ends, PaintIsDue and       *)
(* WaitIsAnswered.                                                         *)
(***************************************************************************)
EXTENDS Paint, FiniteSetTheorems, Lemmas

Live == {w \in Pane : Exists(w)}

-----------------------------------------------------------------------------
(* The tree of windows. *)

(* No set with w's parent and the parents of its members leaves out one of  *)
(* the windows above w.                                                     *)
LEMMA UpwardLeast ==
    ASSUME NEW w \in Pane, NEW S \in SUBSET Pane, HasParents(S, w)
    PROVE  Upward(w) \subseteq S
BY DEF Upward, UpwardOf

LEMMA UpwardHasParents ==
    ASSUME NEW w \in Pane
    PROVE  Upward(w) \in SUBSET Pane /\ HasParents(Upward(w), w)
<1>1. Upward(w) = {x \in Pane : \A S \in SUBSET Pane : HasParents(S, w) => x \in S}
  BY DEF Upward, UpwardOf
<1>2. ASSUME NEW x \in Upward(w) \cup {w}, hWndParent[x] # Screen PROVE hWndParent[x] \in Upward(w)
  <2>1. x \in Pane /\ hWndParent[x] \in Pane
    BY <1>1, <1>2, PaintAssumption
  <2>2. ASSUME NEW S \in SUBSET Pane, HasParents(S, w) PROVE hWndParent[x] \in S
    <3>1. x \in S \cup {w}
      BY <1>1, <2>2
    <3> QED
      BY <1>2, <2>2, <3>1 DEF HasParents
  <2> QED
    BY <1>1, <2>1, <2>2
<1> QED
  BY <1>1, <1>2 DEF HasParents

(* What is above a window above w is above w. *)
LEMMA UpwardTransitive ==
    ASSUME NEW w \in Pane, NEW x \in Upward(w)
    PROVE  x \in Pane /\ Upward(x) \subseteq Upward(w)
<1>1. Upward(w) \in SUBSET Pane /\ HasParents(Upward(w), w)
  BY UpwardHasParents
<1>2. HasParents(Upward(w), x)
  BY <1>1 DEF HasParents
<1> QED
  BY <1>1, <1>2, UpwardLeast

(* Above a window are its parent and what is above that. *)
LEMMA UpwardOfChild ==
    ASSUME NEW w \in Pane
    PROVE  Upward(w) = IF hWndParent[w] = Screen THEN {}
                       ELSE {hWndParent[w]} \cup Upward(hWndParent[w])
<1>1. CASE hWndParent[w] = Screen
  <2>1. HasParents({}, w)
    BY <1>1 DEF HasParents
  <2> QED
    BY <1>1, <2>1, UpwardLeast
<1>2. CASE hWndParent[w] # Screen
  <2> DEFINE p == hWndParent[w]
             S == {p} \cup Upward(p)
  <2>1. p \in Pane
    BY <1>2, PaintAssumption
  <2>2. Upward(p) \in SUBSET Pane /\ HasParents(Upward(p), p)
    BY <2>1, UpwardHasParents
  <2>3. HasParents(S, w)
    BY <2>2 DEF HasParents
  <2>4. Upward(w) \subseteq S
    BY <2>1, <2>2, <2>3, UpwardLeast
  <2>5. p \in Upward(w)
    BY <1>2, UpwardHasParents DEF HasParents
  <2>6. Upward(p) \subseteq Upward(w)
    BY <2>5, UpwardTransitive
  <2> QED
    BY <1>2, <2>4, <2>5, <2>6
<1> QED
  BY <1>1, <1>2

(* A window above w that is not a top-level one of w's tree has the child   *)
(* through which w is below it.                                             *)
LEMMA WayDown ==
    ASSUME NEW w \in Pane, NEW p \in Upward(w)
    PROVE  \E y \in Pane : hWndParent[y] = p /\ (y = w \/ y \in Upward(w))
<1> DEFINE S == {x \in Upward(w) : \E y \in Pane : hWndParent[y] = x /\ (y = w \/ y \in Upward(w))}
<1>1. Upward(w) \in SUBSET Pane /\ HasParents(Upward(w), w)
  BY UpwardHasParents
<1>2. HasParents(S, w)
  BY <1>1 DEF HasParents
<1>3. Upward(w) \subseteq S
  BY <1>1, <1>2, UpwardLeast
<1> QED
  BY <1>3

-----------------------------------------------------------------------------
(* Lists of siblings. *)

(* A list of windows, each once. *)
IsList(list) == list \in Seq(Pane) /\ IsInjective(list)

LEMMA PlaceInList ==
    ASSUME NEW list, IsList(list), NEW i \in 1..Len(list)
    PROVE  PlaceOf(list, list[i]) = i
BY DEF IsList, PlaceOf, IsInjective

(* Unlinking a window removes it from its list, and no other.               *)
LEMMA UnlinkedIsList ==
    ASSUME NEW list, IsList(list), NEW w \in ToSet(list)
    PROVE  IsList(Unlinked(list, w)) /\ ToSet(Unlinked(list, w)) = ToSet(list) \ {w}
<1> DEFINE n == Len(list) - 1
           new == Unlinked(list, w)
<1>1. PICK k \in 1..Len(list) : list[k] = w
  BY DEF ToSet, IsList
<1>2. PlaceOf(list, w) = k
  BY <1>1, PlaceInList
<1>3. Len(list) \in Nat /\ n \in Nat /\ list \in Seq(Pane) /\ DOMAIN list = 1..Len(list)
  BY <1>1 DEF IsList
<1>4. new = [i \in 1..n |-> IF i < k THEN list[i] ELSE list[i + 1]]
  BY <1>2 DEF Unlinked
<1> HIDE DEF new
<1>5. \A i \in 1..n : (IF i < k THEN list[i] ELSE list[i + 1]) \in Pane
  BY <1>3
<1>6. new \in [1..n -> Pane]
  BY <1>4, <1>5
<1>7. new \in Seq(Pane) /\ Len(new) = n /\ DOMAIN new = 1..n
  BY <1>3, <1>6, FcnIsSeq
<1>8. \A i, j \in 1..Len(list) : list[i] = list[j] => i = j
  BY <1>3 DEF IsList, IsInjective
<1>9. \A i \in 1..n : new[i] = list[IF i < k THEN i ELSE i + 1]
  BY <1>4
<1>10. \A i, j \in 1..n : new[i] = new[j] => i = j
  BY <1>3, <1>8, <1>9
<1>11. IsList(new)
  BY <1>7, <1>10 DEF IsList, IsInjective
<1>12. ASSUME NEW x \in ToSet(new) PROVE x \in ToSet(list) \ {w}
  <2>1. PICK i \in 1..n : new[i] = x
    BY <1>7 DEF ToSet
  <2>2. (IF i < k THEN i ELSE i + 1) \in 1..Len(list) /\ (IF i < k THEN i ELSE i + 1) # k
    BY <1>3
  <2> QED
    BY <1>1, <1>3, <1>8, <1>9, <2>1, <2>2 DEF ToSet
<1>13. ASSUME NEW x \in ToSet(list), x # w PROVE x \in ToSet(new)
  <2>1. PICK i \in 1..Len(list) : list[i] = x
    BY <1>3 DEF ToSet
  <2>2. i # k
    BY <1>1, <1>13, <2>1
  <2> DEFINE j == IF i < k THEN i ELSE i - 1
  <2>3. j \in 1..n /\ (IF j < k THEN j ELSE j + 1) = i
    BY <1>3, <2>2
  <2>4. new[j] = x
    BY <1>9, <2>1, <2>3
  <2> QED
    BY <1>7, <2>3, <2>4 DEF ToSet
<1> QED
  BY <1>11, <1>12, <1>13 DEF new

(* The elements of a sequence with one more. *)
LEMMA ToSetAppended ==
    ASSUME NEW S, NEW q \in Seq(S), NEW x \in S
    PROVE  ToSet(Append(q, x)) = ToSet(q) \cup {x}
<1> DEFINE new == Append(q, x)
<1>1. Len(q) \in Nat /\ DOMAIN q = 1..Len(q) /\ DOMAIN new = 1..(Len(q) + 1)
  OBVIOUS
<1>2. \A i \in 1..(Len(q) + 1) : new[i] = IF i = Len(q) + 1 THEN x ELSE q[i]
  OBVIOUS
<1> HIDE DEF new
<1>3. ASSUME NEW y \in ToSet(new) PROVE y \in ToSet(q) \cup {x}
  BY <1>1, <1>2, <1>3 DEF ToSet
<1>4. ASSUME NEW y \in ToSet(q) PROVE y \in ToSet(new)
  <2>1. PICK i \in 1..Len(q) : q[i] = y
    BY <1>1 DEF ToSet
  <2>2. i \in DOMAIN new /\ new[i] = y
    BY <1>1, <1>2, <2>1
  <2> QED
    BY <2>2 DEF ToSet
<1>5. x \in ToSet(new)
  <2>1. Len(q) + 1 \in DOMAIN new /\ new[Len(q) + 1] = x
    BY <1>1, <1>2
  <2> QED
    BY <2>1 DEF ToSet
<1> QED
  BY <1>3, <1>4, <1>5 DEF new

LEMMA ToSetConcat ==
    ASSUME NEW S, NEW q \in Seq(S), NEW r \in Seq(S)
    PROVE  q \o r \in Seq(S) /\ ToSet(q \o r) = ToSet(q) \cup ToSet(r)
<1> DEFINE new == q \o r
<1>1. /\ Len(q) \in Nat /\ Len(r) \in Nat /\ DOMAIN q = 1..Len(q) /\ DOMAIN r = 1..Len(r)
      /\ new \in Seq(S) /\ DOMAIN new = 1..(Len(q) + Len(r))
  OBVIOUS
<1>2. \A i \in 1..(Len(q) + Len(r)) : new[i] = IF i <= Len(q) THEN q[i] ELSE r[i - Len(q)]
  OBVIOUS
<1> HIDE DEF new
<1>3. ASSUME NEW y \in ToSet(new) PROVE y \in ToSet(q) \cup ToSet(r)
  <2>1. PICK i \in 1..(Len(q) + Len(r)) : new[i] = y
    BY <1>1 DEF ToSet
  <2>2. CASE i <= Len(q)
    <3>1. i \in 1..Len(q) /\ q[i] = y
      BY <1>1, <1>2, <2>1, <2>2
    <3> QED
      BY <1>1, <3>1 DEF ToSet
  <2>3. CASE i > Len(q)
    <3>1. i - Len(q) \in 1..Len(r) /\ r[i - Len(q)] = y
      BY <1>1, <1>2, <2>1, <2>3
    <3> QED
      BY <1>1, <3>1 DEF ToSet
  <2> QED
    BY <1>1, <2>2, <2>3
<1>4. ASSUME NEW y \in ToSet(q) PROVE y \in ToSet(new)
  <2>1. PICK i \in 1..Len(q) : q[i] = y
    BY <1>1 DEF ToSet
  <2>2. i \in DOMAIN new /\ new[i] = y
    BY <1>1, <1>2, <2>1
  <2> QED
    BY <2>2 DEF ToSet
<1>5. ASSUME NEW y \in ToSet(r) PROVE y \in ToSet(new)
  <2>1. PICK i \in 1..Len(r) : r[i] = y
    BY <1>1 DEF ToSet
  <2>2. i + Len(q) \in DOMAIN new /\ new[i + Len(q)] = y
    BY <1>1, <1>2, <2>1
  <2> QED
    BY <2>2 DEF ToSet
<1> QED
  BY <1>1, <1>3, <1>4, <1>5 DEF new

(* Lists with a window added. *)
LEMMA AppendedIsList ==
    ASSUME NEW list, IsList(list), NEW w \in Pane, w \notin ToSet(list)
    PROVE  IsList(Append(list, w)) /\ ToSet(Append(list, w)) = ToSet(list) \cup {w}
<1>1. list \in Seq(Pane) /\ Len(list) \in Nat /\ DOMAIN list = 1..Len(list)
  BY DEF IsList
<1>2. \A i \in 1..Len(list) : list[i] # w
  BY <1>1 DEF ToSet
<1> DEFINE new == Append(list, w)
<1>3. new \in Seq(Pane) /\ DOMAIN new = 1..(Len(list) + 1)
  BY <1>1
<1>4. \A i \in 1..(Len(list) + 1) : new[i] = IF i = Len(list) + 1 THEN w ELSE list[i]
  BY <1>1
<1> HIDE DEF new
<1>5. \A i, j \in DOMAIN new : new[i] = new[j] => i = j
  BY <1>1, <1>2, <1>3, <1>4 DEF IsList, IsInjective
<1> QED
  BY <1>1, <1>3, <1>5, ToSetAppended DEF IsList, IsInjective, new

LEMMA PushedIsList ==
    ASSUME NEW list, IsList(list), NEW w \in Pane, w \notin ToSet(list)
    PROVE  IsList(<<w>> \o list) /\ ToSet(<<w>> \o list) = ToSet(list) \cup {w}
<1>1. list \in Seq(Pane) /\ Len(list) \in Nat /\ DOMAIN list = 1..Len(list)
  BY DEF IsList
<1>2. \A i \in 1..Len(list) : list[i] # w
  BY <1>1 DEF ToSet
<1> DEFINE new == <<w>> \o list
<1>3. new \in Seq(Pane) /\ DOMAIN new = 1..(Len(list) + 1) /\ new[1] = w
  BY <1>1
<1>4. \A i \in 1..(Len(list) + 1) : i = 1 \/ (i - 1 \in 1..Len(list) /\ new[i] = list[i - 1])
  BY <1>1
<1>5. ToSet(<<w>>) = {w} /\ <<w>> \in Seq(Pane)
  BY DEF ToSet
<1>6. ToSet(new) = ToSet(list) \cup {w}
  <2>1. ToSet(<<w>> \o list) = ToSet(<<w>>) \cup ToSet(list)
    <3> DEFINE r == <<w>>
    <3>1. r \in Seq(Pane)
      BY <1>5
    <3> HIDE DEF r
    <3>2. ToSet(r \o list) = ToSet(r) \cup ToSet(list)
      BY <1>1, <3>1, ToSetConcat
    <3> QED
      BY <3>2 DEF r
  <2>2. {w} \cup ToSet(list) = ToSet(list) \cup {w}
    OBVIOUS
  <2> QED
    BY <1>5, <2>1, <2>2, Zenon
<1> HIDE DEF new
<1>7. \A i, j \in 1..Len(list) : list[i] = list[j] => i = j
  BY <1>1 DEF IsList, IsInjective
<1>8. \A i, j \in DOMAIN new : new[i] = new[j] => i = j
  BY <1>1, <1>2, <1>3, <1>4, <1>7
<1> QED
  BY <1>3, <1>6, <1>8 DEF IsList, IsInjective, new

-----------------------------------------------------------------------------
(* Events that wait. *)
LEMMA EventsKeptValues ==
    ASSUME NEW D, xqueue \in Seq(Event)
    PROVE  \A n \in 0..Len(xqueue) :
              EventsKept(D)[n] =
                 IF n = 0 THEN <<>>
                 ELSE IF xqueue[n] \in D THEN EventsKept(D)[n - 1]
                 ELSE Append(EventsKept(D)[n - 1], xqueue[n])
<1> DEFINE at(f, n) == IF n = 0 THEN <<>>
                       ELSE IF xqueue[n] \in D THEN f[n - 1] ELSE Append(f[n - 1], xqueue[n])
           bound == Len(xqueue)
           S == {k \in Nat : \E f : \A n \in 0..k : f[n] = at(f, n)}
<1>1. 0 \in S
  <2> DEFINE f == [n \in {0} |-> <<>>]
  <2>1. \A n \in 0..0 : f[n] = at(f, n)
    OBVIOUS
  <2> HIDE DEF f, at
  <2> QED
    BY <2>1
<1>2. ASSUME NEW k \in Nat, k \in S PROVE k + 1 \in S
  <2>1. PICK f : \A n \in 0..k : f[n] = at(f, n)
    BY <1>2
  <2> DEFINE g == [n \in 0..(k + 1) |->
                      IF n = k + 1 THEN IF xqueue[k + 1] \in D THEN f[k] ELSE Append(f[k], xqueue[k + 1])
                      ELSE f[n]]
  <2>2. ASSUME NEW n \in 0..(k + 1) PROVE g[n] = at(g, n)
    <3>1. CASE n = k + 1
      BY <3>1
    <3>2. CASE n # k + 1
      BY <2>1, <3>2
    <3> QED
      BY <3>1, <3>2
  <2> HIDE DEF g, at
  <2> QED
    BY <2>2
<1> HIDE DEF S
<1>3. bound \in Nat /\ bound \in S
  BY <1>1, <1>2, SetInduction
<1>4. PICK f : \A n \in 0..bound : f[n] = at(f, n)
  BY <1>3 DEF S
<1> DEFINE g == [n \in 0..bound |-> f[n]]
<1>5. g = [n \in 0..bound |-> at(g, n)]
  <2>1. \A n \in 0..bound : g[n] = at(g, n)
    BY <1>3, <1>4
  <2> HIDE DEF at
  <2> QED
    BY <2>1
<1>6. EventsKept(D) = CHOOSE h : h = [n \in 0..bound |-> at(h, n)]
  BY DEF EventsKept
<1> HIDE DEF g
<1>7. EventsKept(D) = [n \in 0..bound |-> at(EventsKept(D), n)]
  BY <1>5, <1>6
<1> QED
  BY <1>7

(* EventsBut keeps the events that are not in D, and no others.             *)
LEMMA EventsButThose ==
    ASSUME NEW D, xqueue \in Seq(Event)
    PROVE  EventsBut(D) \in Seq(Event) /\ ToSet(EventsBut(D)) = ToSet(xqueue) \ D
<1> DEFINE kept(n) == EventsKept(D)[n]
           T == {n \in Nat : n <= Len(xqueue) =>
                    /\ kept(n) \in Seq(Event)
                    /\ ToSet(kept(n)) = {xqueue[i] : i \in 1..n} \ D}
<1>1. Len(xqueue) \in Nat /\ DOMAIN xqueue = 1..Len(xqueue) /\ \A i \in 1..Len(xqueue) : xqueue[i] \in Event
  OBVIOUS
<1>2. \A n \in 0..Len(xqueue) :
         kept(n) = IF n = 0 THEN <<>>
                   ELSE IF xqueue[n] \in D THEN kept(n - 1) ELSE Append(kept(n - 1), xqueue[n])
  BY EventsKeptValues
<1> HIDE DEF kept
<1>3. 0 \in T
  <2>1. kept(0) = <<>>
    BY <1>1, <1>2
  <2>2. <<>> \in Seq(Event) /\ ToSet(<<>>) = {} /\ {xqueue[i] : i \in 1..0} = {}
    BY DEF ToSet
  <2>3. kept(0) \in Seq(Event) /\ ToSet(kept(0)) = {xqueue[i] : i \in 1..0} \ D
    BY <2>1, <2>2, Zenon
  <2> QED
    BY <2>3
<1>4. ASSUME NEW n \in Nat, n \in T PROVE n + 1 \in T
  <2> SUFFICES ASSUME n + 1 <= Len(xqueue)
               PROVE  /\ kept(n + 1) \in Seq(Event)
                      /\ ToSet(kept(n + 1)) = {xqueue[i] : i \in 1..(n + 1)} \ D
    OBVIOUS
  <2>1. kept(n) \in Seq(Event) /\ ToSet(kept(n)) = {xqueue[i] : i \in 1..n} \ D
    BY <1>1, <1>4
  <2>2. kept(n + 1) = IF xqueue[n + 1] \in D THEN kept(n) ELSE Append(kept(n), xqueue[n + 1])
    <3>1. n + 1 \in 0..Len(xqueue) /\ n + 1 # 0 /\ (n + 1) - 1 = n
      BY <1>1
    <3> QED
      BY <1>2, <3>1
  <2>3. {xqueue[i] : i \in 1..(n + 1)} = {xqueue[i] : i \in 1..n} \cup {xqueue[n + 1]}
    <3>1. \A i : i \in 1..(n + 1) <=> i \in 1..n \/ i = n + 1
      OBVIOUS
    <3> QED
      BY <3>1, Zenon
  <2>4. CASE xqueue[n + 1] \in D
    BY <2>1, <2>2, <2>3, <2>4
  <2>5. CASE xqueue[n + 1] \notin D
    <3>1. xqueue[n + 1] \in Event
      BY <1>1
    <3>2. ToSet(Append(kept(n), xqueue[n + 1])) = ToSet(kept(n)) \cup {xqueue[n + 1]}
      BY <2>1, <3>1, ToSetAppended
    <3>3. Append(kept(n), xqueue[n + 1]) \in Seq(Event)
      BY <2>1, <3>1
    <3>4. kept(n + 1) = Append(kept(n), xqueue[n + 1])
      BY <2>2, <2>5
    <3>5. ToSet(kept(n + 1)) = {xqueue[i] : i \in 1..(n + 1)} \ D
      <4>1. ({xqueue[i] : i \in 1..n} \ D) \cup {xqueue[n + 1]}
               = ({xqueue[i] : i \in 1..n} \cup {xqueue[n + 1]}) \ D
        BY <2>5
      <4> QED
        BY <2>1, <2>3, <3>2, <3>4, <4>1
    <3> QED
      BY <3>3, <3>4, <3>5
  <2> QED
    BY <2>4, <2>5
<1> HIDE DEF T
<1>5. Nat \subseteq T
  BY <1>3, <1>4, SetInduction
<1>6. kept(Len(xqueue)) \in Seq(Event) /\ ToSet(kept(Len(xqueue))) = {xqueue[i] : i \in 1..Len(xqueue)} \ D
  BY <1>1, <1>5 DEF T
<1> QED
  BY <1>1, <1>6 DEF EventsBut, ToSet, kept

-----------------------------------------------------------------------------
(* What the types say about the lists and the tree. *)
LEMMA TypeFacts ==
    ASSUME PaintTypeOK
    PROVE  /\ DOMAIN zorder = Pane \cup {Screen}
           /\ \A p \in Pane \cup {Screen} : IsList(zorder[p])
           /\ \A p \in Pane \cup {Screen} : \A w \in ToSet(zorder[p]) : w \in Live /\ hWndParent[w] = p
           /\ \A w \in Live : w \in Pane /\ w \in ToSet(zorder[hWndParent[w]])
           /\ \A p \in Pane \ Live : zorder[p] = <<>>
           /\ \A w \in Live : hWndParent[w] \in Live \cup {Screen}
<1>1. /\ zorder \in [Pane \cup {Screen} -> Seq(Pane)]
      /\ \A p \in Pane \cup {Screen} :
            /\ IsInjective(zorder[p]) /\ ToSet(zorder[p]) \subseteq {w \in Pane : hWndParent[w] = p}
            /\ p \notin Live \cup {Screen} => zorder[p] = <<>>
  BY DEF PaintTypeOK, Live
<1>2. \A p \in Pane \cup {Screen} : IsList(zorder[p])
  BY <1>1 DEF IsList
<1>3. \A w \in Pane : hWndParent[w] \in Pane \cup {Screen}
  BY PaintAssumption
<1>4. \A w \in Live : w \in Pane /\ w \in ToSet(zorder[hWndParent[w]])
  BY DEF Live, Exists
<1>5. \A p \in Pane \cup {Screen} : \A w \in ToSet(zorder[p]) : w \in Live /\ hWndParent[w] = p
  BY <1>1 DEF Live, Exists
<1>6. \A p \in Pane \ Live : zorder[p] = <<>>
  BY <1>1, PaintAssumption
<1>7. ToSet(<<>>) = {}
  BY DEF ToSet
<1>8. \A w \in Live : hWndParent[w] \in Live \cup {Screen}
  BY <1>3, <1>4, <1>6, <1>7
<1> QED
  BY <1>1, <1>2, <1>4, <1>5, <1>6, <1>8

(* The windows above one that exists exist. *)
LEMMA UpwardLive ==
    ASSUME PaintTypeOK, NEW w \in Live
    PROVE  w \in Pane /\ Upward(w) \subseteq Live
<1>1. w \in Pane /\ Live \in SUBSET Pane
  BY DEF Live
<1>2. HasParents(Live, w)
  BY TypeFacts DEF HasParents
<1> QED
  BY <1>1, <1>2, UpwardLeast

(* A branch: with a window it has what is below it, and no other top-level  *)
(* window.                                                                  *)
LEMMA BranchFacts ==
    ASSUME NEW w \in Pane
    PROVE  /\ Branch(w) \subseteq Live
           /\ w \in Live => w \in Branch(w)
           /\ \A x \in Live : x \notin Branch(w) => Upward(x) \cap Branch(w) = {}
           /\ \A x \in Branch(w) \cap Shell : x = w
<1>1. Branch(w) \subseteq Live /\ (w \in Live => w \in Branch(w))
  BY DEF Branch, Live
<1>2. ASSUME NEW x \in Live, NEW y \in Upward(x), y \in Branch(w) PROVE x \in Branch(w)
  <2>1. x \in Pane /\ Exists(x)
    BY DEF Live
  <2>2. w = y \/ w \in Upward(y)
    BY <1>2 DEF Branch
  <2>3. Upward(y) \subseteq Upward(x)
    BY <2>1, UpwardTransitive
  <2> QED
    BY <2>1, <2>2, <2>3 DEF Branch
<1>3. ASSUME NEW x \in Branch(w), x \in Shell PROVE x = w
  <2>1. x \in Pane /\ (x = w \/ w \in Upward(x)) /\ hWndParent[x] = Screen
    BY <1>3 DEF Branch, Shell
  <2>2. Upward(x) = {}
    BY <2>1, UpwardOfChild
  <2> QED
    BY <2>1, <2>2
<1> QED
  BY <1>1, <1>2, <1>3

(* Every window is at or below a top-level one: of those at and above it,   *)
(* the one with the fewest above it.                                        *)
LEMMA AtTop ==
    ASSUME NEW w \in Pane
    PROVE  \E y \in {w} \cup Upward(w) : y \in Shell
<1> DEFINE S == {w} \cup Upward(w)
           height(y) == Cardinality(Upward(y))
           H == {height(y) : y \in S}
<1>1. S \in SUBSET Pane /\ \A y \in S : Upward(y) \subseteq S
  BY UpwardHasParents, UpwardTransitive
<1>2. \A y \in Pane : IsFiniteSet(Upward(y)) /\ height(y) \in Nat
  BY PaintAssumption, UpwardHasParents, FS_Subset, FS_CardinalityType
<1>3. H \in SUBSET Nat /\ H # {}
  BY <1>1, <1>2
<1>4. PICK n \in H : \A k \in H : n <= k
  BY <1>3, LeastNumber
<1>5. PICK y \in S : n = height(y)
  BY <1>4
<1>6. y \in Shell
  <2> SUFFICES ASSUME hWndParent[y] # Screen PROVE FALSE
    BY <1>1, <1>5 DEF Shell
  <2> DEFINE p == hWndParent[y]
  <2>1. y \in Pane /\ p \in Pane
    BY <1>1, <1>5, PaintAssumption
  <2>2. Upward(y) = {p} \cup Upward(p)
    BY <2>1, UpwardOfChild
  <2>3. p \in S
    BY <1>1, <1>5, <2>2
  <2>4. p \notin Upward(p)
    BY <2>1, TreeAssumption
  <2>5. height(y) = height(p) + 1
    <3>1. Upward(y) = Upward(p) \cup {p} /\ IsFiniteSet(Upward(p))
      BY <1>2, <2>1, <2>2
    <3>2. Cardinality(Upward(p) \cup {p}) = Cardinality(Upward(p)) + 1
      BY <2>4, <3>1, FS_AddElement
    <3> QED
      BY <3>1, <3>2
  <2>6. height(p) \in H /\ height(p) \in Nat
    BY <1>2, <2>1, <2>3
  <2> HIDE DEF H, height
  <2> QED
    BY <1>4, <1>5, <2>5, <2>6
<1> QED
  BY <1>5, <1>6

(* at and its siblings after it. *)
Rest(at) ==
    IF at = NoPane THEN {}
    ELSE LET list == zorder[hWndParent[at]]
         IN {list[i] : i \in PlaceOf(list, at)..Len(list)}

LEMMA RestOfList ==
    ASSUME PaintTypeOK, NEW w \in Live
    PROVE  /\ w \in Rest(w) /\ Rest(w) \subseteq ToSet(zorder[hWndParent[w]])
           /\ Sibling(w) \in ToSet(zorder[hWndParent[w]]) \cup {NoPane}
           /\ Rest(Sibling(w)) = Rest(w) \ {w}
<1> DEFINE p == hWndParent[w]
           list == zorder[p]
<1>1. w \in Pane /\ p \in Pane \cup {Screen} /\ w \in ToSet(list) /\ IsList(list)
  BY TypeFacts, PaintAssumption
<1>2. w # NoPane /\ \A x \in ToSet(list) : x \in Pane /\ x # NoPane /\ hWndParent[x] = p
  BY <1>1, TypeFacts, PaintAssumption DEF Live
<1>3. list \in Seq(Pane) /\ Len(list) \in Nat /\ DOMAIN list = 1..Len(list)
  BY <1>1 DEF IsList
<1> HIDE DEF list
<1>4. PICK k \in 1..Len(list) : list[k] = w
  BY <1>1, <1>3 DEF ToSet
<1>5. PlaceOf(list, w) = k
  BY <1>1, <1>4, PlaceInList
<1>6. Rest(w) = {list[i] : i \in k..Len(list)}
  BY <1>2, <1>5 DEF Rest, list
<1>7. \A i, j \in 1..Len(list) : list[i] = list[j] => i = j
  BY <1>1, <1>3 DEF IsList, IsInjective
<1>8. w \in Rest(w) /\ Rest(w) \subseteq ToSet(list)
  <2>1. k \in k..Len(list) /\ \A i \in k..Len(list) : i \in DOMAIN list
    BY <1>3
  <2> QED
    BY <1>4, <1>6, <2>1 DEF ToSet
<1>9. Sibling(w) = IF k < Len(list) THEN list[k + 1] ELSE NoPane
  BY <1>5 DEF Sibling, list
<1>10. CASE k < Len(list)
  <2>1. k + 1 \in 1..Len(list) /\ Sibling(w) = list[k + 1]
    BY <1>3, <1>9, <1>10
  <2>2. Sibling(w) \in ToSet(list)
    BY <1>3, <2>1 DEF ToSet
  <2>3. PlaceOf(list, Sibling(w)) = k + 1
    BY <1>1, <2>1, PlaceInList
  <2>4. Rest(Sibling(w)) = {list[i] : i \in (k + 1)..Len(list)}
    BY <1>2, <2>2, <2>3 DEF Rest, list
  <2>5. \A i : i \in k..Len(list) <=> i = k \/ i \in (k + 1)..Len(list)
    BY <1>3, <1>10
  <2>6. \A i \in (k + 1)..Len(list) : list[i] # w
    BY <1>3, <1>4, <1>7
  <2>7. Rest(w) = {w} \cup Rest(Sibling(w))
    BY <1>4, <1>6, <2>4, <2>5
  <2>8. w \notin Rest(Sibling(w))
    BY <2>4, <2>6
  <2> QED
    BY <1>8, <2>2, <2>7, <2>8 DEF list
<1>11. CASE ~(k < Len(list))
  <2>0. PICK n \in Nat : n = Len(list)
    BY <1>3
  <2>1. k = n
    <3>1. k \in 1..n /\ ~(k < n)
      BY <1>11, <2>0
    <3> QED
      BY <2>0, <3>1
  <2>2. Sibling(w) = NoPane
    BY <1>9, <1>11
  <2>3. \A i : i \in k..Len(list) => i = k
    <3>1. \A i : i \in k..n => i = k
      BY <2>0, <2>1
    <3> QED
      BY <2>0, <3>1
  <2>4. Rest(w) = {w}
    BY <1>4, <1>6, <1>8, <2>3
  <2> QED
    BY <1>8, <2>2, <2>4 DEF Rest, list
<1> QED
  BY <1>10, <1>11

LEMMA RestOfFirst ==
    ASSUME PaintTypeOK, NEW p \in Pane \cup {Screen}
    PROVE  /\ FirstChild(p) \in ToSet(zorder[p]) \cup {NoPane}
           /\ FirstChild(p) = NoPane <=> zorder[p] = <<>>
           /\ Rest(FirstChild(p)) = ToSet(zorder[p])
<1> DEFINE list == zorder[p]
<1>1. IsList(list) /\ \A x \in ToSet(list) : x \in Pane /\ x # NoPane /\ hWndParent[x] = p
  BY TypeFacts, PaintAssumption DEF Live
<1>2. list \in Seq(Pane) /\ Len(list) \in Nat /\ DOMAIN list = 1..Len(list)
  BY <1>1 DEF IsList
<1>3. CASE list = <<>>
  <2>1. FirstChild(p) = NoPane /\ Rest(NoPane) = {} /\ ToSet(<<>>) = {}
    BY <1>3 DEF FirstChild, Rest, ToSet
  <2> QED
    BY <1>3, <2>1
<1>4. CASE list # <<>>
  <2>1. 1 \in 1..Len(list) /\ FirstChild(p) = list[1]
    BY <1>2, <1>4 DEF FirstChild
  <2>2. FirstChild(p) \in ToSet(list)
    BY <1>2, <2>1 DEF ToSet
  <2>3. PlaceOf(list, list[1]) = 1
    BY <1>1, <2>1, PlaceInList
  <2>4. Rest(FirstChild(p)) = {list[i] : i \in 1..Len(list)}
    BY <1>1, <2>1, <2>2, <2>3 DEF Rest
  <2> QED
    BY <1>1, <1>2, <1>4, <2>2, <2>4 DEF ToSet
<1> QED
  BY <1>3, <1>4

-----------------------------------------------------------------------------
(* The search. *)

Below(y) == {x \in Pane : x = y \/ y \in Upward(x)}

(* What a search must not lose: the windows that can be painted and are     *)
(* marked down to.                                                          *)
Due == {x \in Live : Paintable(x) /\ Upward(x) \subseteq WFCHILDDIRTY}

(* Nothing of it is at or below a sibling that has been passed, on the level *)
(* of at or on one above it, nor is it on the way down.                     *)
PassedChildren(at, cur) == \A y \in ToSet(zorder[cur]) \ Rest(at) : Due \cap Below(y) = {}
PassedAbove(cur) ==
    cur # Screen =>
       \A c \in {cur} \cup Upward(cur) : c \notin Due /\ PassedChildren(c, hWndParent[c])

(* The invariant of the loops.                                              *)
SearchTyped(s) ==
    /\ s = Looking(s.at, s.cur, s.marks, s.stuck, s.ended)
    /\ s.cur \in Live \cup {Screen} /\ s.at \in ToSet(zorder[s.cur]) \cup {NoPane}
    /\ s.marks \subseteq WFCHILDDIRTY /\ s.stuck \in BOOLEAN /\ s.ended \in BOOLEAN
MarkedDown(s) == s.cur # Screen => {s.cur} \cup Upward(s.cur) \subseteq s.marks
NoneLost(s) == \A x \in Due : Upward(x) \subseteq s.marks
SearchInv(s) ==
    /\ SearchTyped(s)
    /\ ~s.ended => MarkedDown(s)
    /\ ~s.stuck => NoneLost(s)
    /\ ~s.stuck /\ ~s.ended => PassedChildren(s.at, s.cur) /\ PassedAbove(s.cur)
    /\ ~s.stuck /\ s.ended => s.at # NoPane \/ Due = {}

(* What has been passed is not due when cur and all its children have been. *)
LEMMA ChildrenDone ==
    ASSUME PaintTypeOK, NEW cur \in Live, PassedChildren(NoPane, cur), cur \notin Due
    PROVE  Due \cap Below(cur) = {}
<1> SUFFICES ASSUME NEW x \in Due, x \in Below(cur) PROVE FALSE
  OBVIOUS
<1>1. x \in Live /\ x \in Pane /\ cur \in Upward(x)
  BY DEF Below, Due, Live
<1>2. PICK y \in Pane : hWndParent[y] = cur /\ (y = x \/ y \in Upward(x))
  BY <1>1, WayDown
<1>3. y \in Live
  BY <1>1, <1>2, UpwardLive
<1>4. y \in ToSet(zorder[cur]) /\ Rest(NoPane) = {}
  BY <1>2, <1>3, TypeFacts DEF Rest
<1>5. x \in Below(y)
  BY <1>1, <1>2 DEF Below
<1> QED
  BY <1>4, <1>5 DEF PassedChildren

(* Nothing is due when all top-level windows have been passed.              *)
LEMMA TopsDone ==
    ASSUME PaintTypeOK, \A y \in ToSet(zorder[Screen]) : Due \cap Below(y) = {}
    PROVE  Due = {}
<1> SUFFICES ASSUME NEW x \in Due PROVE FALSE
  OBVIOUS
<1>1. x \in Live /\ x \in Pane
  BY DEF Due, Live
<1>2. PICK y \in {x} \cup Upward(x) : y \in Shell
  BY <1>1, AtTop
<1>3. y \in Live /\ hWndParent[y] = Screen
  BY <1>1, <1>2, UpwardLive DEF Shell
<1>4. y \in ToSet(zorder[Screen])
  BY <1>3, TypeFacts
<1>5. x \in Below(y)
  BY <1>1, <1>2 DEF Below
<1> QED
  BY <1>4, <1>5

(* A sibling is passed.                                                     *)
LEMMA SiblingPassed ==
    ASSUME PaintTypeOK, NEW w \in Live, PassedChildren(w, hWndParent[w]), Due \cap Below(w) = {}
    PROVE  PassedChildren(Sibling(w), hWndParent[w])
<1>1. Rest(Sibling(w)) = Rest(w) \ {w}
  BY RestOfList
<1> QED
  BY <1>1 DEF PassedChildren

(* What a turn does to the invariant, case by case.                         *)
LEMMA AscendKeeps ==
    ASSUME PaintTypeOK, NEW s, SearchInv(s), ~s.ended, s.at = NoPane
    PROVE  SearchInv(Ascend(s))
<1> DEFINE cur == s.cur
           up == AfterChildren(cur)
           new == IF up = NoPane THEN cur ELSE hWndParent[up]
           t == Ascend(s)
           p == hWndParent[cur]
<1>1. /\ cur \in Live \cup {Screen} /\ s.marks \subseteq WFCHILDDIRTY /\ s.stuck \in BOOLEAN
      /\ MarkedDown(s)
      /\ ~s.stuck => NoneLost(s) /\ PassedChildren(NoPane, cur) /\ PassedAbove(cur)
  BY DEF SearchInv, SearchTyped
<1>2. /\ t = Looking(up, new, s.marks \ {cur}, s.stuck, up = NoPane)
      /\ t.at = up /\ t.cur = new /\ t.marks = s.marks \ {cur} /\ t.stuck = s.stuck
      /\ t.ended = (up = NoPane)
  BY DEF Ascend, Looking
<1> HIDE DEF t
<1>3. Screen \notin Pane /\ NoPane \notin Pane /\ Screen # NoPane /\ Live \subseteq Pane
  BY PaintAssumption DEF Live
<1>4. CASE cur = Screen
  <2>1. up = NoPane /\ new = Screen
    BY <1>4 DEF AfterChildren
  <2>2. ~s.stuck => Due = {}
    <3>1. Rest(NoPane) = {}
      BY DEF Rest
    <3> QED
      BY <1>1, <1>4, <3>1, TopsDone DEF PassedChildren
  <2> HIDE DEF up, new
  <2>3. SearchTyped(t)
    BY <1>1, <1>2, <2>1 DEF SearchTyped
  <2>4. t.ended /\ t.stuck = s.stuck /\ (~s.stuck => NoneLost(t))
    BY <1>2, <2>1, <2>2 DEF NoneLost
  <2> QED
    BY <2>2, <2>3, <2>4, Zenon DEF SearchInv, t
<1>5. CASE cur # Screen
  <2>1. cur \in Live /\ cur \in Pane /\ p \in Live \cup {Screen}
    BY <1>1, <1>3, <1>5, TypeFacts
  <2>2. /\ Sibling(cur) \in ToSet(zorder[p]) \cup {NoPane} /\ cur \in Rest(cur)
        /\ Rest(Sibling(cur)) = Rest(cur) \ {cur}
    BY <2>1, RestOfList
  <2>3. ~s.stuck => Due \cap Below(cur) = {}
    BY <1>1, <1>5, <2>1, ChildrenDone DEF PassedAbove
  <2>4. ~s.stuck => NoneLost(t)
    <3>1. ~s.stuck => \A x \in Due : cur \notin Upward(x)
      BY <2>3 DEF Below, Due, Live
    <3> QED
      BY <1>1, <1>2, <3>1 DEF NoneLost
  <2>5. ~s.stuck => PassedChildren(Sibling(cur), p)
    BY <1>1, <1>5, <2>1, <2>3, SiblingPassed DEF PassedAbove
  <2>6. cur \notin Upward(cur) /\ \A c \in Upward(cur) : c \in Pane /\ Upward(c) \subseteq Upward(cur)
    BY <2>1, TreeAssumption, UpwardTransitive
  <2>7. Upward(cur) = IF p = Screen THEN {} ELSE {p} \cup Upward(p)
    BY <2>1, UpwardOfChild
  <2>8. CASE Sibling(cur) # NoPane
    <3>1. up = Sibling(cur) /\ up \in Live /\ hWndParent[up] = p /\ new = p
      BY <1>3, <1>5, <2>1, <2>2, <2>8, TypeFacts DEF AfterChildren
    <3> HIDE DEF up, new
    <3>2. SearchTyped(t)
      BY <1>1, <1>2, <2>1, <2>2, <2>8, <3>1 DEF SearchTyped
    <3>3. MarkedDown(t)
      BY <1>1, <1>2, <1>5, <2>6, <2>7, <3>1 DEF MarkedDown
    <3>4. ~s.stuck => PassedAbove(p)
      BY <1>1, <1>5, <2>7 DEF PassedAbove
    <3>5. ~t.ended /\ (~t.stuck => PassedChildren(t.at, t.cur) /\ PassedAbove(t.cur))
      BY <1>2, <2>5, <2>8, <3>1, <3>4
    <3> QED
      BY <1>2, <2>4, <3>2, <3>3, <3>5, Zenon DEF SearchInv, t
  <2>9. CASE Sibling(cur) = NoPane /\ cur \notin Shell
    <3>1. up = p /\ p \in Live /\ p # NoPane /\ p # Screen /\ new = hWndParent[p]
      BY <1>3, <1>5, <2>1, <2>9 DEF AfterChildren, Shell
    <3>2. p \in ToSet(zorder[new]) /\ new \in Live \cup {Screen} /\ p \in Pane
      BY <1>3, <3>1, TypeFacts
    <3>3. Upward(p) = IF new = Screen THEN {} ELSE {new} \cup Upward(new)
      BY <3>1, <3>2, UpwardOfChild
    <3> HIDE DEF up, new
    <3>4. SearchTyped(t)
      BY <1>1, <1>2, <3>1, <3>2 DEF SearchTyped
    <3>5. MarkedDown(t)
      <4>1. {cur} \cup Upward(cur) \subseteq s.marks
        BY <1>1, <1>5 DEF MarkedDown
      <4>2. new # Screen => {new} \cup Upward(new) \subseteq Upward(cur)
        BY <2>7, <3>1, <3>3
      <4> QED
        BY <1>2, <2>6, <4>1, <4>2 DEF MarkedDown
    <3>6. ~s.stuck => PassedChildren(p, new) /\ PassedAbove(new)
      BY <1>1, <1>5, <2>7, <3>1, <3>3 DEF PassedAbove
    <3>7. ~t.ended /\ (~t.stuck => PassedChildren(t.at, t.cur) /\ PassedAbove(t.cur))
      BY <1>2, <3>1, <3>6
    <3> QED
      BY <1>2, <2>4, <3>4, <3>5, <3>7, Zenon DEF SearchInv, t
  <2>10. CASE Sibling(cur) = NoPane /\ cur \in Shell
    <3>1. up = NoPane /\ new = cur /\ p = Screen
      BY <1>5, <2>10 DEF AfterChildren, Shell
    <3>2. Rest(NoPane) = {}
      BY DEF Rest
    <3>3. ~s.stuck => Due = {}
      BY <2>5, <2>10, <3>1, <3>2, TopsDone DEF PassedChildren
    <3> HIDE DEF up, new
    <3>4. SearchTyped(t)
      BY <1>1, <1>2, <3>1 DEF SearchTyped
    <3>5. t.ended
      BY <1>2, <3>1
    <3> QED
      BY <1>2, <2>4, <3>3, <3>4, <3>5, Zenon DEF SearchInv, t
  <2> QED
    BY <2>8, <2>9, <2>10
<1> QED
  BY <1>4, <1>5

(* A window that is looked at and not painted: it is not due, and neither is *)
(* what is below it if it is not marked.                                    *)
LEMMA LookedAt ==
    ASSUME PaintTypeOK, NEW s, SearchInv(s), ~s.ended, s.at # NoPane
    PROVE  /\ s.at \in Live /\ s.at \in Pane /\ hWndParent[s.at] = s.cur
           /\ s.at \notin Shell => s.cur # Screen
           /\ s.cur \in Live \cup {Screen}
           /\ s.at \notin s.marks /\ ~Paintable(s.at) /\ ~s.stuck => Due \cap Below(s.at) = {}
<1>1. s.cur \in Live \cup {Screen} /\ s.at \in ToSet(zorder[s.cur]) /\ Live \subseteq Pane
  BY DEF SearchInv, SearchTyped, Live
<1>2. s.at \in Live /\ hWndParent[s.at] = s.cur
  BY <1>1, TypeFacts
<1>3. ASSUME s.at \notin s.marks, ~Paintable(s.at), ~s.stuck, NEW x \in Due, x \in Below(s.at) PROVE FALSE
  <2>1. Upward(x) \subseteq s.marks
    BY <1>3 DEF SearchInv, NoneLost
  <2>2. Paintable(x) /\ (x = s.at \/ s.at \in Upward(x))
    BY <1>3 DEF Due, Below
  <2> QED
    BY <1>3, <2>1, <2>2
<1> QED
  BY <1>1, <1>2, <1>3 DEF Shell

LEMMA PassKeeps ==
    ASSUME PaintTypeOK, NEW s, SearchInv(s), ~s.ended, s.at # NoPane, ~Paintable(s.at),
           s.at \notin s.marks
    PROVE  SearchInv([s EXCEPT !.at = Sibling(s.at)])
<1> DEFINE t == [s EXCEPT !.at = Sibling(s.at)]
<1>1. t = Looking(Sibling(s.at), s.cur, s.marks, s.stuck, s.ended)
  BY DEF SearchInv, SearchTyped, Looking
<1> HIDE DEF t
<1>2. t.at = Sibling(s.at) /\ t.cur = s.cur /\ t.marks = s.marks /\ t.stuck = s.stuck /\ t.ended = s.ended
  BY <1>1 DEF Looking
<1>3. /\ s.at \in Live /\ hWndParent[s.at] = s.cur
      /\ ~s.stuck => Due \cap Below(s.at) = {}
  BY LookedAt
<1>4. Sibling(s.at) \in ToSet(zorder[s.cur]) \cup {NoPane}
  BY <1>3, RestOfList
<1>5. ~s.stuck => PassedChildren(Sibling(s.at), s.cur)
  BY <1>3, SiblingPassed DEF SearchInv
<1>6. SearchTyped(t)
  BY <1>1, <1>2, <1>4 DEF SearchInv, SearchTyped
<1>7. (~t.ended => MarkedDown(t)) /\ (~t.stuck => NoneLost(t))
  BY <1>2 DEF SearchInv, MarkedDown, NoneLost
<1>8. ~t.stuck => PassedChildren(t.at, t.cur) /\ PassedAbove(t.cur)
  BY <1>2, <1>5 DEF SearchInv
<1>9. ~t.ended
  BY <1>2
<1> QED
  BY <1>2, <1>5, <1>6, <1>7, <1>8, <1>9, Zenon DEF SearchInv, t

LEMMA DescendKeeps ==
    ASSUME PaintTypeOK, NEW s, SearchInv(s), ~s.ended, s.at # NoPane, ~Paintable(s.at),
           s.at \in s.marks
    PROVE  SearchInv(Descend(s))
<1> DEFINE t == Descend(s)
           at == s.at
<1>1. at \in Live /\ at \in Pane /\ hWndParent[at] = s.cur /\ s.cur \in Live \cup {Screen}
  BY LookedAt
<1>2. /\ s.marks \subseteq WFCHILDDIRTY /\ s.stuck \in BOOLEAN /\ MarkedDown(s)
      /\ ~s.stuck => NoneLost(s) /\ PassedChildren(at, s.cur) /\ PassedAbove(s.cur)
  BY DEF SearchInv, SearchTyped
<1>3. CASE zorder[at] = <<>>
  <2>1. t = Looking(NoPane, s.cur, s.marks, TRUE, FALSE)
    BY <1>3 DEF Descend
  <2> HIDE DEF t
  <2>2. t.at = NoPane /\ t.cur = s.cur /\ t.marks = s.marks /\ t.stuck = TRUE /\ t.ended = FALSE
    BY <2>1 DEF Looking
  <2>3. SearchTyped(t)
    BY <1>1, <1>2, <2>1, <2>2 DEF SearchTyped
  <2>4. MarkedDown(t) /\ t.stuck /\ ~t.ended
    BY <1>2, <2>2 DEF MarkedDown
  <2> QED
    BY <2>3, <2>4, Zenon DEF SearchInv, t
<1>4. CASE zorder[at] # <<>>
  <2>1. t = Looking(FirstChild(at), at, s.marks, s.stuck, FALSE)
    BY <1>4 DEF Descend
  <2> HIDE DEF t
  <2>2. t.at = FirstChild(at) /\ t.cur = at /\ t.marks = s.marks /\ t.stuck = s.stuck /\ t.ended = FALSE
    BY <2>1 DEF Looking
  <2>3. FirstChild(at) \in ToSet(zorder[at]) \cup {NoPane} /\ Rest(FirstChild(at)) = ToSet(zorder[at])
    BY <1>1, RestOfFirst
  <2>4. SearchTyped(t)
    BY <1>1, <1>2, <2>1, <2>2, <2>3 DEF SearchTyped
  <2>5. Upward(at) = IF s.cur = Screen THEN {} ELSE {s.cur} \cup Upward(s.cur)
    BY <1>1, UpwardOfChild
  <2>6. MarkedDown(t)
    BY <1>2, <2>2, <2>5 DEF MarkedDown
  <2>7. PassedChildren(FirstChild(at), at)
    BY <2>3 DEF PassedChildren
  <2>8. at \notin Due
    BY DEF Due
  <2>9. ~s.stuck => PassedAbove(at)
    BY <1>1, <1>2, <2>5, <2>8 DEF PassedAbove
  <2>10. ~t.stuck => NoneLost(t)
    BY <1>2, <2>2 DEF NoneLost
  <2>11. ~t.ended /\ (~t.stuck => PassedChildren(t.at, t.cur) /\ PassedAbove(t.cur))
    BY <2>2, <2>7, <2>9
  <2> QED
    BY <2>4, <2>6, <2>10, <2>11, Zenon DEF SearchInv, t
<1> QED
  BY <1>3, <1>4

LEMMA EndedLooking ==
    ASSUME NEW s, s = Looking(s.at, s.cur, s.marks, s.stuck, s.ended), NEW e
    PROVE  [s EXCEPT !.ended = e] = Looking(s.at, s.cur, s.marks, s.stuck, e)
BY DEF Looking

(* A turn keeps the invariant.                                              *)
LEMMA TurnKeeps ==
    ASSUME PaintTypeOK, NEW s, SearchInv(s)
    PROVE  SearchInv(Turn(s))
<1>1. CASE s.ended
  BY <1>1 DEF Turn
<1>2. CASE ~s.ended /\ s.at = NoPane
  BY <1>2, AscendKeeps DEF Turn
<1>3. CASE ~s.ended /\ s.at # NoPane /\ Paintable(s.at)
  <2> DEFINE t == [s EXCEPT !.ended = TRUE]
  <2>0. s = Looking(s.at, s.cur, s.marks, s.stuck, s.ended)
    BY DEF SearchInv, SearchTyped
  <2>1. t = Looking(s.at, s.cur, s.marks, s.stuck, TRUE)
    BY <2>0, EndedLooking, Zenon
  <2> HIDE DEF t
  <2>2. t.at = s.at /\ t.cur = s.cur /\ t.marks = s.marks /\ t.stuck = s.stuck /\ t.ended = TRUE
    BY <2>1 DEF Looking
  <2>3. SearchTyped(t)
    BY <2>1, <2>2 DEF SearchInv, SearchTyped
  <2>4. SearchInv(t)
    <3>1. (~t.stuck => NoneLost(t)) /\ t.ended /\ t.at # NoPane
      BY <1>3, <2>2 DEF SearchInv, NoneLost
    <3> QED
      BY <2>3, <3>1, Zenon DEF SearchInv
  <2> QED
    BY <1>3, <2>4 DEF Turn, t
<1>4. CASE ~s.ended /\ s.at # NoPane /\ ~Paintable(s.at) /\ s.at \notin s.marks
  BY <1>4, PassKeeps DEF Turn
<1>5. CASE ~s.ended /\ s.at # NoPane /\ ~Paintable(s.at) /\ s.at \in s.marks
  BY <1>5, DescendKeeps DEF Turn
<1>6. s.ended \in BOOLEAN
  BY DEF SearchInv, SearchTyped
<1> QED
  BY <1>1, <1>2, <1>3, <1>4, <1>5, <1>6

(* The windows that the search may still look at before it is back at cur.  *)
Ahead(at) == {x \in Pane : \E y \in Rest(at) : x \in Below(y)}
Size == Cardinality(Pane) + 1
Left(s) == Cardinality(s.marks) * Size + Cardinality(Ahead(s.at))

LEMMA SizeFacts ==
    /\ IsFiniteSet(Pane) /\ Size \in Nat \ {0} /\ MaxTurns = Size * Size
    /\ \A S \in SUBSET Pane : IsFiniteSet(S) /\ Cardinality(S) \in 0..(Size - 1)
<1>1. IsFiniteSet(Pane) /\ Cardinality(Pane) \in Nat
  BY PaintAssumption, FS_CardinalityType
<1>2. \A S \in SUBSET Pane : IsFiniteSet(S) /\ Cardinality(S) \in Nat /\ Cardinality(S) <= Cardinality(Pane)
  BY <1>1, FS_Subset, FS_CardinalityType
<1> QED
  BY <1>1, <1>2 DEF Size, MaxTurns

LEMMA FewerAhead ==
    ASSUME NEW S \in SUBSET Pane, NEW x \in S, NEW T \in SUBSET (S \ {x})
    PROVE  Cardinality(T) < Cardinality(S)
<1>1. IsFiniteSet(S) /\ IsFiniteSet(S \ {x}) /\ Cardinality(T) \in Nat
  BY SizeFacts
<1>2. Cardinality(S \ {x}) = Cardinality(S) - 1
  BY <1>1, FS_RemoveElement
<1>3. Cardinality(T) <= Cardinality(S \ {x})
  BY <1>1, FS_Subset
<1>4. Cardinality(S) \in Nat
  BY SizeFacts
<1> QED
  BY <1>1, <1>2, <1>3, <1>4

(* Between two ascents no window is looked at twice.                        *)
LEMMA PassedOnce ==
    ASSUME PaintTypeOK, NEW w \in Live
    PROVE  /\ w \in Ahead(w) /\ Ahead(w) \subseteq Pane
           /\ Ahead(Sibling(w)) \subseteq Ahead(w) \ {w}
           /\ Ahead(FirstChild(w)) \subseteq Ahead(w) \ {w}
<1>1. w \in Pane /\ Live \subseteq Pane
  BY DEF Live
<1>2. /\ w \in Rest(w) /\ Rest(w) \subseteq ToSet(zorder[hWndParent[w]])
      /\ Rest(Sibling(w)) = Rest(w) \ {w}
  BY RestOfList
<1>3. w \in Ahead(w) /\ Ahead(w) \subseteq Pane
  BY <1>1, <1>2 DEF Ahead, Below
<1>4. ASSUME NEW x \in Ahead(Sibling(w)) PROVE x \in Ahead(w) /\ x # w
  <2>1. PICK y \in Rest(w) : y # w /\ x \in Below(y)
    BY <1>2 DEF Ahead
  <2>2. y \in Pane /\ hWndParent[y] = hWndParent[w] /\ hWndParent[w] \in Pane \cup {Screen}
    BY <1>1, <1>2, TypeFacts, PaintAssumption
  <2>3. Upward(y) = Upward(w)
    BY <1>1, <2>2, UpwardOfChild
  <2>4. y \notin Upward(w)
    BY <2>2, <2>3, TreeAssumption
  <2> QED
    BY <2>1, <2>4 DEF Ahead, Below
<1>5. ASSUME NEW x \in Ahead(FirstChild(w)) PROVE x \in Ahead(w) /\ x # w
  <2>1. PICK y \in ToSet(zorder[w]) : x \in Below(y)
    BY <1>1, RestOfFirst DEF Ahead
  <2>2. y \in Pane /\ hWndParent[y] = w /\ w # Screen
    BY <1>1, TypeFacts, PaintAssumption
  <2>3. w \in Upward(y)
    BY <1>1, <2>2, UpwardOfChild
  <2>4. x \in Pane /\ w \in Upward(x)
    BY <2>1, <2>2, <2>3, UpwardTransitive DEF Below
  <2>5. x # w
    BY <2>4, TreeAssumption
  <2> QED
    BY <1>2, <2>4, <2>5 DEF Ahead, Below
<1> QED
  BY <1>3, <1>4, <1>5

(* With every turn less is left, until the search has ended.                *)
LEMMA LessLeft ==
    ASSUME PaintTypeOK, NEW s, SearchInv(s), ~s.ended
    PROVE  Left(s) \in Nat /\ (Turn(s).ended \/ Left(Turn(s)) < Left(s))
<1> DEFINE t == Turn(s)
<1>1. WFCHILDDIRTY \subseteq Live /\ Live \subseteq Pane
  BY DEF PaintTypeOK, Live
<1>2. s.marks \in SUBSET Pane /\ s.cur \in Live \cup {Screen}
  BY <1>1 DEF SearchInv, SearchTyped
<1>3. IsFiniteSet(s.marks) /\ Cardinality(s.marks) \in Nat /\ Size \in Nat \ {0}
  BY <1>2, SizeFacts
<1>4. \A w : Cardinality(Ahead(w)) \in 0..(Size - 1)
  <2>1. \A w : Ahead(w) \in SUBSET Pane
    BY DEF Ahead
  <2> QED
    BY <2>1, SizeFacts
<1>5. Left(s) \in Nat
  <2> DEFINE a == Cardinality(s.marks) * Size
  <2>1. a \in Nat
    BY <1>3
  <2> HIDE DEF a
  <2> QED
    BY <1>3, <1>4, <2>1 DEF Left, a
<1>6. CASE s.at = NoPane
  <2>1. t = Ascend(s)
    BY <1>6 DEF Turn
  <2>2. t.marks = s.marks \ {s.cur} /\ t.ended = (AfterChildren(s.cur) = NoPane)
    BY <2>1 DEF Ascend, Looking
  <2> HIDE DEF t
  <2>3. CASE t.ended
    BY <1>5, <2>3 DEF t
  <2>4. CASE ~t.ended
    <3>1. s.cur # Screen
      BY <2>2, <2>4 DEF AfterChildren
    <3>2. s.cur \in s.marks
      BY <3>1 DEF SearchInv, MarkedDown
    <3>3. Cardinality(t.marks) = Cardinality(s.marks) - 1 /\ Cardinality(s.marks) > 0
      <4>1. Cardinality(t.marks) = Cardinality(s.marks) - 1
        BY <1>3, <2>2, <3>2, FS_RemoveElement
      <4>2. t.marks \in SUBSET Pane
        BY <1>2, <2>2
      <4>3. Cardinality(t.marks) \in Nat
        BY <4>2, SizeFacts
      <4> QED
        BY <1>3, <4>1, <4>3
    <3> DEFINE m == Cardinality(s.marks)
               a == Cardinality(Ahead(t.at))
               b == Cardinality(Ahead(s.at))
    <3>4. a \in 0..(Size - 1) /\ b \in Nat /\ m \in Nat
      BY <1>3, <1>4
    <3>5. Left(t) = (m - 1) * Size + a /\ Left(s) = m * Size + b
      BY <3>3 DEF Left
    <3> HIDE DEF m, a, b
    <3>6. (m - 1) * Size = m * Size - Size
      BY <1>3, <3>4
    <3>7. m * Size \in Nat
      BY <1>3, <3>4
    <3>8. Left(t) < Left(s)
      BY <1>3, <3>4, <3>5, <3>6, <3>7
    <3> QED
      BY <1>5, <3>8 DEF t
  <2> QED
    BY <1>5, <2>3, <2>4
<1>7. CASE s.at # NoPane
  <2> SUFFICES ASSUME ~t.ended PROVE Left(t) < Left(s)
    BY <1>5
  <2>1. s.at \in Live /\ s.at \in Pane
    BY <1>7, LookedAt
  <2>2. ~Paintable(s.at)
    BY <1>7 DEF Turn
  <2>3. t.marks = s.marks /\ Ahead(t.at) \subseteq Ahead(s.at) \ {s.at}
    <3>1. CASE s.at \notin s.marks
      <4>1. s = Looking(s.at, s.cur, s.marks, s.stuck, s.ended)
        BY DEF SearchInv, SearchTyped
      <4>2. t = [s EXCEPT !.at = Sibling(s.at)]
        BY <1>7, <2>2, <3>1 DEF Turn
      <4>3. t.marks = s.marks /\ t.at = Sibling(s.at)
        BY <4>1, <4>2 DEF Looking
      <4> HIDE DEF t
      <4> QED
        BY <2>1, <4>3, PassedOnce
    <3>2. CASE s.at \in s.marks
      <4>1. t = Descend(s)
        BY <1>7, <2>2, <3>2 DEF Turn
      <4>2. t.marks = s.marks /\ t.at = FirstChild(s.at)
        BY <4>1 DEF Descend, Looking, FirstChild
      <4> HIDE DEF t
      <4> QED
        BY <2>1, <4>2, PassedOnce
    <3> QED
      BY <3>1, <3>2
  <2> HIDE DEF t
  <2>4. Cardinality(Ahead(t.at)) < Cardinality(Ahead(s.at))
    BY <2>1, <2>3, PassedOnce, FewerAhead
  <2> DEFINE m == Cardinality(s.marks) * Size
  <2>5. Left(t) = m + Cardinality(Ahead(t.at)) /\ Left(s) = m + Cardinality(Ahead(s.at))
    BY <2>3 DEF Left
  <2>6. m \in Nat
    BY <1>3
  <2> HIDE DEF m
  <2> QED
    BY <1>4, <2>4, <2>5, <2>6
<1> QED
  BY <1>6, <1>7

-----------------------------------------------------------------------------
(* The recursive function Search exists. *)
LEMMA SearchValues ==
    \A n \in 0..MaxTurns :
       Search[n] = IF n = 0 THEN Looking(FirstChild(Screen), Screen, WFCHILDDIRTY, FALSE, FALSE)
                   ELSE Turn(Search[n - 1])
<1> DEFINE start == Looking(FirstChild(Screen), Screen, WFCHILDDIRTY, FALSE, FALSE)
           at(f, n) == IF n = 0 THEN start ELSE Turn(f[n - 1])
           S == {k \in Nat : \E f : \A n \in 0..k : f[n] = at(f, n)}
<1>0. MaxTurns \in Nat
  BY SizeFacts
<1> HIDE DEF start
<1>1. 0 \in S
  <2> DEFINE f == [n \in {0} |-> start]
  <2>1. \A n \in 0..0 : f[n] = at(f, n)
    OBVIOUS
  <2> HIDE DEF f, at
  <2> QED
    BY <2>1
<1>2. ASSUME NEW k \in Nat, k \in S PROVE k + 1 \in S
  <2>1. PICK f : \A n \in 0..k : f[n] = at(f, n)
    BY <1>2
  <2> DEFINE g == [n \in 0..(k + 1) |-> IF n = k + 1 THEN Turn(f[k]) ELSE f[n]]
  <2>2. ASSUME NEW n \in 0..(k + 1) PROVE g[n] = at(g, n)
    <3>1. CASE n = k + 1
      BY <3>1
    <3>2. CASE n # k + 1
      BY <2>1, <3>2
    <3> QED
      BY <3>1, <3>2
  <2> HIDE DEF g, at
  <2> QED
    BY <2>2
<1> HIDE DEF S
<1>3. MaxTurns \in S
  BY <1>0, <1>1, <1>2, SetInduction
<1>4. PICK f : \A n \in 0..MaxTurns : f[n] = at(f, n)
  BY <1>3 DEF S
<1> DEFINE g == [n \in 0..MaxTurns |-> f[n]]
<1>5. g = [n \in 0..MaxTurns |-> at(g, n)]
  <2>1. \A n \in 0..MaxTurns : g[n] = at(g, n)
    BY <1>0, <1>4
  <2> HIDE DEF at
  <2> QED
    BY <2>1
<1>6. Search = CHOOSE h : h = [n \in 0..MaxTurns |-> at(h, n)]
  BY DEF Search, start
<1> HIDE DEF g
<1>7. Search = [n \in 0..MaxTurns |-> at(Search, n)]
  BY <1>5, <1>6
<1> QED
  BY <1>7 DEF start

(* The search ends, and has lost nothing unless it was stuck.               *)
LEMMA SearchEnds == ASSUME PaintTypeOK PROVE Found.ended /\ SearchInv(Found)
<1> DEFINE T == {n \in Nat : n <= MaxTurns =>
                    /\ SearchInv(Search[n])
                    /\ Search[n].ended \/ Left(Search[n]) + n < MaxTurns}
<1>1. MaxTurns \in Nat /\ Size \in Nat \ {0} /\ MaxTurns = Size * Size
  BY SizeFacts
<1>2. 0 \in T
  <2> DEFINE s == Looking(FirstChild(Screen), Screen, WFCHILDDIRTY, FALSE, FALSE)
  <2>1. Search[0] = s
    <3>1. 0 \in 0..MaxTurns
      BY <1>1
    <3> QED
      BY <3>1, SearchValues, Zenon
  <2>2. s.at = FirstChild(Screen) /\ s.cur = Screen /\ s.marks = WFCHILDDIRTY /\ ~s.stuck /\ ~s.ended
    BY DEF Looking
  <2>3. s = Looking(s.at, s.cur, s.marks, s.stuck, s.ended) /\ s.stuck \in BOOLEAN /\ s.ended \in BOOLEAN
    BY DEF Looking
  <2> HIDE DEF s
  <2>4. FirstChild(Screen) \in ToSet(zorder[Screen]) \cup {NoPane} /\ Rest(FirstChild(Screen)) = ToSet(zorder[Screen])
    BY RestOfFirst
  <2>5. SearchTyped(s)
    BY <2>2, <2>3, <2>4 DEF SearchTyped
  <2>6. MarkedDown(s) /\ NoneLost(s) /\ PassedChildren(s.at, s.cur) /\ PassedAbove(s.cur)
    BY <2>2, <2>4 DEF MarkedDown, NoneLost, PassedChildren, PassedAbove, Due
  <2>7. SearchInv(s)
    BY <2>2, <2>5, <2>6, Zenon DEF SearchInv
  <2>8. Left(s) < MaxTurns
    <3>1. s.marks \in SUBSET Pane /\ Ahead(s.at) \in SUBSET Pane
      BY <2>2 DEF PaintTypeOK, Ahead
    <3> DEFINE m == Cardinality(s.marks)
               a == Cardinality(Ahead(s.at))
    <3>2. m \in 0..(Size - 1) /\ a \in 0..(Size - 1)
      BY <3>1, SizeFacts
    <3>3. Left(s) = m * Size + a
      BY DEF Left
    <3> HIDE DEF m, a
    <3>4. m * Size <= (Size - 1) * Size /\ m * Size \in Nat
      BY <1>1, <3>2
    <3>5. (Size - 1) * Size = Size * Size - Size
      BY <1>1
    <3> QED
      BY <1>1, <3>2, <3>3, <3>4, <3>5
  <2>9. Left(s) \in Nat
    BY <2>2, <2>7, LessLeft
  <2> QED
    BY <2>1, <2>7, <2>8, <2>9
<1>3. ASSUME NEW n \in Nat, n \in T PROVE n + 1 \in T
  <2> SUFFICES ASSUME n + 1 <= MaxTurns
               PROVE  /\ SearchInv(Search[n + 1])
                      /\ Search[n + 1].ended \/ Left(Search[n + 1]) + (n + 1) < MaxTurns
    OBVIOUS
  <2> DEFINE s == Search[n]
             t == Search[n + 1]
  <2>1. SearchInv(s) /\ (s.ended \/ Left(s) + n < MaxTurns)
    BY <1>1, <1>3
  <2>2. t = Turn(s)
    <3>1. n + 1 \in 0..MaxTurns /\ n + 1 # 0 /\ (n + 1) - 1 = n
      BY <1>1
    <3> QED
      BY <3>1, SearchValues
  <2> HIDE DEF s, t
  <2>3. SearchInv(t)
    BY <2>1, <2>2, TurnKeeps
  <2>4. CASE s.ended
    <3>1. t.ended
      BY <2>2, <2>4 DEF Turn
    <3> QED
      BY <2>3, <3>1 DEF t
  <2>5. CASE ~s.ended
    <3>1. Left(s) \in Nat /\ (t.ended \/ Left(t) < Left(s))
      BY <2>1, <2>2, <2>5, LessLeft
    <3>2. CASE t.ended
      BY <2>3, <3>2 DEF t
    <3>3. CASE ~t.ended
      <4>1. Left(t) \in Nat
        BY <2>3, <3>3, LessLeft
      <4>2. Left(t) + (n + 1) < MaxTurns
        BY <1>1, <2>1, <2>5, <3>1, <3>3, <4>1
      <4> QED
        BY <2>3, <4>2 DEF t
    <3> QED
      BY <3>2, <3>3
  <2> QED
    BY <2>4, <2>5
<1> HIDE DEF T
<1>4. MaxTurns \in T
  BY <1>1, <1>2, <1>3, SetInduction
<1>5. SearchInv(Found) /\ (Found.ended \/ Left(Found) + MaxTurns < MaxTurns)
  BY <1>1, <1>4 DEF T, Found
<1>6. ~Found.ended => Left(Found) \in Nat
  BY <1>5, LessLeft
<1> QED
  BY <1>1, <1>5, <1>6

(* What GetMessage learns from it. *)
LEMMA FoundFacts ==
    ASSUME PaintTypeOK
    PROVE  /\ Found.marks \subseteq WFCHILDDIRTY /\ Found.stuck \in BOOLEAN
           /\ ~Found.stuck => /\ \A x \in Due : Upward(x) \subseteq Found.marks
                              /\ Found.at = NoPane => Due = {}
BY SearchEnds DEF SearchInv, SearchTyped, NoneLost

-----------------------------------------------------------------------------
(* The inductive invariant: a child that is visible is mapped, the server    *)
(* knows the visible top-level windows and has sent an Expose for each that  *)
(* it shows, and a call only waits for a visible window.                    *)
MappedChildren == \A w \in Pane \ Shell : w \in WS_VISIBLE => w \in WFMAPPED
ShellsKnown ==
    \A w \in Shell : /\ w \in WS_VISIBLE <=> xwin[w] # "unmapped"
                     /\ xwin[w] = "shown" => w \in WFMAPPED \cup Exposed
WaitVisible == waiting # NoPane => waiting[2] \in WS_VISIBLE
IInv == PaintTypeOK /\ MappedChildren /\ ShellsKnown /\ WaitVisible /\ PaintIsDue

(* The types in three parts.                                                *)
Flags == UNION {WS_VISIBLE, WFMAPPED, WFMAPPINGPENDING, WFVISIBILITY, WFDIRTY, WFCHILDDIRTY}
ListsOK ==
    /\ zorder \in [Pane \cup {Screen} -> Seq(Pane)]
    /\ \A p \in Pane \cup {Screen} :
          /\ IsInjective(zorder[p]) /\ ToSet(zorder[p]) \subseteq {w \in Pane : hWndParent[w] = p}
          /\ p \notin Live \cup {Screen} => zorder[p] = <<>>
FlagsOK ==
    /\ WS_VISIBLE \cup WFMAPPED \cup WFMAPPINGPENDING \cup WFVISIBILITY \subseteq Live
    /\ WFDIRTY \cup WFCHILDDIRTY \subseteq Live
    /\ QFPAINT \in BOOLEAN /\ cut \in BOOLEAN
    /\ waiting # NoPane => waiting \in ({"show"} \X (Live \cap Shell)) \cup ({"update"} \X Live)
ServerOK ==
    /\ xwin \in [Shell -> {"unmapped", "asked", "shown", "covered"}]
    /\ \A w \in Shell \ Live : xwin[w] = "unmapped"
    /\ xqueue \in Seq(Event) /\ \A e \in ToSet(xqueue) : e[2] \in Live

LEMMA TypesParted == ASSUME PaintTypeOK PROVE ListsOK /\ FlagsOK /\ ServerOK
<1>1. ListsOK
  BY DEF PaintTypeOK, ListsOK, Live
<1>2. FlagsOK
  BY DEF PaintTypeOK, FlagsOK, Live
<1>3. \A e \in ToSet(xqueue) : \E i \in DOMAIN xqueue : e = xqueue[i]
  BY DEF ToSet
<1>4. ServerOK
  BY <1>3 DEF PaintTypeOK, ServerOK, Live
<1> QED
  BY <1>1, <1>2, <1>4

LEMMA TypesJoined == ASSUME ListsOK, FlagsOK, ServerOK PROVE PaintTypeOK
<1>1. \A i \in DOMAIN xqueue : xqueue[i] \in ToSet(xqueue)
  BY DEF ToSet
<1> QED
  BY <1>1 DEF PaintTypeOK, ListsOK, FlagsOK, ServerOK, Live

LEMMA TypesJoinedAfter == ASSUME ListsOK', FlagsOK', ServerOK' PROVE PaintTypeOK'
<1>1. \A i \in DOMAIN xqueue' : xqueue'[i] \in ToSet(xqueue')
  BY DEF ToSet
<1> QED
  BY <1>1 DEF PaintTypeOK, ListsOK, FlagsOK, ServerOK, Live

(* Exposed are the windows of the Expose events that wait.                   *)
LEMMA ExposedAre ==
    ASSUME xqueue \in Seq(Event)
    PROVE  /\ Exposed \subseteq Shell
           /\ \A w \in Shell : w \in Exposed <=> <<"Expose", w>> \in ToSet(xqueue)
<1>1. \A e \in ToSet(xqueue) : e \in Event
  BY DEF ToSet
<1>2. \A w : w \in Exposed <=> \E e \in ToSet(xqueue) : e[1] = "Expose" /\ e[2] = w
  BY DEF Exposed, ToSet
<1>3. \A e \in Event : e = <<e[1], e[2]>> /\ e[2] \in Shell
  BY DEF Event
<1> QED
  BY <1>1, <1>2, <1>3

LEMMA ExposedAreAfter ==
    ASSUME xqueue' \in Seq(Event)
    PROVE  /\ Exposed' \subseteq Shell
           /\ \A w \in Shell : w \in Exposed' <=> <<"Expose", w>> \in ToSet(xqueue')
<1>1. \A e \in ToSet(xqueue') : e \in Event
  BY DEF ToSet
<1>2. \A w : w \in Exposed' <=> \E e \in ToSet(xqueue') : e[1] = "Expose" /\ e[2] = w
  BY DEF Exposed, ToSet
<1>3. \A e \in Event : e = <<e[1], e[2]>> /\ e[2] \in Shell
  BY DEF Event
<1> QED
  BY <1>1, <1>2, <1>3

LEMMA InitIInv == PaintInit => IInv
<1> SUFFICES ASSUME PaintInit PROVE IInv
  OBVIOUS
<1>1. \A p \in Pane \cup {Screen} : zorder[p] = <<>>
  BY DEF PaintInit
<1>2. ToSet(<<>>) = {} /\ IsInjective(<<>>) /\ <<>> \in Seq(Pane) /\ <<>> \in Seq(Event)
  BY DEF ToSet, IsInjective
<1>3. ListsOK
  BY <1>1, <1>2 DEF ListsOK, PaintInit
<1>4. FlagsOK
  BY DEF FlagsOK, PaintInit
<1>5. ServerOK
  BY <1>2 DEF ServerOK, PaintInit
<1>6. MappedChildren /\ ShellsKnown /\ WaitVisible /\ PaintIsDue
  BY DEF MappedChildren, ShellsKnown, WaitVisible, PaintIsDue, PaintInit, Paintable
<1> QED
  BY <1>3, <1>4, <1>5, <1>6, TypesJoined DEF IInv

-----------------------------------------------------------------------------
(* What several actions share. *)

LEMMA SameLists == ASSUME ListsOK, zorder' = zorder PROVE Live' = Live /\ ListsOK'
<1>1. Live' = Live
  BY DEF Live, Exists
<1> QED
  BY <1>1 DEF ListsOK

(* The queue has its flag, and the way down to x is marked.                 *)
WayMarked(x) == QFPAINT /\ Upward(x) \subseteq WFCHILDDIRTY

(* What SetPaintFlags of the windows in S does to those that stay.          *)
LEMMA FlagsSet ==
    ASSUME NEW S \in SUBSET Pane, NEW gone, SetPaintFlags(S, gone), QFPAINT \in BOOLEAN
    PROVE  /\ QFPAINT' \in BOOLEAN
           /\ \A x \in Pane : Upward(x) \cap gone = {} => /\ x \in S => WayMarked(x)'
                                                          /\ WayMarked(x) => WayMarked(x)'
<1>1. QFPAINT' \in BOOLEAN /\ (QFPAINT => QFPAINT') /\ (S # {} => QFPAINT')
  BY DEF SetPaintFlags
<1>2. WFCHILDDIRTY' = (WFCHILDDIRTY \cup Marked(S)) \ gone
  BY DEF SetPaintFlags
<1>3. \A x \in S : Upward(x) \subseteq Marked(S)
  BY DEF Marked
<1>4. ASSUME NEW x \in Pane, Upward(x) \cap gone = {}
      PROVE  (x \in S => WayMarked(x)') /\ (WayMarked(x) => WayMarked(x)')
  BY <1>1, <1>2, <1>3, <1>4 DEF WayMarked, Upward
<1> QED
  BY <1>1, <1>4

LEMMA FlagsSetTyped ==
    ASSUME PaintTypeOK, NEW S \in SUBSET Live, NEW gone, SetPaintFlags(S, gone)
    PROVE  WFDIRTY' \cup WFCHILDDIRTY' \subseteq Live \ gone /\ QFPAINT' \in BOOLEAN
<1>1. Marked(S) \subseteq Live
  BY UpwardLive DEF Marked
<1>2. WFDIRTY \cup WFCHILDDIRTY \subseteq Live /\ QFPAINT \in BOOLEAN
  BY TypesParted DEF FlagsOK
<1> QED
  BY <1>1, <1>2 DEF SetPaintFlags

(* PaintIsDue is kept if every window that can be painted is marked down to  *)
(* or exposed, or could be painted before and has lost neither.             *)
LEMMA DueStep ==
    ASSUME PaintIsDue,
           \A x \in Pane :
              Paintable(x)' => \/ WayMarked(x)' \/ ExposeComes(x)' \/ cut'
                               \/ /\ Paintable(x)
                                  /\ WayMarked(x) => WayMarked(x)' \/ cut'
                                  /\ ExposeComes(x) => ExposeComes(x)'
                                  /\ cut => cut'
    PROVE  PaintIsDue'
BY DEF PaintIsDue, WayMarked

-----------------------------------------------------------------------------
(* One lemma per action or group of actions. *)

LEMMA CreateKeeps == ASSUME IInv, NEW w \in Pane, CreatePane(w) PROVE IInv'
<1> DEFINE p == hWndParent[w]
<1>1. /\ ~Exists(w) /\ (p # Screen => Exists(p)) /\ zorder' = [zorder EXCEPT ![p] = Append(@, w)]
      /\ UNCHANGED <<showvars, cut, WFDIRTY, WFCHILDDIRTY, QFPAINT>>
  BY DEF CreatePane, NoPainting
<1>2. PaintTypeOK /\ ListsOK /\ FlagsOK /\ ServerOK
  BY TypesParted DEF IInv
<1>3. p \in Pane \cup {Screen} /\ IsList(zorder[p]) /\ w \notin ToSet(zorder[p])
  BY <1>1, <1>2, TypeFacts, PaintAssumption DEF Exists
<1>4. IsList(Append(zorder[p], w)) /\ ToSet(Append(zorder[p], w)) = ToSet(zorder[p]) \cup {w}
  BY <1>3, AppendedIsList
<1> DEFINE new == Append(zorder[p], w)
<1> HIDE DEF new
<1>5. zorder' = [zorder EXCEPT ![p] = new] /\ IsList(new) /\ ToSet(new) = ToSet(zorder[p]) \cup {w}
  BY <1>1, <1>4 DEF new
<1>6. \A q \in Pane \cup {Screen} : zorder'[q] = IF q = p THEN new ELSE zorder[q]
  BY <1>2, <1>5 DEF ListsOK
<1>7. Live' = Live \cup {w}
  <2>1. \A x \in Pane : hWndParent[x] \in Pane \cup {Screen}
    BY PaintAssumption
  <2> QED
    BY <1>5, <1>6, <2>1 DEF Live, Exists
<1>8. ListsOK'
  <2>1. zorder' \in [Pane \cup {Screen} -> Seq(Pane)]
    BY <1>2, <1>5 DEF ListsOK, IsList
  <2>2. \A q \in Pane \cup {Screen} :
           /\ IsInjective(zorder'[q]) /\ ToSet(zorder'[q]) \subseteq {x \in Pane : hWndParent[x] = q}
           /\ q \notin Live' \cup {Screen} => zorder'[q] = <<>>
    <3> TAKE q \in Pane \cup {Screen}
    <3>1. CASE q = p
      BY <1>1, <1>2, <1>3, <1>5, <1>6, <1>7, <3>1, PaintAssumption DEF ListsOK, IsList, Live
    <3>2. CASE q # p
      BY <1>2, <1>6, <1>7, <3>2 DEF ListsOK
    <3> QED
      BY <3>1, <3>2
  <2> QED
    BY <2>1, <2>2 DEF ListsOK
<1>9. FlagsOK' /\ ServerOK'
  BY <1>1, <1>2, <1>7 DEF FlagsOK, ServerOK, showvars, flagvars
<1>10. (MappedChildren /\ ShellsKnown /\ WaitVisible /\ PaintIsDue)'
  BY <1>1 DEF IInv, MappedChildren, ShellsKnown, WaitVisible, PaintIsDue, Paintable, Exposed,
              ExposeComes, showvars, flagvars
<1> QED
  BY <1>8, <1>9, <1>10, TypesJoinedAfter DEF IInv

(* A call that invalidates the windows in S, and by which no other becomes  *)
(* visible or mapped.                                                       *)
LEMMA PaintFlagsKeep ==
    ASSUME IInv, NEW S \in SUBSET Live, SetPaintFlags(S, {}),
           UNCHANGED <<zorder, waiting, xwin, xqueue, cut>>,
           WS_VISIBLE' \cup WFMAPPED' \cup WFMAPPINGPENDING' \cup WFVISIBILITY' \subseteq Live,
           WS_VISIBLE' \cap WFMAPPED' \subseteq (WS_VISIBLE \cap WFMAPPED) \cup S
    PROVE  PaintTypeOK' /\ PaintIsDue'
<1>1. PaintTypeOK /\ ListsOK /\ FlagsOK /\ ServerOK /\ S \subseteq Pane
  BY TypesParted DEF IInv, Live
<1>2. Live' = Live /\ ListsOK'
  BY <1>1, SameLists
<1>3. WFDIRTY' \cup WFCHILDDIRTY' \subseteq Live /\ QFPAINT' \in BOOLEAN
  BY <1>1, FlagsSetTyped
<1>4. FlagsOK' /\ ServerOK'
  BY <1>1, <1>2, <1>3 DEF FlagsOK, ServerOK
<1>5. \A x \in Pane : (x \in S => WayMarked(x)') /\ (WayMarked(x) => WayMarked(x)')
  BY <1>1, FlagsSet DEF FlagsOK
<1>6. \A x \in Pane : Paintable(x)' => x \in S \/ Paintable(x)
  BY DEF Paintable, SetPaintFlags
<1>7. \A x \in Pane : ExposeComes(x) => ExposeComes(x)'
  BY DEF ExposeComes, Exposed
<1>8. PaintIsDue'
  BY <1>5, <1>6, <1>7, DueStep DEF IInv
<1> QED
  BY <1>2, <1>4, <1>8, TypesJoinedAfter

LEMMA ShowChildKeeps == ASSUME IInv, NEW w \in Pane, ShowChild(w) PROVE IInv'
<1>1. /\ w \in Live /\ w \notin Shell
      /\ WS_VISIBLE' = WS_VISIBLE \cup {w} /\ WFMAPPED' = WFMAPPED \cup {w}
      /\ WFMAPPINGPENDING' = WFMAPPINGPENDING \ {w} /\ WFVISIBILITY' = WFVISIBILITY \cup {w}
      /\ UNCHANGED <<zorder, waiting, xwin, xqueue, cut>>
  BY DEF ShowChild, Ready, Live
<1>2. PICK S \in {{w}, Branch(w)} : SetPaintFlags(S, {})
  BY DEF ShowChild
<1>3. S \subseteq Live /\ w \in S
  BY <1>1, <1>2, BranchFacts
<1>4. FlagsOK
  BY TypesParted DEF IInv
<1>5. PaintTypeOK' /\ PaintIsDue'
  BY <1>1, <1>2, <1>3, <1>4, PaintFlagsKeep DEF FlagsOK
<1>6. MappedChildren' /\ ShellsKnown' /\ WaitVisible'
  BY <1>1 DEF IInv, MappedChildren, ShellsKnown, WaitVisible, Exposed
<1> QED
  BY <1>5, <1>6 DEF IInv

LEMMA InvalidateKeeps == ASSUME IInv, NEW w \in Pane, Invalidate(w) PROVE IInv'
<1>1. w \in Live /\ UNCHANGED <<zorder, showvars, cut>>
  BY DEF Invalidate, Ready, Live
<1>2. PICK S \in {{w}, Branch(w)} : SetPaintFlags(S, {})
  BY DEF Invalidate
<1>3. S \subseteq Live
  BY <1>1, <1>2, BranchFacts
<1>4. FlagsOK
  BY TypesParted DEF IInv
<1>5. PaintTypeOK' /\ PaintIsDue'
  BY <1>1, <1>2, <1>3, <1>4, PaintFlagsKeep DEF FlagsOK, showvars, flagvars
<1>6. MappedChildren' /\ ShellsKnown' /\ WaitVisible'
  BY <1>1 DEF IInv, MappedChildren, ShellsKnown, WaitVisible, Exposed, showvars, flagvars
<1> QED
  BY <1>5, <1>6 DEF IInv

LEMMA HideChildKeeps == ASSUME IInv, NEW w \in Pane, HideChild(w) PROVE IInv'
<1>1. /\ w \in Live /\ w \notin Shell /\ waiting = NoPane
      /\ WS_VISIBLE' = WS_VISIBLE \ {w} /\ WFMAPPED' = WFMAPPED \ {w}
      /\ WFMAPPINGPENDING' = WFMAPPINGPENDING \ {w} /\ WFVISIBILITY' = WFVISIBILITY \ {w}
      /\ UNCHANGED <<zorder, waiting, xwin, xqueue, cut>>
  BY DEF HideChild, Ready, Live, Unflagged
<1>2. PICK S \in HiddenArea(w) : SetPaintFlags(S, {})
  BY DEF HideChild
<1>3. S \subseteq Live
  BY <1>1, <1>2, UpwardLive DEF IInv, HiddenArea, Branch, Live
<1>4. FlagsOK
  BY TypesParted DEF IInv
<1>5. PaintTypeOK' /\ PaintIsDue'
  BY <1>1, <1>2, <1>3, <1>4, PaintFlagsKeep DEF FlagsOK
<1>6. MappedChildren' /\ ShellsKnown' /\ WaitVisible'
  BY <1>1 DEF IInv, MappedChildren, ShellsKnown, WaitVisible, Exposed
<1> QED
  BY <1>5, <1>6 DEF IInv

(* BeginPaint, UpdateWindow and its end only make fewer windows paintable.  *)
LEMMA PaintingKeeps ==
    ASSUME IInv, NEW w \in Pane, BeginPaint(w) \/ UpdateWindow(w) \/ Updated(w)
    PROVE  IInv'
<1>1. /\ WFDIRTY' \subseteq WFDIRTY
      /\ UNCHANGED <<zorder, WS_VISIBLE, WFMAPPED, WFMAPPINGPENDING, WFVISIBILITY, xwin, xqueue,
                     WFCHILDDIRTY, QFPAINT, cut>>
  BY DEF BeginPaint, UpdateWindow, Updated, NoPainting, showvars, flagvars
<1>2. \/ waiting' \in {waiting, NoPane}
      \/ waiting' = <<"update", w>> /\ w \in Live /\ w \in WS_VISIBLE
  BY DEF BeginPaint, UpdateWindow, Updated, Ready, Live, IsWindowVisible, showvars
<1>3. PaintTypeOK /\ ListsOK /\ FlagsOK /\ ServerOK
  BY TypesParted DEF IInv
<1>4. Live' = Live /\ ListsOK'
  BY <1>1, <1>3, SameLists
<1>5. waiting' # NoPane => waiting' \in ({"show"} \X (Live \cap Shell)) \cup ({"update"} \X Live)
  BY <1>2, <1>3 DEF FlagsOK
<1>6. FlagsOK' /\ ServerOK'
  BY <1>1, <1>3, <1>4, <1>5 DEF FlagsOK, ServerOK
<1>7. MappedChildren' /\ ShellsKnown'
  BY <1>1 DEF IInv, MappedChildren, ShellsKnown, Exposed
<1>8. WaitVisible'
  BY <1>1, <1>2 DEF IInv, WaitVisible
<1>9. PaintIsDue'
  BY <1>1 DEF IInv, PaintIsDue, Paintable, ExposeComes, Exposed
<1> QED
  BY <1>4, <1>6, <1>7, <1>8, <1>9, TypesJoinedAfter DEF IInv

LEMMA GetPaintMessageKeeps == ASSUME IInv, GetPaintMessage PROVE IInv'
<1>1. /\ QFPAINT /\ WFCHILDDIRTY' = Found.marks /\ QFPAINT' = (Found.at # NoPane)
      /\ cut' = (cut \/ Found.stuck) /\ UNCHANGED <<zorder, showvars, WFDIRTY>>
  BY DEF GetPaintMessage
<1>2. PaintTypeOK /\ ListsOK /\ FlagsOK /\ ServerOK
  BY TypesParted DEF IInv
<1>3. /\ Found.marks \subseteq WFCHILDDIRTY /\ Found.stuck \in BOOLEAN
      /\ ~Found.stuck => /\ \A x \in Due : Upward(x) \subseteq Found.marks
                         /\ Found.at = NoPane => Due = {}
  BY <1>2, FoundFacts
<1>4. Live' = Live /\ ListsOK'
  BY <1>1, <1>2, SameLists
<1>5. FlagsOK' /\ ServerOK'
  <2>1. QFPAINT' \in BOOLEAN /\ cut' \in BOOLEAN
    BY <1>1, <1>2, <1>3 DEF FlagsOK
  <2>2. WFCHILDDIRTY' \subseteq Live
    BY <1>1, <1>2, <1>3 DEF FlagsOK
  <2> QED
    BY <1>1, <1>2, <1>4, <2>1, <2>2 DEF FlagsOK, ServerOK, showvars, flagvars
<1>6. MappedChildren' /\ ShellsKnown' /\ WaitVisible'
  BY <1>1 DEF IInv, MappedChildren, ShellsKnown, WaitVisible, Exposed, showvars, flagvars
<1>7. PaintIsDue'
  <2>1. \A x \in Pane : Paintable(x)' = Paintable(x) /\ (ExposeComes(x) => ExposeComes(x)')
    BY <1>1 DEF Paintable, ExposeComes, Exposed, showvars, flagvars
  <2>2. cut => cut'
    BY <1>1
  <2>3. ASSUME NEW x \in Pane, Paintable(x), WayMarked(x), ~cut' PROVE WayMarked(x)'
    <3>1. x \in Due
      BY <1>2, <2>3 DEF Due, WayMarked, Paintable, FlagsOK
    <3>2. ~Found.stuck
      BY <1>1, <2>3
    <3>3. Found.at # NoPane /\ Upward(x) \subseteq Found.marks
      BY <1>3, <3>1, <3>2
    <3> QED
      BY <1>1, <3>3 DEF WayMarked, Upward
  <2> QED
    BY <2>1, <2>2, <2>3, DueStep DEF IInv
<1> QED
  BY <1>4, <1>5, <1>6, <1>7, TypesJoinedAfter DEF IInv

LEMMA NewEvents ==
    ASSUME NEW w \in Shell, xqueue \in Seq(Event), NEW events \in Seq({"clear", "obscured", "Expose"})
    PROVE  LET new == [i \in DOMAIN events |-> <<events[i], w>>]
           IN /\ xqueue \o new \in Seq(Event)
              /\ ToSet(xqueue \o new) = ToSet(xqueue) \cup {<<t, w>> : t \in ToSet(events)}
<1> DEFINE new == [i \in DOMAIN events |-> <<events[i], w>>]
<1>1. Len(events) \in Nat /\ DOMAIN events = 1..Len(events)
  OBVIOUS
<1>2. \A i \in DOMAIN events : <<events[i], w>> \in Event
  BY DEF Event
<1>3. new \in [1..Len(events) -> Event]
  BY <1>1, <1>2
<1>4. new \in Seq(Event)
  BY <1>1, <1>3, FcnIsSeq
<1>5. ToSet(new) = {<<t, w>> : t \in ToSet(events)}
  BY DEF ToSet
<1> HIDE DEF new
<1>6. xqueue \o new \in Seq(Event) /\ ToSet(xqueue \o new) = ToSet(xqueue) \cup ToSet(new)
  BY <1>4, ToSetConcat
<1> QED
  BY <1>5, <1>6 DEF new

(* What the server sends of a window that is mapped.                        *)
LEMMA ServeKeeps ==
    ASSUME IInv, NEW w \in Shell, NEW state \in {"shown", "covered"},
           NEW events \in Seq({"clear", "obscured", "Expose"}),
           state = "shown" => "Expose" \in ToSet(events),
           xwin[w] # "unmapped", Serve(w, state, events)
    PROVE  IInv'
<1> DEFINE sent == {<<t, w>> : t \in ToSet(events)}
<1>1. /\ xwin' = [xwin EXCEPT ![w] = state]
      /\ xqueue' = xqueue \o [i \in DOMAIN events |-> <<events[i], w>>]
      /\ UNCHANGED <<zorder, flagvars, waiting, cut, WFDIRTY, WFCHILDDIRTY, QFPAINT>>
  BY DEF Serve, NoPainting
<1>2. PaintTypeOK /\ ListsOK /\ FlagsOK /\ ServerOK
  BY TypesParted DEF IInv
<1>3. xqueue' \in Seq(Event) /\ ToSet(xqueue') = ToSet(xqueue) \cup sent
  BY <1>1, <1>2, NewEvents DEF ServerOK
<1>4. w \in Live /\ xwin'[w] = state /\ \A x \in Shell : x # w => xwin'[x] = xwin[x]
  BY <1>1, <1>2 DEF ServerOK
<1>5. Live' = Live /\ ListsOK'
  BY <1>1, <1>2, SameLists
<1>6. FlagsOK'
  BY <1>1, <1>2, <1>5 DEF FlagsOK, flagvars
<1>7. ServerOK'
  <2>1. xwin' \in [Shell -> {"unmapped", "asked", "shown", "covered"}]
    BY <1>1, <1>2 DEF ServerOK
  <2>2. \A x \in Shell \ Live : x # w /\ xwin'[x] = "unmapped"
    BY <1>2, <1>4 DEF ServerOK
  <2>3. \A e \in sent : e[2] = w
    OBVIOUS
  <2>4. \A e \in ToSet(xqueue') : e[2] \in Live
    BY <1>2, <1>3, <1>4, <2>3 DEF ServerOK
  <2> QED
    BY <1>3, <1>5, <2>1, <2>2, <2>4 DEF ServerOK
<1>8. Exposed \subseteq Exposed' /\ (state = "shown" => w \in Exposed')
  BY <1>2, <1>3, ExposedAre, ExposedAreAfter DEF ServerOK
<1>9. MappedChildren' /\ WaitVisible'
  BY <1>1 DEF IInv, MappedChildren, WaitVisible, flagvars
<1>10. ShellsKnown'
  BY <1>1, <1>4, <1>8 DEF IInv, ShellsKnown, flagvars
<1>11. PaintIsDue'
  <2>1. \A x \in Pane : Paintable(x)' = Paintable(x) /\ (WayMarked(x) => WayMarked(x)') /\ (cut => cut')
    BY <1>1 DEF Paintable, WayMarked, Upward, flagvars
  <2>2. \A x \in Pane : ExposeComes(x) => ExposeComes(x)'
    BY <1>4, <1>8 DEF ExposeComes
  <2> QED
    BY <2>1, <2>2, DueStep DEF IInv
<1> QED
  BY <1>5, <1>6, <1>7, <1>9, <1>10, <1>11, TypesJoinedAfter DEF IInv

LEMMA ServerKeeps ==
    ASSUME IInv, NEW w \in Shell,
           ServerMaps(w) \/ ServerMapsCovered(w) \/ Cover(w) \/ Uncover(w) \/ Damage(w)
    PROVE  IInv'
<1> DEFINE Kind == {"clear", "obscured", "Expose"}
<1>1. /\ <<"clear", "Expose">> \in Seq(Kind) /\ "Expose" \in ToSet(<<"clear", "Expose">>)
      /\ <<"obscured">> \in Seq(Kind)
      /\ <<"Expose">> \in Seq(Kind) /\ "Expose" \in ToSet(<<"Expose">>)
  BY DEF ToSet
<1>2. CASE ServerMaps(w)
  BY <1>1, <1>2, ServeKeeps DEF ServerMaps
<1>3. CASE ServerMapsCovered(w)
  BY <1>1, <1>3, ServeKeeps DEF ServerMapsCovered
<1>4. CASE Cover(w)
  BY <1>1, <1>4, ServeKeeps DEF Cover
<1>5. CASE Uncover(w)
  BY <1>1, <1>5, ServeKeeps DEF Uncover
<1>6. CASE Damage(w)
  BY <1>1, <1>6, ServeKeeps DEF Damage
<1> QED
  BY <1>2, <1>3, <1>4, <1>5, <1>6

LEMMA ShowShellKeeps == ASSUME IInv, NEW w \in Pane, ShowShell(w) PROVE IInv'
<1>1. /\ w \in Live /\ w \in Shell
      /\ WS_VISIBLE' = WS_VISIBLE \cup {w} /\ WFMAPPED' = WFMAPPED
      /\ WFMAPPINGPENDING' = WFMAPPINGPENDING \cup {w} /\ WFVISIBILITY' = WFVISIBILITY \cup {w}
      /\ waiting' = <<"show", w>>
      /\ UNCHANGED <<zorder, cut, WFDIRTY, WFCHILDDIRTY, QFPAINT>>
  BY DEF ShowShell, Ready, Live, NoPainting
<1>2. PaintTypeOK /\ ListsOK /\ FlagsOK /\ ServerOK /\ ShellsKnown
  BY TypesParted DEF IInv
<1>3. Live' = Live /\ ListsOK'
  BY <1>1, <1>2, SameLists
<1>4. FlagsOK'
  BY <1>1, <1>2, <1>3 DEF FlagsOK
<1>5. /\ xwin' \in [Shell -> {"unmapped", "asked", "shown", "covered"}]
      /\ xqueue' \in Seq(Event) /\ \A e \in ToSet(xqueue') : e \in ToSet(xqueue) \/ e[2] = w
      /\ Exposed \subseteq Exposed'
      /\ \A x \in Shell : x # w => xwin'[x] = xwin[x]
      /\ \/ xwin'[w] = "asked" /\ xwin[w] \in {"asked", "unmapped"}
         \/ xwin'[w] = "shown" /\ xwin[w] = "covered" /\ w \in Exposed'
         \/ xwin'[w] = "shown" /\ xwin[w] = "shown"
  <2>1. CASE xwin[w] = "covered"
    <3>1. /\ xwin' = [xwin EXCEPT ![w] = "shown"]
          /\ xqueue' = xqueue \o <<<<"clear", w>>, <<"Expose", w>>>>
      BY <2>1 DEF ShowShell
    <3> DEFINE q == <<<<"clear", w>>, <<"Expose", w>>>>
    <3>2. q \in Seq(Event) /\ ToSet(q) = {<<"clear", w>>, <<"Expose", w>>}
      BY <1>1 DEF Event, ToSet
    <3> HIDE DEF q
    <3>3. xqueue \o q \in Seq(Event) /\ ToSet(xqueue \o q) = ToSet(xqueue) \cup ToSet(q)
      BY <1>2, <3>2, ToSetConcat DEF ServerOK
    <3>4. xqueue' \in Seq(Event) /\ ToSet(xqueue') = ToSet(xqueue) \cup {<<"clear", w>>, <<"Expose", w>>}
      BY <3>1, <3>2, <3>3 DEF q
    <3>5. Exposed \subseteq Exposed' /\ w \in Exposed'
      BY <1>1, <1>2, <3>4, ExposedAre, ExposedAreAfter DEF ServerOK
    <3>6. \A e \in ToSet(xqueue') : e \in ToSet(xqueue) \/ e[2] = w
      BY <3>4
    <3>7. /\ xwin' \in [Shell -> {"unmapped", "asked", "shown", "covered"}]
          /\ xwin'[w] = "shown" /\ \A x \in Shell : x # w => xwin'[x] = xwin[x]
      BY <1>1, <1>2, <3>1 DEF ServerOK
    <3> QED
      BY <2>1, <3>4, <3>5, <3>6, <3>7
  <2>2. CASE xwin[w] # "covered"
    <3>1. xqueue' = xqueue /\ xwin' = [xwin EXCEPT ![w] = IF xwin[w] = "shown" THEN xwin[w] ELSE "asked"]
      BY <2>2 DEF ShowShell
    <3>2. Exposed' = Exposed
      BY <3>1 DEF Exposed
    <3>3. xwin[w] \in {"asked", "unmapped", "shown"}
      BY <1>1, <1>2, <2>2 DEF ServerOK
    <3> QED
      BY <1>1, <1>2, <3>1, <3>2, <3>3 DEF ServerOK
  <2> QED
    BY <2>1, <2>2
<1>6. ServerOK'
  BY <1>1, <1>2, <1>3, <1>5 DEF ServerOK
<1>7. MappedChildren' /\ WaitVisible'
  BY <1>1 DEF IInv, MappedChildren, WaitVisible
<1>8. ShellsKnown'
  BY <1>1, <1>2, <1>5 DEF ShellsKnown
<1>9. PaintIsDue'
  <2>1. \A x \in Pane : Paintable(x)' => Paintable(x) \/ (x = w /\ w \notin WS_VISIBLE)
    BY <1>1 DEF Paintable
  <2>2. w \notin WS_VISIBLE => ExposeComes(w)'
    BY <1>1, <1>2, <1>5 DEF ShellsKnown, ExposeComes
  <2>3. \A x \in Pane : ExposeComes(x) => ExposeComes(x)'
    BY <1>5 DEF ExposeComes
  <2>4. \A x \in Pane : (WayMarked(x) => WayMarked(x)') /\ (cut => cut')
    BY <1>1 DEF WayMarked, Upward
  <2> QED
    BY <2>1, <2>2, <2>3, <2>4, DueStep DEF IInv
<1> QED
  BY <1>3, <1>4, <1>6, <1>7, <1>8, <1>9, TypesJoinedAfter DEF IInv

LEMMA ShownKeeps == ASSUME IInv, NEW w \in Pane, Shown(w) PROVE IInv'
<1>1. /\ waiting = <<"show", w>> /\ waiting' = NoPane
      /\ zorder' = [zorder EXCEPT ![Screen] = <<w>> \o Unlinked(zorder[Screen], w)]
      /\ UNCHANGED <<flagvars, xwin, xqueue, cut, WFDIRTY, WFCHILDDIRTY, QFPAINT>>
  BY DEF Shown, NoPainting
<1>2. PaintTypeOK /\ ListsOK /\ FlagsOK /\ ServerOK
  BY TypesParted DEF IInv
<1>3. w \in Live /\ w \in Shell
  <2>1. <<"show", w>> # NoPane => w \in Live /\ w \in Shell
    BY <1>1, <1>2 DEF FlagsOK
  <2>2. waiting # NoPane
    BY <1>1, PaintAssumption
  <2> QED
    BY <1>1, <2>1, <2>2
<1>4. IsList(zorder[Screen]) /\ w \in ToSet(zorder[Screen])
  BY <1>2, <1>3, TypeFacts DEF Shell
<1> DEFINE new == <<w>> \o Unlinked(zorder[Screen], w)
<1>5. IsList(new) /\ ToSet(new) = ToSet(zorder[Screen])
  <2>1. /\ IsList(Unlinked(zorder[Screen], w))
        /\ ToSet(Unlinked(zorder[Screen], w)) = ToSet(zorder[Screen]) \ {w}
    BY <1>4, UnlinkedIsList
  <2> QED
    BY <1>4, <2>1, PushedIsList
<1> HIDE DEF new
<1>6. \A q \in Pane \cup {Screen} : zorder'[q] = IF q = Screen THEN new ELSE zorder[q]
  BY <1>1, <1>2 DEF new, ListsOK
<1>7. Live' = Live
  <2>1. \A x \in Pane : hWndParent[x] \in Pane \cup {Screen}
    BY PaintAssumption
  <2> QED
    BY <1>5, <1>6, <2>1 DEF Live, Exists
<1>8. ListsOK'
  <2>1. zorder' \in [Pane \cup {Screen} -> Seq(Pane)]
    BY <1>1, <1>2, <1>5 DEF ListsOK, IsList, new
  <2> QED
    BY <1>2, <1>5, <1>6, <1>7, <2>1 DEF ListsOK, IsList
<1>9. FlagsOK' /\ ServerOK'
  BY <1>1, <1>2, <1>7 DEF FlagsOK, ServerOK, flagvars
<1>10. (MappedChildren /\ ShellsKnown /\ WaitVisible /\ PaintIsDue)'
  BY <1>1 DEF IInv, MappedChildren, ShellsKnown, WaitVisible, PaintIsDue, Paintable, Exposed,
              ExposeComes, flagvars
<1> QED
  BY <1>8, <1>9, <1>10, TypesJoinedAfter DEF IInv

LEMMA HideShellKeeps == ASSUME IInv, NEW w \in Pane, HideShell(w) PROVE IInv'
<1>1. /\ w \in Live /\ w \in Shell /\ waiting = NoPane
      /\ WS_VISIBLE' = WS_VISIBLE \ {w} /\ WFMAPPED' = WFMAPPED \ {w}
      /\ WFMAPPINGPENDING' = WFMAPPINGPENDING \ {w} /\ WFVISIBILITY' = WFVISIBILITY \ {w}
      /\ xwin' = [xwin EXCEPT ![w] = "unmapped"]
      /\ UNCHANGED <<zorder, waiting, xqueue, cut, WFDIRTY, WFCHILDDIRTY, QFPAINT>>
  BY DEF HideShell, Ready, Live, Unflagged, NoPainting
<1>2. PaintTypeOK /\ ListsOK /\ FlagsOK /\ ServerOK
  BY TypesParted DEF IInv
<1>3. Live' = Live /\ ListsOK'
  BY <1>1, <1>2, SameLists
<1>4. FlagsOK'
  BY <1>1, <1>2, <1>3 DEF FlagsOK
<1>5. ServerOK'
  BY <1>1, <1>2, <1>3 DEF ServerOK
<1>6. Exposed' = Exposed /\ xwin'[w] = "unmapped" /\ \A x \in Shell : x # w => xwin'[x] = xwin[x]
  BY <1>1, <1>2 DEF Exposed, ServerOK
<1>7. MappedChildren' /\ WaitVisible'
  BY <1>1 DEF IInv, MappedChildren, WaitVisible
<1>8. ShellsKnown'
  BY <1>1, <1>6 DEF IInv, ShellsKnown
<1>9. PaintIsDue'
  <2>1. \A x \in Pane : Paintable(x)' => Paintable(x) /\ x # w
    BY <1>1 DEF Paintable
  <2>2. \A x \in Pane : x # w /\ ExposeComes(x) => ExposeComes(x)'
    BY <1>6 DEF ExposeComes
  <2>3. \A x \in Pane : (WayMarked(x) => WayMarked(x)') /\ (cut => cut')
    BY <1>1 DEF WayMarked, Upward
  <2> QED
    BY <2>1, <2>2, <2>3, DueStep DEF IInv
<1> QED
  BY <1>3, <1>4, <1>5, <1>7, <1>8, <1>9, TypesJoinedAfter DEF IInv

(* The windows of a branch leave the lists, and take their flags and their   *)
(* events with them; the others keep theirs.                                *)
LEMMA DestroyKeeps == ASSUME IInv, NEW w \in Pane, DestroyPane(w) PROVE IInv'
<1> DEFINE G == Branch(w)
           D == {e \in Event : e[2] = w}
<1>1. /\ w \in Live /\ waiting = NoPane
      /\ zorder' = [q \in DOMAIN zorder |->
                       IF q \in G THEN <<>>
                       ELSE IF q = hWndParent[w] THEN Unlinked(zorder[q], w) ELSE zorder[q]]
      /\ WS_VISIBLE' = WS_VISIBLE \ G /\ WFMAPPED' = WFMAPPED \ G
      /\ WFMAPPINGPENDING' = WFMAPPINGPENDING \ G /\ WFVISIBILITY' = WFVISIBILITY \ G
      /\ xwin' = [x \in Shell |-> IF x = w THEN "unmapped" ELSE xwin[x]]
      /\ xqueue' = EventsBut(D)
      /\ UNCHANGED <<waiting, cut>>
  BY DEF DestroyPane, Ready, Live, Unflagged, Gone
<1>2. PICK S \in IF w \in WS_VISIBLE \ Shell THEN HiddenArea(w) ELSE {{}} : SetPaintFlags(S, G)
  BY DEF DestroyPane, Gone
<1>3. PaintTypeOK /\ ListsOK /\ FlagsOK /\ ServerOK
  BY TypesParted DEF IInv
<1>4. /\ G \subseteq Live /\ w \in G
      /\ \A x \in Live : x \notin G => Upward(x) \cap G = {}
      /\ \A x \in G \cap Shell : x = w
  BY <1>1, BranchFacts
<1>5. Live \subseteq Pane /\ S \subseteq Live
  <2>1. Live \subseteq Pane /\ \A x \in Pane : Branch(x) \subseteq Live
    BY DEF Live, Branch
  <2>2. Upward(w) \subseteq Live
    BY <1>1, <1>3, UpwardLive
  <2> QED
    BY <1>2, <2>1, <2>2 DEF HiddenArea, Branch, Live
<1> HIDE DEF G
<1>6. /\ DOMAIN zorder = Pane \cup {Screen}
      /\ \A q \in Pane \cup {Screen} : IsList(zorder[q])
      /\ \A q \in Pane \cup {Screen} : \A x \in ToSet(zorder[q]) : x \in Live /\ hWndParent[x] = q
      /\ w \in ToSet(zorder[hWndParent[w]])
      /\ hWndParent[w] \in Live \cup {Screen}
  BY <1>1, <1>3, TypeFacts
<1> DEFINE p == hWndParent[w]
           new == Unlinked(zorder[p], w)
<1>7. p \in Pane \cup {Screen} /\ p \notin G /\ IsList(new) /\ ToSet(new) = ToSet(zorder[p]) \ {w}
  <2>1. p \in Pane \cup {Screen}
    BY <1>5, <1>6
  <2>2. p \notin G
    <3>1. ASSUME p \in G PROVE FALSE
      <4>1. p \in Pane /\ (p = w \/ w \in Upward(p))
        BY <1>4, <1>5, <3>1 DEF G, Branch
      <4>2. p \in Upward(w)
        BY <4>1, UpwardOfChild, PaintAssumption
      <4>3. w \in Upward(w)
        BY <4>1, <4>2, UpwardTransitive
      <4> QED
        BY <4>3, TreeAssumption
    <3> QED
      BY <3>1
  <2> QED
    BY <1>6, <2>1, <2>2, UnlinkedIsList
<1> HIDE DEF new
<1>8. \A q \in Pane \cup {Screen} :
         zorder'[q] = IF q \in G THEN <<>> ELSE IF q = p THEN new ELSE zorder[q]
  BY <1>1, <1>6 DEF new
<1>9. Live' = Live \ G
  <2>1. ASSUME NEW x \in Pane PROVE x \in Live' <=> x \in Live /\ x \notin G
    <3>1. hWndParent[x] \in Pane \cup {Screen} /\ (x \in Live' <=> x \in ToSet(zorder'[hWndParent[x]]))
          /\ (x \in Live <=> x \in ToSet(zorder[hWndParent[x]]))
      BY PaintAssumption DEF Live, Exists
    <3>2. CASE hWndParent[x] \in G
      <4>1. x \notin ToSet(zorder'[hWndParent[x]])
        BY <1>8, <3>1, <3>2 DEF ToSet
      <4>2. hWndParent[x] \in Upward(x)
        BY <1>4, <1>5, <3>2, UpwardOfChild, PaintAssumption
      <4> QED
        BY <1>4, <3>1, <3>2, <4>1, <4>2
    <3>3. CASE hWndParent[x] \notin G
      <4>1. x \in G => x = w
        <5>1. ASSUME x \in G, x # w PROVE FALSE
          <6>1. w \in Upward(x)
            BY <5>1 DEF G, Branch
          <6>2. hWndParent[x] # Screen /\ w \in {hWndParent[x]} \cup Upward(hWndParent[x])
            BY <6>1, UpwardOfChild
          <6>3. hWndParent[x] \in Live
            BY <1>3, <1>4, <5>1, <6>2, TypeFacts
          <6> QED
            BY <1>1, <3>3, <6>2, <6>3 DEF G, Branch, Live
        <5> QED
          BY <5>1
      <4> QED
        BY <1>4, <1>7, <1>8, <3>1, <3>3, <4>1
    <3> QED
      BY <3>2, <3>3
  <2> QED
    BY <2>1 DEF Live
<1>10. ListsOK'
  <2>1. \A q \in Pane \cup {Screen} : IsList(zorder'[q])
    <3>1. IsList(<<>>)
      BY DEF IsList, IsInjective
    <3> QED
      BY <1>6, <1>7, <1>8, <3>1
  <2>2. DOMAIN zorder' = Pane \cup {Screen} /\ zorder' = [q \in DOMAIN zorder' |-> zorder'[q]]
    BY <1>1, <1>6
  <2>3. zorder' \in [Pane \cup {Screen} -> Seq(Pane)]
    BY <2>1, <2>2 DEF IsList
  <2>4. ASSUME NEW q \in Pane \cup {Screen}
        PROVE  /\ ToSet(zorder'[q]) \subseteq {x \in Pane : hWndParent[x] = q}
               /\ q \notin Live' \cup {Screen} => zorder'[q] = <<>>
    <3>1. ToSet(<<>>) = {}
      BY DEF ToSet
    <3>2. ToSet(zorder'[q]) \subseteq ToSet(zorder[q])
      BY <1>7, <1>8, <3>1
    <3>3. q \notin Live' \cup {Screen} => zorder'[q] = <<>>
      BY <1>3, <1>6, <1>8, <1>9 DEF ListsOK
    <3> QED
      BY <1>3, <3>2, <3>3 DEF ListsOK
  <2> QED
    BY <2>1, <2>3, <2>4 DEF ListsOK, IsList
<1>11. FlagsOK'
  <2>1. WFDIRTY' \cup WFCHILDDIRTY' \subseteq Live \ G /\ QFPAINT' \in BOOLEAN
    BY <1>2, <1>3, <1>5, FlagsSetTyped
  <2> QED
    BY <1>1, <1>3, <1>9, <2>1 DEF FlagsOK
<1>12. xqueue' \in Seq(Event) /\ ToSet(xqueue') = ToSet(xqueue) \ D
  BY <1>1, <1>3, EventsButThose DEF ServerOK
<1>13. \A e \in ToSet(xqueue) : e \in Event
  BY <1>3 DEF ServerOK, ToSet
<1>14. ServerOK'
  <2>1. \A e \in ToSet(xqueue') : e[2] \in Live \ G
    <3>1. \A e \in Event : e[2] \in Shell
      BY DEF Event
    <3>2. \A e \in ToSet(xqueue') : e[2] \in Live /\ e[2] \in Shell /\ e[2] # w
      BY <1>3, <1>12, <1>13, <3>1 DEF ServerOK
    <3> QED
      BY <1>4, <3>2
  <2>2. xwin' \in [Shell -> {"unmapped", "asked", "shown", "covered"}]
    BY <1>1, <1>3 DEF ServerOK
  <2>3. \A x \in Shell \ Live' : xwin'[x] = "unmapped"
    BY <1>1, <1>3, <1>4, <1>9 DEF ServerOK
  <2> QED
    BY <1>9, <1>12, <2>1, <2>2, <2>3 DEF ServerOK
<1>15. \A x \in Shell : x # w /\ x \in Exposed => x \in Exposed'
  <2>1. \A x \in Shell : x # w => <<"Expose", x>> \notin D
    OBVIOUS
  <2> QED
    BY <1>3, <1>12, <2>1, ExposedAre, ExposedAreAfter DEF ServerOK
<1>16. MappedChildren' /\ WaitVisible'
  BY <1>1 DEF IInv, MappedChildren, WaitVisible
<1>17. ShellsKnown'
  <2>1. ASSUME NEW x \in Shell
        PROVE  /\ x \in WS_VISIBLE' <=> xwin'[x] # "unmapped"
               /\ xwin'[x] = "shown" => x \in WFMAPPED' \cup Exposed'
    BY <1>1, <1>4, <1>15 DEF IInv, ShellsKnown
  <2> QED
    BY <2>1 DEF ShellsKnown
<1>18. PaintIsDue'
  <2>1. ASSUME NEW x \in Pane, Paintable(x)'
        PROVE  /\ x \in S \/ Paintable(x)
               /\ x \in Live /\ x \notin G
    BY <1>1, <1>2, <1>3, <1>5, <2>1 DEF Paintable, SetPaintFlags, FlagsOK
  <2>2. ASSUME NEW x \in Pane, Upward(x) \cap G = {}
        PROVE  (x \in S => WayMarked(x)') /\ (WayMarked(x) => WayMarked(x)')
    BY <1>2, <1>3, <1>5, <2>2, FlagsSet DEF FlagsOK
  <2>3. \A x \in Pane : x # w /\ ExposeComes(x) => ExposeComes(x)'
    BY <1>1, <1>3, <1>15, ExposedAre DEF ExposeComes, ServerOK
  <2>4. \A x \in Pane : Paintable(x)' => /\ x \in S \/ Paintable(x)
                                         /\ x # w /\ Upward(x) \cap G = {}
    BY <1>4, <2>1
  <2>5. cut => cut'
    BY <1>1
  <2>6. ASSUME NEW x \in Pane, Paintable(x)'
        PROVE  \/ WayMarked(x)'
               \/ /\ Paintable(x)
                  /\ WayMarked(x) => WayMarked(x)'
                  /\ ExposeComes(x) => ExposeComes(x)'
    <3>1. (x \in S \/ Paintable(x)) /\ x # w /\ Upward(x) \cap G = {}
      BY <2>4, <2>6
    <3>2. (x \in S => WayMarked(x)') /\ (WayMarked(x) => WayMarked(x)')
      BY <2>2, <3>1
    <3>3. ExposeComes(x) => ExposeComes(x)'
      BY <2>3, <3>1
    <3> QED
      BY <3>1, <3>2, <3>3
  <2> QED
    BY <2>5, <2>6, DueStep DEF IInv
<1> QED
  BY <1>10, <1>11, <1>14, <1>16, <1>17, <1>18, TypesJoinedAfter DEF IInv

LEMMA VisibilityNotifyKeeps == ASSUME IInv, VisibilityNotify PROVE IInv'
<1> DEFINE e == Head(xqueue)
<1>1. /\ xqueue # <<>> /\ e[1] # "Expose" /\ xqueue' = Tail(xqueue)
      /\ WFVISIBILITY' = WFVISIBILITY \cup {e[2]} \/ WFVISIBILITY' = WFVISIBILITY \ {e[2]}
      /\ UNCHANGED <<zorder, WS_VISIBLE, WFMAPPED, WFMAPPINGPENDING, waiting, xwin, cut,
                     WFDIRTY, WFCHILDDIRTY, QFPAINT>>
  BY DEF VisibilityNotify, NoPainting
<1>2. PaintTypeOK /\ ListsOK /\ FlagsOK /\ ServerOK
  BY TypesParted DEF IInv
<1>3. Live' = Live /\ ListsOK'
  BY <1>1, <1>2, SameLists
<1>4. xqueue' \in Seq(Event) /\ ToSet(xqueue) = {e} \cup ToSet(xqueue') /\ e \in ToSet(xqueue)
  <2>1. xqueue \in Seq(Event) /\ DOMAIN xqueue = 1..Len(xqueue)
    BY <1>2 DEF ServerOK
  <2>2. PICK n \in Nat : Len(xqueue) = n
    <3>1. Len(xqueue) \in Nat
      BY <2>1
    <3> QED
      BY <3>1
  <2>3. n > 0 /\ e = xqueue[1]
    BY <1>1, <2>1, <2>2
  <2>4. /\ Tail(xqueue) \in Seq(Event) /\ Len(Tail(xqueue)) = n - 1
        /\ \A i \in 1..(n - 1) : Tail(xqueue)[i] = xqueue[i + 1]
    BY <1>1, <2>1, <2>2
  <2> HIDE DEF e
  <2>5. DOMAIN xqueue' = 1..(n - 1) /\ \A i \in 1..(n - 1) : xqueue'[i] = xqueue[i + 1]
    BY <1>1, <2>2, <2>3, <2>4
  <2>6. ASSUME NEW i \in 1..n PROVE xqueue[i] \in {e} \cup ToSet(xqueue')
    <3>1. CASE i = 1
      BY <2>3, <3>1
    <3>2. CASE i # 1
      <4>1. i - 1 \in 1..(n - 1) /\ xqueue'[i - 1] = xqueue[i]
        BY <2>3, <2>5, <3>2
      <4> QED
        BY <2>5, <4>1 DEF ToSet
    <3> QED
      BY <3>1, <3>2
  <2>7. \A i \in 1..(n - 1) : i + 1 \in 1..n
    BY <2>3
  <2>8. ToSet(xqueue) = {xqueue[i] : i \in 1..n} /\ ToSet(xqueue') = {xqueue'[i] : i \in 1..(n - 1)}
    BY <2>1, <2>2, <2>5 DEF ToSet
  <2> QED
    BY <1>1, <2>3, <2>4, <2>5, <2>6, <2>7, <2>8
<1>5. FlagsOK'
  BY <1>1, <1>2, <1>3, <1>4 DEF FlagsOK, ServerOK
<1>6. ServerOK'
  BY <1>1, <1>2, <1>3, <1>4 DEF ServerOK
<1>7. Exposed' = Exposed
  <2>1. \A x \in Shell : <<"Expose", x>> # e
    BY <1>1
  <2> QED
    BY <1>2, <1>4, <2>1, ExposedAre, ExposedAreAfter DEF ServerOK
<1>8. MappedChildren' /\ ShellsKnown' /\ WaitVisible'
  BY <1>1, <1>7 DEF IInv, MappedChildren, ShellsKnown, WaitVisible
<1>9. PaintIsDue'
  BY <1>1, <1>7 DEF IInv, PaintIsDue, Paintable, ExposeComes
<1> QED
  BY <1>3, <1>5, <1>6, <1>8, <1>9, TypesJoinedAfter DEF IInv

LEMMA ExposeKeeps == ASSUME IInv, Expose PROVE IInv'
<1> DEFINE D == {e \in Event : e[1] = "Expose"}
<1>1. /\ xqueue' = EventsBut(D)
      /\ WFMAPPED' = WFMAPPED \cup Exposed /\ WFMAPPINGPENDING' = WFMAPPINGPENDING \ Exposed
      /\ UNCHANGED <<zorder, WS_VISIBLE, WFVISIBILITY, waiting, xwin, cut>>
  BY DEF Expose
<1>2. PICK S \in {Exposed, UNION {Branch(w) : w \in Exposed}} : SetPaintFlags(S, {})
  BY DEF Expose
<1>3. PaintTypeOK /\ ListsOK /\ FlagsOK /\ ServerOK
  BY TypesParted DEF IInv
<1>4. Live' = Live /\ ListsOK'
  BY <1>1, <1>3, SameLists
<1>5. Exposed \subseteq Live /\ Exposed \subseteq Shell /\ Live \subseteq Pane
  <2>1. \A w \in Exposed : <<"Expose", w>> \in ToSet(xqueue)
    BY <1>3, ExposedAre DEF ServerOK
  <2>2. \A w : <<"Expose", w>>[2] = w
    OBVIOUS
  <2> QED
    BY <1>3, <2>1, <2>2, ExposedAre DEF ServerOK, Live
<1>6. S \subseteq Live /\ Exposed \subseteq S
  BY <1>2, <1>5, BranchFacts
<1>7. xqueue' \in Seq(Event) /\ ToSet(xqueue') = ToSet(xqueue) \ D
  BY <1>1, <1>3, EventsButThose DEF ServerOK
<1>8. FlagsOK' /\ ServerOK'
  <2>1. WFDIRTY' \cup WFCHILDDIRTY' \subseteq Live /\ QFPAINT' \in BOOLEAN
    BY <1>2, <1>3, <1>6, FlagsSetTyped
  <2> QED
    BY <1>1, <1>3, <1>4, <1>5, <1>7, <2>1 DEF FlagsOK, ServerOK
<1>9. MappedChildren' /\ WaitVisible'
  BY <1>1 DEF IInv, MappedChildren, WaitVisible
<1>10. ShellsKnown'
  BY <1>1 DEF IInv, ShellsKnown
<1>11. PaintIsDue'
  <2>1. \A x \in Pane : (x \in S => WayMarked(x)') /\ (WayMarked(x) => WayMarked(x)')
    BY <1>2, <1>3, <1>5, <1>6, FlagsSet DEF FlagsOK
  <2>2. \A x \in Pane : Paintable(x)' => x \in S \/ Paintable(x)
    BY <1>1, <1>2, <1>6 DEF Paintable, SetPaintFlags
  <2>3. \A x \in Pane : ExposeComes(x) => x \in S \/ ExposeComes(x)'
    BY <1>1, <1>6 DEF ExposeComes
  <2> QED
    BY <1>1, <2>1, <2>2, <2>3, DueStep DEF IInv
<1> QED
  BY <1>4, <1>8, <1>9, <1>10, <1>11, TypesJoinedAfter DEF IInv

-----------------------------------------------------------------------------
LEMMA NextKeeps == IInv /\ [PaintNext]_paintvars => IInv'
<1> SUFFICES ASSUME IInv, [PaintNext]_paintvars PROVE IInv'
  OBVIOUS
<1>1. ASSUME NEW w \in Pane,
             \/ CreatePane(w) \/ DestroyPane(w)
             \/ ShowChild(w) \/ ShowShell(w) \/ Shown(w) \/ HideChild(w) \/ HideShell(w)
             \/ Invalidate(w) \/ BeginPaint(w) \/ UpdateWindow(w) \/ Updated(w)
      PROVE  IInv'
  BY <1>1, CreateKeeps, DestroyKeeps, ShowChildKeeps, ShowShellKeeps, ShownKeeps, HideChildKeeps,
     HideShellKeeps, InvalidateKeeps, PaintingKeeps
<1>2. ASSUME NEW w \in Shell,
             ServerMaps(w) \/ ServerMapsCovered(w) \/ Cover(w) \/ Uncover(w) \/ Damage(w)
      PROVE  IInv'
  BY <1>2, ServerKeeps
<1>3. CASE UNCHANGED paintvars
  <2>1. /\ UNCHANGED <<zorder, waiting, xwin, xqueue, cut, WFDIRTY, WFCHILDDIRTY, QFPAINT>>
        /\ UNCHANGED flagvars
    BY <1>3 DEF paintvars, showvars
  <2>2. PaintTypeOK'
    BY <2>1 DEF IInv, PaintTypeOK, Exists, flagvars
  <2> QED
    BY <2>1, <2>2 DEF IInv, MappedChildren, ShellsKnown, WaitVisible, PaintIsDue, Paintable,
                      Exposed, ExposeComes, flagvars
<1>4. CASE GetPaintMessage \/ VisibilityNotify \/ Expose
  BY <1>4, GetPaintMessageKeeps, VisibilityNotifyKeeps, ExposeKeeps
<1> QED
  BY <1>1, <1>2, <1>3, <1>4 DEF PaintNext

LEMMA IInvHolds == PaintSpec => []IInv
BY InitIInv, NextKeeps, PTL DEF PaintSpec

(* A child that is waited for is mapped with WS_VISIBLE; of a top-level      *)
(* window the server knows that it is to be shown.                          *)
LEMMA IInvAnswers == IInv => WaitIsAnswered
<1> SUFFICES ASSUME IInv, waiting # NoPane PROVE WaitIsAnswered
  BY DEF WaitIsAnswered
<1> DEFINE w == waiting[2]
<1>1. FlagsOK /\ ServerOK
  BY TypesParted DEF IInv
<1>2. w \in Pane /\ w \in WS_VISIBLE
  <2>1. w \in Live
    BY <1>1 DEF FlagsOK
  <2> QED
    BY <2>1 DEF IInv, WaitVisible, Live
<1>3. w \notin Shell => w \in WFMAPPED
  BY <1>2 DEF IInv, MappedChildren
<1>4. w \in Shell => \/ xwin[w] \in {"asked", "covered"}
                     \/ w \in WFMAPPED \cup Exposed
  BY <1>1, <1>2 DEF IInv, ShellsKnown, ServerOK
<1> QED
  BY <1>3, <1>4 DEF WaitIsAnswered, MayGoOn, ExposeComes

(* The types of Paint: every list of siblings names each window once and     *)
(* under its parent, a window that is gone has no children, no flag of      *)
(* painting or showing and no event that waits, and the call that waits     *)
(* (the loops of SetWindowPos and UpdateWindow) is for a window that exists.*)
THEOREM PaintTyped == PaintSpec => []PaintTypeOK
<1>1. IInv => PaintTypeOK
  BY DEF IInv
<1> QED
  BY <1>1, IInvHolds, PTL

(* A visible, mapped and dirty window is not forgotten, in any tree: either  *)
(* QFPAINT is set and every window above it has WFCHILDDIRTY, so that the   *)
(* search of InternalUpdateWindows will come to it, or its Expose is still  *)
(* to come; unless a search stopped at a marked window without children.    *)
THEOREM PaintsAreDue == PaintSpec => []PaintIsDue
<1>1. IInv => PaintIsDue
  BY DEF IInv
<1> QED
  BY <1>1, IInvHolds, PTL

(* SetWindowPos and UpdateWindow never wait in vain for WFMAPPED: the window *)
(* is mapped or hidden by others, or the X server has yet to send what ends *)
(* the wait.                                                                *)
THEOREM WaitsAreAnswered == PaintSpec => []WaitIsAnswered
BY IInvHolds, IInvAnswers, PTL

(* InternalUpdateWindows ends whenever GetMessage calls it, within MaxTurns  *)
(* turns of its loops, whatever windows are marked.                         *)
THEOREM SearchesEnd == PaintSpec => []Found.ended
<1>1. IInv => Found.ended
  BY SearchEnds DEF IInv
<1> QED
  BY <1>1, IInvHolds, PTL
=============================================================================
