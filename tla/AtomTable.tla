----------------------------- MODULE AtomTable -----------------------------
(***************************************************************************)
(* Atom tables (winkrnl/KrnAtoms.c): AddAtomEx, FindAtomEx, DeleteAtomEx,  *)
(* GetAtomNameEx and LockAtomEx on one table, for class names, properties, *)
(* the registry and AddAtom.                                               *)
(*                                                                         *)
(* A slot holds the hash q of its name, the place idx and the room idsize  *)
(* of the name in AtomData, and a reference count.  A slot is free when q  *)
(* and the count are 0; its room can then be given to a shorter name.      *)
(* MAKEINTATOM numbers are names too: q is the number and they take no     *)
(* room.  Nothing tells such a q from a hash: a number that is the hash of *)
(* a string goes by the string's atom, and a string can go by the atom of  *)
(* a number.  Upper and lower case are not told apart, so a member of Str  *)
(* stands for all spellings of a string.                                   *)
(*                                                                         *)
(* Clients delete and lock only atoms that they have added and not deleted *)
(* yet; atomRefs counts these, by slot and by the name it was added under. *)
(***************************************************************************)
EXTENDS Integers, Sequences, FiniteSetsExt

CONSTANTS
    Str,        \* strings
    strsize,    \* strsize[s]: length of s with its terminating 0
    hash,       \* hash[s]: what AtomHashString makes of s
    Number,     \* MAKEINTATOM numbers
    ATOMBASE,   \* 0xcc00
    AtomWord,   \* 65536: an ATOM is a WORD
    MaxTable,   \* bound: slots of the table
    MaxRefs     \* bound: references to one atom, and locks of a number

(* Atoms of all slots are distinct and not 0.                               *)
ASSUME AtomAssumption ==
    /\ strsize \in [Str -> Nat \ {0}] /\ hash \in [Str -> Nat \ {0}]
    /\ Number \subseteq Nat \ {0} /\ Number \cap Str = {}
    /\ {ATOMBASE, AtomWord} \subseteq Nat \ {0} /\ {MaxTable, MaxRefs} \subseteq Nat
    /\ ATOMBASE + MaxTable <= AtomWord

VARIABLES
    AtomTable,  \* the slots
    AtomData,   \* AtomData[p]: <<s, k>>, the k-th character of s
    atomRefs

atomvars == <<AtomTable, AtomData, atomRefs>>

Name == Str \cup Number
Slot == 0..(MaxTable - 1)
TableSize == Len(AtomTable)
DataSize == Len(AtomData)
Entry(i) == AtomTable[i + 1]

(* AtomHashString: q and atomlen. *)
HashOf(x) == IF x \in Number THEN x ELSE hash[x]
SizeOf(x) == IF x \in Number THEN 0 ELSE strsize[x]

(* The string at idx in AtomData is s. *)
Reads(idx, s) ==
    /\ idx + strsize[s] <= DataSize
    /\ \A k \in 1..strsize[s] : AtomData[idx + k] = <<s, k>>

(* The atom of slot i, and the slot of an atom. *)
AtomOf(i) == (ATOMBASE + i) % AtomWord
SlotOf(atom) == atom - ATOMBASE
InTable(atom) == SlotOf(atom) \in 0..(TableSize - 1)

(* Mutant: a string is known by its hash. *)
MatchesHash(i, x) == Entry(i).q = HashOf(x)

(* FindAtomEx: the first slot whose hash, and for a string whose name, is x.*)
Matches(i, x) ==
    /\ Entry(i).q = HashOf(x)
    /\ x \in Str => Reads(Entry(i).idx, x)
Found(x) == {i \in 0..(TableSize - 1) : Matches(i, x)}
FindAtom(x) == IF Found(x) = {} THEN 0 ELSE AtomOf(Min(Found(x)))

(* GetAtomNameEx: the atom's name is x. *)
HasName(atom, x) ==
    /\ InTable(atom)
    /\ LET e == Entry(SlotOf(atom))
       IN IF e.idsize > 0 THEN x \in Str /\ Reads(e.idx, x)
          ELSE x \in Number /\ e.q = x

AtomInit ==
    /\ AtomTable = <<>> /\ AtomData = <<>>
    /\ atomRefs = [p \in Slot \X Name |-> 0]

-----------------------------------------------------------------------------
(* FindAtomEx compares a string with AtomData in every slot with its hash,  *)
(* that of a number too, and the program stops when there is no AtomData.   *)
Comparable(x) ==
    x \in Str /\ DataSize = 0 => \A i \in 0..(TableSize - 1) : Entry(i).q # HashOf(x)

More(i, x) ==
    /\ atomRefs[<<i, x>>] < MaxRefs
    /\ atomRefs' = [atomRefs EXCEPT ![<<i, x>>] = @ + 1]

(* AddAtomEx of a name that is there: one more reference, unless it is a    *)
(* number.                                                                  *)
AddKnown(x) ==
    LET i == SlotOf(FindAtom(x))
    IN /\ FindAtom(x) # 0
       /\ AtomTable' = [AtomTable EXCEPT ![i + 1].refcnt =
                           IF Entry(i).idsize > 0 THEN Entry(i).refcnt + 1 ELSE Entry(i).refcnt]
       /\ More(i, x)
       /\ UNCHANGED AtomData

(* The free slots with room to spare for x, and the one AddAtomEx takes: of *)
(* the smallest the first.  A number takes none.                            *)
Spare(x) == {i \in 0..(TableSize - 1) :
                Entry(i).q = 0 /\ Entry(i).refcnt = 0 /\ Entry(i).idsize > SizeOf(x)}
Smallest(x) == {i \in Spare(x) : \A j \in Spare(x) : Entry(i).idsize <= Entry(j).idsize}
Reusable(x) == x \in Str /\ Spare(x) # {}

AddReused(x) ==
    LET i == Min(Smallest(x))
        idx == Entry(i).idx
    IN /\ FindAtom(x) = 0 /\ Reusable(x)
       /\ AtomTable' = [AtomTable EXCEPT ![i + 1] = [Entry(i) EXCEPT !.q = HashOf(x), !.refcnt = 1]]
       /\ AtomData' = [p \in 1..DataSize |->
                          IF p - idx \in 1..strsize[x] THEN <<x, p - idx>> ELSE AtomData[p]]
       /\ More(i, x)

(* Mutant: the new name's place is computed after the data has grown. *)
AddNewBehind(x) ==
    /\ Comparable(x) /\ FindAtom(x) = 0 /\ ~Reusable(x) /\ TableSize < MaxTable
    /\ AtomTable' = Append(AtomTable,
          [q |-> HashOf(x), refcnt |-> 1, idsize |-> SizeOf(x),
           idx |-> IF x \in Str THEN DataSize + SizeOf(x) ELSE 0])
    /\ AtomData' = AtomData \o [k \in 1..SizeOf(x) |-> <<x, k>>]
    /\ More(TableSize, x)

(* AddAtomEx makes the table, and for a string the data, larger. *)
AddNew(x) ==
    /\ Comparable(x) /\ FindAtom(x) = 0 /\ ~Reusable(x) /\ TableSize < MaxTable
    /\ AtomTable' = Append(AtomTable,
          [q |-> HashOf(x), refcnt |-> 1, idsize |-> SizeOf(x),
           idx |-> IF x \in Str THEN DataSize ELSE 0])
    /\ AtomData' = AtomData \o [k \in 1..SizeOf(x) |-> <<x, k>>]
    /\ More(TableSize, x)

(* Mutant: a name can be found after its last reference is gone. *)
DeleteAtomFindable(atom, x) ==
    LET i == SlotOf(atom)
    IN /\ InTable(atom) /\ atomRefs[<<i, x>>] > 0
       /\ AtomTable' = [AtomTable EXCEPT ![i + 1].refcnt =
                           IF Entry(i).idsize > 0 THEN @ - 1 ELSE @]
       /\ atomRefs' = [atomRefs EXCEPT ![<<i, x>>] = @ - 1]
       /\ UNCHANGED AtomData

(* DeleteAtomEx by a client that has the atom as x: a number's slot stays.  *)
DeleteAtom(atom, x) ==
    LET i == SlotOf(atom)
        left == IF Entry(i).idsize > 0 THEN Entry(i).refcnt - 1 ELSE Entry(i).refcnt
    IN /\ InTable(atom) /\ atomRefs[<<i, x>>] > 0
       /\ AtomTable' = [AtomTable EXCEPT ![i + 1] =
             [Entry(i) EXCEPT !.refcnt = left, !.q = IF left = 0 THEN 0 ELSE Entry(i).q]]
       /\ atomRefs' = [atomRefs EXCEPT ![<<i, x>>] = @ - 1]
       /\ UNCHANGED AtomData

(* LockAtomEx: one more reference, of a number's slot as well. *)
LockAtom(atom, x) ==
    LET i == SlotOf(atom)
    IN /\ InTable(atom) /\ atomRefs[<<i, x>>] > 0
       /\ Entry(i).refcnt <= MaxRefs
       /\ AtomTable' = [AtomTable EXCEPT ![i + 1].refcnt = Entry(i).refcnt + 1]
       /\ More(i, x)
       /\ UNCHANGED AtomData

AtomNext ==
    \/ \E x \in Name : AddKnown(x) \/ AddReused(x) \/ AddNew(x)
    \/ \E i \in Slot, x \in Name : DeleteAtom(AtomOf(i), x) \/ LockAtom(AtomOf(i), x)

AtomSpec == AtomInit /\ [][AtomNext]_atomvars

-----------------------------------------------------------------------------
AtomEntry == [q : {0} \cup {HashOf(x) : x \in Name}, refcnt : Nat, idsize : Nat, idx : Nat]

(* The variables are in range, and every name's room is within the data. *)
AtomTypeOK ==
    /\ AtomTable \in Seq(AtomEntry) /\ TableSize <= MaxTable
    /\ \A i \in 0..(TableSize - 1) : Entry(i).idx + Entry(i).idsize <= DataSize
    /\ AtomData \in Seq(Str \X Nat)
    /\ atomRefs \in [Slot \X Name -> 0..MaxRefs]

(* Nothing that is no string, or no number, has the hash of x.              *)
Alone(x) == \A y \in Name : HashOf(y) = HashOf(x) => (x \in Str <=> y \in Str)

(* References of clients to slot i under the string x or a number that goes *)
(* by its atom.                                                             *)
Refs(i, x) ==
    atomRefs[<<i, x>>] + (IF hash[x] \in Number THEN atomRefs[<<i, hash[x]>>] ELSE 0)

(* A name a client may have for the atom of x: x, or a name of the other     *)
(* kind with its hash.                                                      *)
Goes(x, y) == HashOf(y) = HashOf(x) /\ (x \in Str /\ y \in Str => y = x)

(* An atom that a client holds keeps the name it was added under, or, when  *)
(* that is a number and a string's hash or the other way round, the name it *)
(* collided with: slots are not reused too early, and a name put into       *)
(* reused room spoils no other.  FindAtomEx finds it by a name that does    *)
(* not collide, whatever is done with names that do: it has no other atom.  *)
HeldAtomsKept ==
    \A i \in Slot, x \in Name : atomRefs[<<i, x>>] > 0 =>
        /\ \E y \in Name : Goes(y, x) /\ HasName(AtomOf(i), y)
        /\ Alone(x) => FindAtom(x) = AtomOf(i)

(* The count of a string's slot is the number of references that clients    *)
(* hold, those of numbers that go by the string's atom included, and the    *)
(* slot is free when there are none.                                        *)
RefsCounted ==
    \A i \in 0..(TableSize - 1) : Entry(i).idsize > 0 =>
        /\ \E x \in Str :
              /\ Entry(i).refcnt = Refs(i, x)
              /\ \A y \in Name : atomRefs[<<i, y>>] # 0 => y = x \/ (y \in Number /\ y = hash[x])
        /\ Entry(i).q = 0 <=> Entry(i).refcnt = 0
=============================================================================
