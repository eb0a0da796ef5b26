------------------------------- MODULE Interp -------------------------------
(***************************************************************************)
(* The flags of the x86 interpreter (intp32/interp_main.c, 16-bit code).   *)
(* No instruction computes flags: it leaves its result, shifted to the top *)
(* of a word, the bit that was carried out, and its two operands, and what *)
(* reads a flag works it out (IS_CF_SET and the like).  Subtraction leaves *)
(* its second operand negated; instructions that change some flags only    *)
(* write a part of this; rotations, PUSHF and POPF go through a real flags *)
(* word and back.                                                          *)
(*                                                                         *)
(* Beside it runs the processor itself: cpu holds the flags as the x86     *)
(* defines them, in terms of signed and unsigned numbers.                  *)
(*                                                                         *)
(* PF and AF, multiplication of signed numbers, division and decimal       *)
(* adjustment are left out.                                                *)
(***************************************************************************)
EXTENDS Integers, FiniteSets

CONSTANTS
    Bytes, Words, \* operands of byte and of word instructions
    Counts        \* how far shifts and rotations go; by 8 and more bits the
                  \* rotations of bytes are not the processor's

Highest == 65535   \* in a word

ASSUME InterpAssumption ==
    /\ Bytes \subseteq 0..255 /\ Words \subseteq 0..Highest
    /\ Counts \subseteq 1..7

VARIABLES
    lazy,     \* RES_16, the low bit of CARRY, bit 15 of SRC1_16 and SRC2_16
    DF,       \* DIRECTION_FLAG of env->flags
    cpu,      \* the flags of the processor
    known,    \* the flags the interpreter is right about
    exact,    \* the last result was the processor's
    compared  \* the operands of a comparison just made

interpvars == <<lazy, DF, cpu, known, exact, compared>>

Width == {8, 16}
Value(w) == IF w = 8 THEN Bytes ELSE Words
Flag == {"cf", "zf", "sf", "of", "df"}
Bit(v, n) == (v \div 2^n) % 2
Sign(w, v) == Bit(v, w - 1)
Bool(v) == v = 1
Num(b) == IF b THEN 1 ELSE 0

-----------------------------------------------------------------------------
(* The interpreter's side *)

(* Mutant: what is carried out stays in the result. *)
LazyUnmasked(w, v, a, b) ==
    [res |-> v * 2^(16 - w), carry |-> Bit(v, w),
     s1 |-> Sign(w, a), s2 |-> Sign(w, b)]

(* RES_32 = v << 8 or v, with SRC1 = a and SRC2 = b. *)
Lazy(w, v, a, b) ==
    [res |-> (v % 2^w) * 2^(16 - w), carry |-> Bit(v, w),
     s1 |-> Sign(w, a), s2 |-> Sign(w, b)]
KeepCarry(f) == [f EXCEPT !.carry = lazy.carry]

IS_CF_SET(f) == Bool(f.carry)
IS_ZF_SET(f) == f.res = 0
IS_SF_SET(f) == Bool(Sign(16, f.res))
IS_OF_SET(f) == f.s1 = f.s2 /\ f.s1 # Sign(16, f.res)

(* Mutant: the most negative number is negated like the others. *)
MinusAny(w, y) == -y

(* SRC2 of a subtraction: the sign of -y is that of y for the most negative *)
(* y, which must count as positive.                                         *)
Minus(w, y) == IF y % 2^w = 2^(w - 1) THEN 0 ELSE -y

(* trans_interp_flags: the overflow flag is not the one of IS_OF_SET.       *)
trans_interp_flags ==
    [cf |-> IS_CF_SET(lazy), zf |-> IS_ZF_SET(lazy), sf |-> IS_SF_SET(lazy),
     of |-> IS_SF_SET(lazy) # (lazy.s1 = lazy.s2), df |-> DF]

(* trans_flags_to_interp, but for DF: a result and operands that have these *)
(* flags.                                                                   *)
trans_flags_to_interp(f) ==
    [res |-> (IF f.zf THEN 0 ELSE 256) + (IF f.sf THEN 32768 ELSE 0),
     carry |-> Num(f.cf),
     s1 |-> Num(f.of /\ ~f.sf), s2 |-> Num(~f.of \/ ~f.sf)]

(* log_rot, with f what the rotation left: CF and OF are f's, SF and ZF the *)
(* ones from before.                                                        *)
log_rot(f) ==
    trans_flags_to_interp([trans_interp_flags EXCEPT !.cf = IS_CF_SET(f),
                                                     !.of = IS_OF_SET(f)])

-----------------------------------------------------------------------------
(* The processor's side *)

Signed(w, x) == IF x >= 2^(w - 1) THEN x - 2^w ELSE x
Overflows(w, v) == v \notin -(2^(w - 1))..(2^(w - 1) - 1)
FlagsOf(w, result, cf, of) ==
    [cf |-> cf, zf |-> result = 0, sf |-> result >= 2^(w - 1), of |-> of, df |-> cpu.df]

(* An instruction that leaves f and out where the processor has the flags c *)
(* and result, and is right about the flags in k.                           *)
Ran(f, out, c, result, k) ==
    /\ lazy' = f
    /\ cpu' = c
    /\ known' = k
    /\ exact' = (out = result)
    /\ compared' = {}
    /\ UNCHANGED DF

Arithmetic == Flag \ {"df"}
DfKnown == known \cap {"df"}

InterpInit ==
    /\ lazy = [res |-> 0, carry |-> 0, s1 |-> 0, s2 |-> 0]
    /\ DF = FALSE
    /\ cpu = [g \in Flag |-> FALSE]
    /\ known = {"df"}
    /\ exact = TRUE
    /\ compared = {}

-----------------------------------------------------------------------------
(* ADD and ADC; the carry is added to the second operand first, which OF is *)
(* wrong about when that makes it the most negative number.                 *)
Add(w, x, y, carry) ==
    LET v == y + carry
        total == x + y + Num(carry = 1 /\ cpu.cf)
    IN /\ carry \in {0, lazy.carry} /\ (carry = 1 => "cf" \in known)
       /\ Ran(Lazy(w, x + v, x, v), (x + v) % 2^w,
              FlagsOf(w, total % 2^w, total >= 2^w,
                      Overflows(w, Signed(w, x) + Signed(w, y) + carry)),
              total % 2^w,
              (Arithmetic \ IF carry = 1 /\ v = 2^(w - 1) THEN {"of"} ELSE {}) \cup DfKnown)

(* SUB and SBB. *)
Subtract(w, x, y, carry) ==
    LET v == y + carry
        total == x - y - Num(carry = 1 /\ cpu.cf)
    IN /\ carry \in {0, lazy.carry} /\ (carry = 1 => "cf" \in known)
       /\ Ran(Lazy(w, x - v, x, Minus(w, v)), (x - v) % 2^w,
              FlagsOf(w, total % 2^w, total < 0,
                      Overflows(w, Signed(w, x) - Signed(w, y) - carry)),
              total % 2^w,
              (Arithmetic \ IF carry = 1 /\ v = 2^(w - 1) THEN {"of"} ELSE {}) \cup DfKnown)

(* CMP, and CMPS and SCAS. *)
Compare(w, x, y) ==
    /\ lazy' = Lazy(w, x - y, x, Minus(w, y))
    /\ cpu' = FlagsOf(w, (x - y) % 2^w, x < y, Overflows(w, Signed(w, x) - Signed(w, y)))
    /\ known' = Arithmetic \cup DfKnown
    /\ compared' = {<<w, x, y>>}
    /\ exact' = TRUE
    /\ UNCHANGED DF

(* AND, OR, XOR and TEST, with result v. *)
Logic(w, v) ==
    Ran(Lazy(w, v, v, v), v, FlagsOf(w, v, FALSE, FALSE), v, Arithmetic \cup DfKnown)

(* INC (by 1) and DEC (by -1) leave the carry alone. *)
Step(w, x, by) ==
    LET v == (x + by) % 2^w
    IN Ran(KeepCarry(Lazy(w, x + by, x, by)), v,
           FlagsOf(w, v, cpu.cf, Overflows(w, Signed(w, x) + by)), v,
           {"zf", "sf", "of"} \cup (known \cap {"cf", "df"}))

(* NEG, with OF wrong about the most negative number. *)
Neg(w, x) ==
    Ran(Lazy(w, -x, 0, -x), (-x) % 2^w,
        FlagsOf(w, (-x) % 2^w, x # 0, Overflows(w, -Signed(w, x))), (-x) % 2^w,
        (Arithmetic \ IF x = 2^(w - 1) THEN {"of"} ELSE {}) \cup DfKnown)

(* MUL: only CF and OF are defined; they say whether the upper half is used. *)
Mul(w, x, y) ==
    LET high == x # 0 /\ y > (2^w - 1) \div x
    IN Ran([res |-> IF high THEN 65535 ELSE 0, carry |-> Num(high), s1 |-> 0, s2 |-> 0], 0,
           [cpu EXCEPT !.cf = high, !.of = high], 0, {"cf", "of"} \cup DfKnown)

(* Flags after a shift by n: OF is defined for n = 1 only. *)
Shifts(n) == {"cf", "zf", "sf"} \cup (IF n = 1 THEN {"of"} ELSE {}) \cup DfKnown
SHL(w, x, n) ==
    LET v == (x * 2^n) % 2^w
    IN Ran(Lazy(w, x * 2^n, x, x), v,
           FlagsOf(w, v, Bool(Bit(x, w - n)), Overflows(w, 2 * Signed(w, x))), v, Shifts(n))

SHR(w, x, n) ==
    LET v == x \div 2^n
    IN Ran([Lazy(w, v, x, x) EXCEPT !.carry = Bit(x, n - 1)], v,
           FlagsOf(w, v, Bool(Bit(x, n - 1)), x >= 2^(w - 1)), v, Shifts(n))

(* Of bytes, and of words in registers: a word in memory is taken for a byte.*)
SAR(w, x, n) ==
    LET v == Signed(w, x) \div 2^n
    IN Ran([Lazy(w, v, x, x) EXCEPT !.carry = Bit(x, n - 1)], v % 2^w,
           FlagsOf(w, v % 2^w, Bool(Bit(x, n - 1)), FALSE), v % 2^w, Shifts(n))

(* Rotations: sum is what the code puts together from the two parts, turned *)
(* the processor's result.                                                  *)
Rotate(w, x, n, sum, turned, out, k) ==
    Ran(log_rot(Lazy(w, sum, x, x)), sum % 2^w,
        [cpu EXCEPT !.cf = Bool(out), !.of = Sign(w, x) # Sign(w, turned)], turned,
        (known \cap {"zf", "sf", "df"}) \cup k \cup IF n = 1 THEN {"of"} ELSE {})

(* One bit after another, as the processor does; c is the carry, that RCL   *)
(* and RCR turn with the value.                                             *)
Turned(x, size, n) == (x % 2^(size - n)) * 2^n + x \div 2^(size - n)

(* x << by, but for bits above w, which no flag is read from. *)
Up(w, x, by) == (x % 2^(w + 1 - by)) * 2^by

ROL(w, x, n) ==
    Rotate(w, x, n, x * 2^n + x \div 2^(w - n), Turned(x, w, n), Bit(x, w - n), {"cf"})

(* The carry of ROR is the bit beside the one that was rotated out. *)
ROR(w, x, n) ==
    Rotate(w, x, n, x \div 2^n + Up(w, x, w - n), Turned(x, w, w - n), Bit(x, n - 1), {})

(* Mutant: the carry is put one place too far. *)
LeftPartsOff(w, x, n) ==
    x * 2^n + x \div 2^(w + 1 - n) + lazy.carry * 2^n

(* What RCL and RCR put together. *)
LeftParts(w, x, n) ==
    x * 2^n + x \div 2^(w + 1 - n) + lazy.carry * 2^(n - 1)
RightParts(w, x, n) ==
    x \div 2^n + Up(w, x, w + 1 - n) + lazy.carry * 2^(w - n)

RCL(w, x, n) ==
    LET all == Turned(x + 2^w * Num(cpu.cf), w + 1, n)
    IN /\ "cf" \in known
       /\ Rotate(w, x, n, LeftParts(w, x, n), all % 2^w, Bit(all, w), {"cf"})

RCR(w, x, n) ==
    LET all == Turned(x + 2^w * Num(cpu.cf), w + 1, w + 1 - n)
    IN /\ "cf" \in known
       /\ Rotate(w, x, n, RightParts(w, x, n), all % 2^w, Bit(all, w), {"cf"})

(* RCR of a byte by one, without a count, does not carry the lowest bit out.*)
RCROne(x) ==
    /\ "cf" \in known
    /\ Rotate(8, x, 1, x \div 2 + lazy.carry * 2^7, x \div 2 + Num(cpu.cf) * 2^7,
              Bit(x, 0), {})

-----------------------------------------------------------------------------
(* The flags as such *)

(* CLC, STC and CMC; CLD and STD. *)
SetCarry(c) ==
    Ran([lazy EXCEPT !.carry = c], 0, [cpu EXCEPT !.cf = Bool(c)], 0, known \cup {"cf"})
CMC == Ran([lazy EXCEPT !.carry = 1 - @], 0, [cpu EXCEPT !.cf = ~@], 0, known)

SetDF(d) ==
    /\ DF' = d
    /\ cpu' = [cpu EXCEPT !.df = d]
    /\ known' = known \cup {"df"}
    /\ UNCHANGED <<lazy, exact, compared>>

(* PUSHF and POPF of the same word: all flags come back but OF, which PUSHF *)
(* does not write as IS_OF_SET reads it.                                    *)
PushPop ==
    Ran(trans_flags_to_interp(trans_interp_flags), 0, cpu, 0, known \ {"of"})

(* POPF of a word that a program made, no zero being negative; SAHF, which  *)
(* writes the upper half of the flags too, with zeros.                      *)
Popped(f) ==
    /\ ~(f.zf /\ f.sf)
    /\ lazy' = trans_flags_to_interp(f)
    /\ DF' = f.df
    /\ cpu' = f
    /\ known' = Flag
    /\ exact' = TRUE
    /\ compared' = {}

SAHF(f) ==
    /\ ~(f.zf /\ f.sf) /\ ~f.of /\ ~f.df
    /\ lazy' = trans_flags_to_interp(f)
    /\ DF' = FALSE
    /\ cpu' = [f EXCEPT !.of = cpu.of, !.df = cpu.df]
    /\ known' = {"cf", "zf", "sf"}
    /\ exact' = TRUE
    /\ compared' = {}

InterpNext ==
    \/ \E w \in Width : \E x \in Value(w) :
          \/ \E y \in Value(w) :
                \/ \E c \in {0, 1} : Add(w, x, y, c) \/ Subtract(w, x, y, c)
                \/ Compare(w, x, y) \/ Mul(w, x, y)
          \/ Logic(w, x) \/ Neg(w, x) \/ Step(w, x, 1) \/ Step(w, x, -1)
          \/ \E n \in Counts :
                \/ SHL(w, x, n) \/ SHR(w, x, n) \/ SAR(w, x, n)
                \/ ROL(w, x, n) \/ ROR(w, x, n) \/ RCL(w, x, n) \/ RCR(w, x, n)
    \/ \E x \in Bytes : RCROne(x)
    \/ \E c \in {0, 1} : SetCarry(c)
    \/ \E d \in BOOLEAN : SetDF(d)
    \/ \E f \in [Flag -> BOOLEAN] : Popped(f) \/ SAHF(f)
    \/ CMC \/ PushPop

InterpSpec == InterpInit /\ [][InterpNext]_interpvars

-----------------------------------------------------------------------------
(* Conditional jumps: whether one is taken. *)

(* Mutant: JLE_JNG forgets that equal operands count. *)
JLE_JNGLess(f) == IS_SF_SET(f) # IS_OF_SET(f)

JB_JNAE(f) == IS_CF_SET(f)
JE_JZ(f) == IS_ZF_SET(f)
JBE_JNA(f) == IS_CF_SET(f) \/ IS_ZF_SET(f)
JL_JNGE(f) == IS_SF_SET(f) # IS_OF_SET(f)
JLE_JNG(f) == (IS_SF_SET(f) # IS_OF_SET(f)) \/ IS_ZF_SET(f)

(* Types: only what the masks of the code let through is left.              *)
Left == [res : 0..Highest, carry : {0, 1}, s1 : {0, 1}, s2 : {0, 1}]
InterpTypeOK ==
    /\ lazy \in Left
    /\ cpu \in [Flag -> BOOLEAN] /\ DF \in BOOLEAN
    /\ known \subseteq Flag /\ exact \in BOOLEAN

(* After any sequence of instructions, the flags as read from what the last *)
(* ones left behind are the processor's: an instruction that should not     *)
(* change a flag must not disturb the part it is read from, and one that    *)
(* goes through a flags word must bring the others back.                    *)
FlagsExact ==
    LET lazily == [cf |-> IS_CF_SET(lazy), zf |-> IS_ZF_SET(lazy), sf |-> IS_SF_SET(lazy),
                   of |-> IS_OF_SET(lazy), df |-> DF]
    IN \A g \in known : lazily[g] = cpu[g]

(* Every result is the processor's, with the carry that earlier             *)
(* instructions left for ADC, SBB, RCL and RCR.                             *)
ResultsExact == exact

(* What a program can see of an instruction, its result and its flags.      *)
InstructionsExact == FlagsExact /\ ResultsExact

(* After a comparison the jumps decide the order of the operands, unsigned  *)
(* and signed, for both widths.                                             *)
JumpsDecide ==
    \A c \in compared :
       LET x == c[2]
           y == c[3]
           a == Signed(c[1], x)
           b == Signed(c[1], y)
       IN /\ JE_JZ(lazy) <=> x = y
          /\ JB_JNAE(lazy) <=> x < y
          /\ JBE_JNA(lazy) <=> x <= y
          /\ JL_JNGE(lazy) <=> a < b
          /\ JLE_JNG(lazy) <=> a <= b
=============================================================================
