--------------------------- MODULE Interp_proofs ---------------------------
(***************************************************************************)
(* Proofs about Interp, for any operands and counts: types, the results    *)
(* and flags of every instruction, and what the jumps decide.              *)
(*                                                                         *)
(* The powers of a width and of a count are unfolded once; below, All(w)   *)
(* is 2^w and Half(w) is 2^(w-1), and the arithmetic of shifts and         *)
(* rotations is that of quotients and remainders.                          *)
(***************************************************************************)
EXTENDS Interp, TLAPS

(* The powers of two the model meets.                                       *)
LEMMA Powers ==
    /\ \A n : n = 0 => 2^n = 2^0
    /\ \A n : n = 1 => 2^n = 2^1
    /\ \A n : n = 2 => 2^n = 2^2
    /\ \A n : n = 3 => 2^n = 2^3
    /\ \A n : n = 4 => 2^n = 2^4
    /\ \A n : n = 5 => 2^n = 2^5
    /\ \A n : n = 6 => 2^n = 2^6
    /\ \A n : n = 7 => 2^n = 2^7
    /\ \A n : n = 8 => 2^n = 2^8
    /\ \A n : n = 9 => 2^n = 2^9
    /\ \A n : n = 10 => 2^n = 2^10
    /\ \A n : n = 11 => 2^n = 2^11
    /\ \A n : n = 12 => 2^n = 2^12
    /\ \A n : n = 13 => 2^n = 2^13
    /\ \A n : n = 14 => 2^n = 2^14
    /\ \A n : n = 15 => 2^n = 2^15
    /\ \A n : n = 16 => 2^n = 2^16
    /\ \A n : n = 17 => 2^n = 2^17
BY Zenon

(* 2^(w-1) and 2^w. *)
Half(w) == IF w = 8 THEN 128 ELSE 32768
All(w) == IF w = 8 THEN 256 ELSE 65536

(* The powers that a width stands for.                                      *)
LEMMA Sizes ==
    ASSUME NEW w \in Width
    PROVE  2^w = All(w) /\ 2^(w - 1) = Half(w) /\ 2^(16 - w) = IF w = 8 THEN 256 ELSE 1
<1>1. CASE w = 8
  BY <1>1, Powers, SMT DEF All, Half
<1>2. CASE w = 16
  BY <1>2, Powers, SMT DEF All, Half
<1> QED
  BY <1>1, <1>2 DEF Width

(* How the powers of a count fit into those of a width.                     *)
LEMMA Exponents ==
    ASSUME NEW w \in Width, NEW n \in 1..7
    PROVE  /\ 2^n \in Nat \ {0} /\ 2^(w - n) \in Nat \ {0} /\ 2^(n - 1) \in Nat \ {0}
           /\ 2^n * 2^(w - n) = All(w)
           /\ 2^n = 2 * 2^(n - 1)
           /\ 2^(w + 1 - n) = 2 * 2^(w - n)
           /\ 2^(w + 1 - (w - n)) = 2 * 2^n
           /\ 2^(w - (w - n)) = 2^n
           /\ 2^(w + 1 - (w + 1 - n)) = 2^n
<1>1. CASE w = 8 /\ n = 1
  BY <1>1, Powers, SMT DEF All
<1>2. CASE w = 8 /\ n = 2
  BY <1>2, Powers, SMT DEF All
<1>3. CASE w = 8 /\ n = 3
  BY <1>3, Powers, SMT DEF All
<1>4. CASE w = 8 /\ n = 4
  BY <1>4, Powers, SMT DEF All
<1>5. CASE w = 8 /\ n = 5
  BY <1>5, Powers, SMT DEF All
<1>6. CASE w = 8 /\ n = 6
  BY <1>6, Powers, SMT DEF All
<1>7. CASE w = 8 /\ n = 7
  BY <1>7, Powers, SMT DEF All
<1>8. CASE w = 16 /\ n = 1
  BY <1>8, Powers, SMT DEF All
<1>9. CASE w = 16 /\ n = 2
  BY <1>9, Powers, SMT DEF All
<1>10. CASE w = 16 /\ n = 3
  BY <1>10, Powers, SMT DEF All
<1>11. CASE w = 16 /\ n = 4
  BY <1>11, Powers, SMT DEF All
<1>12. CASE w = 16 /\ n = 5
  BY <1>12, Powers, SMT DEF All
<1>13. CASE w = 16 /\ n = 6
  BY <1>13, Powers, SMT DEF All
<1>14. CASE w = 16 /\ n = 7
  BY <1>14, Powers, SMT DEF All
<1> QED
  BY <1>1, <1>2, <1>3, <1>4, <1>5, <1>6, <1>7, <1>8, <1>9, <1>10, <1>11, <1>12, <1>13, <1>14 DEF Width

(* Quotient and remainder.                                                  *)
LEMMA Divided ==
    ASSUME NEW a \in Int, NEW b \in Int, b > 0
    PROVE  /\ a = b * (a \div b) + (a % b)
           /\ a \div b \in Int /\ a % b \in Int /\ 0 <= a % b /\ a % b < b
BY SMT

LEMMA Grows == ASSUME NEW k \in Int, NEW b \in Int, b > 0, k >= 1 PROVE k * b >= b
BY SMT

(* There is one quotient and one remainder.                                 *)
LEMMA Unique ==
    ASSUME NEW a \in Int, NEW b \in Int, b > 0, NEW q \in Int, NEW r \in Int,
           a = b * q + r, 0 <= r, r < b
    PROVE  q = a \div b /\ r = a % b
<1> DEFINE k == a \div b
           s == a % b
<1>1. a = b * k + s /\ k \in Int /\ s \in Int /\ 0 <= s /\ s < b
  BY Divided, SMT
<1> HIDE DEF k, s
<1>3. (q - k) * b = s - r /\ (k - q) * b = r - s
  BY <1>1, SMT
<1>4. ~(q - k >= 1)
  <2> SUFFICES ASSUME q - k >= 1 PROVE FALSE
    OBVIOUS
  <2>1. (q - k) * b >= b
    BY <1>1, Grows
  <2> QED
    BY <2>1, <1>1, <1>3
<1>5. ~(k - q >= 1)
  <2> SUFFICES ASSUME k - q >= 1 PROVE FALSE
    OBVIOUS
  <2>1. (k - q) * b >= b
    BY <1>1, Grows
  <2> QED
    BY <2>1, <1>1, <1>3
<1>6. q = k
  BY <1>1, <1>4, <1>5
<1>7. r = s
  BY <1>1, <1>6
<1> QED
  BY <1>6, <1>7 DEF k, s

(* The sign of what v leaves. *)
High(w, v) == v % All(w) >= Half(w)

LEMMA BitSmall == ASSUME NEW v \in Int PROVE v % 2 \in {0, 1}
BY SMT

(* The four parts of what an instruction leaves.                            *)
LEMMA LazyFields ==
    ASSUME NEW w \in Width, NEW v \in Int, NEW a \in Int, NEW b \in Int
    PROVE  /\ Lazy(w, v, a, b).res = (v % All(w)) * (IF w = 8 THEN 256 ELSE 1)
           /\ Lazy(w, v, a, b).carry = (v \div All(w)) % 2
           /\ Lazy(w, v, a, b).s1 = (a \div Half(w)) % 2
           /\ Lazy(w, v, a, b).s2 = (b \div Half(w)) % 2
           /\ DOMAIN Lazy(w, v, a, b) = {"res", "carry", "s1", "s2"}
BY Sizes DEF Lazy, Bit, Sign

LEMMA ResultIs == ASSUME NEW r \in Int, 0 <= r, r <= 65535 PROVE r \in 0..Highest
<1>1. Highest \in Int /\ r <= Highest
  BY SMT DEF Highest
<1> QED
  BY <1>1, SMT

LEMMA LazyTyped ==
    ASSUME NEW w \in Width, NEW v \in Int, NEW a \in Int, NEW b \in Int
    PROVE  Lazy(w, v, a, b) \in Left
<1>1. Lazy(w, v, a, b) = [res |-> (v % All(w)) * (IF w = 8 THEN 256 ELSE 1), carry |-> (v \div All(w)) % 2,
                          s1 |-> (a \div Half(w)) % 2, s2 |-> (b \div Half(w)) % 2]
  BY Sizes DEF Lazy, Bit, Sign
<1>3. /\ v \div All(w) \in Int /\ a \div Half(w) \in Int /\ b \div Half(w) \in Int
  <2>1. All(w) \in Int /\ All(w) > 0 /\ Half(w) \in Int /\ Half(w) > 0
    BY DEF All, Half
  <2> QED
    BY <2>1, Divided
<1> DEFINE r == (v % All(w)) * (IF w = 8 THEN 256 ELSE 1)
           c == v \div All(w)
           p == a \div Half(w)
           q == b \div Half(w)
<1>4. Lazy(w, v, a, b) = [res |-> r, carry |-> c % 2, s1 |-> p % 2, s2 |-> q % 2]
  BY <1>1
<1>5. r \in 0..Highest
  <2>1. CASE w = 8
    <3>1. r = (v % 256) * 256
      BY <2>1, SMT DEF All
    <3> HIDE DEF r
    <3> QED
      BY <3>1, ResultIs, SMT
  <2>2. CASE w = 16
    <3>1. r = v % 65536
      BY <2>2, SMT DEF All
    <3> HIDE DEF r
    <3> QED
      BY <3>1, ResultIs, SMT
  <2> HIDE DEF r
  <2> QED
    BY <2>1, <2>2 DEF Width
<1>6. c % 2 \in {0, 1} /\ p % 2 \in {0, 1} /\ q % 2 \in {0, 1}
  <2>1. c \in Int /\ p \in Int /\ q \in Int
    BY <1>3
  <2> HIDE DEF c, p, q
  <2> QED
    BY <2>1, BitSmall
<1> HIDE DEF r, c, p, q
<1> QED
  BY <1>4, <1>5, <1>6 DEF Left

(* The flags that are read from what an instruction leaves.                 *)
LEMMA LazyFlags ==
    ASSUME NEW w \in Width, NEW v \in Int, NEW a \in Int, NEW b \in Int
    PROVE  /\ IS_CF_SET(Lazy(w, v, a, b)) <=> (v \div All(w)) % 2 = 1
           /\ IS_ZF_SET(Lazy(w, v, a, b)) <=> v % All(w) = 0
           /\ IS_SF_SET(Lazy(w, v, a, b)) <=> High(w, v)
           /\ IS_OF_SET(Lazy(w, v, a, b)) <=>
                /\ (a \div Half(w)) % 2 = (b \div Half(w)) % 2
                /\ (a \div Half(w)) % 2 # IF High(w, v) THEN 1 ELSE 0
<1> DEFINE f == Lazy(w, v, a, b)
<1>1. Sign(16, f.res) = (f.res \div 32768) % 2
  BY Sizes DEF Sign, Bit, Width, Half
<1>2. f.res = (v % All(w)) * (IF w = 8 THEN 256 ELSE 1)
  BY LazyFields
<1>3. (f.res = 0) <=> v % All(w) = 0
  BY <1>2 DEF All, Width
<1>4. (f.res \div 32768) % 2 = IF High(w, v) THEN 1 ELSE 0
  <2>1. CASE w = 8
    <3>1. f.res = (v % 256) * 256
      BY <1>2, <2>1, SMT DEF All
    <3> QED
      BY <3>1, <2>1, SMT DEF High, All, Half
  <2>2. CASE w = 16
    <3>1. f.res = v % 65536
      BY <1>2, <2>2, SMT DEF All
    <3> QED
      BY <3>1, <2>2, SMT DEF High, All, Half
  <2> QED
    BY <2>1, <2>2 DEF Width
<1>5. f.carry = (v \div All(w)) % 2 /\ f.s1 = (a \div Half(w)) % 2 /\ f.s2 = (b \div Half(w)) % 2
  BY LazyFields
<1> HIDE DEF f
<1>6. /\ IS_CF_SET(f) <=> (v \div All(w)) % 2 = 1
      /\ IS_ZF_SET(f) <=> v % All(w) = 0
      /\ IS_SF_SET(f) <=> High(w, v)
      /\ IS_OF_SET(f) <=>
           /\ (a \div Half(w)) % 2 = (b \div Half(w)) % 2
           /\ (a \div Half(w)) % 2 # IF High(w, v) THEN 1 ELSE 0
  BY <1>1, <1>3, <1>4, <1>5 DEF IS_CF_SET, IS_ZF_SET, IS_SF_SET, IS_OF_SET, Bool
<1> QED
  BY <1>6 DEF f

-----------------------------------------------------------------------------
(* What f leaves and the processor's flags c agree about the flags in k. *)
Agree(f, c, k) ==
    /\ "cf" \in k => (IS_CF_SET(f) <=> c.cf)
    /\ "zf" \in k => (IS_ZF_SET(f) <=> c.zf)
    /\ "sf" \in k => (IS_SF_SET(f) <=> c.sf)
    /\ "of" \in k => (IS_OF_SET(f) <=> c.of)
    /\ "df" \in k => (DF <=> c.df)

(* The inductive invariant. *)
IInv == InterpTypeOK /\ Agree(lazy, cpu, known) /\ exact /\ JumpsDecide

(* Agree says of the five flags what FlagsExact says of the known ones.     *)
LEMMA AgreeIsExact == InterpTypeOK => (FlagsExact <=> Agree(lazy, cpu, known))
<1> SUFFICES ASSUME InterpTypeOK PROVE FlagsExact <=> Agree(lazy, cpu, known)
  OBVIOUS
<1> DEFINE r == [cf |-> IS_CF_SET(lazy), zf |-> IS_ZF_SET(lazy), sf |-> IS_SF_SET(lazy),
                 of |-> IS_OF_SET(lazy), df |-> DF]
<1>1. r["cf"] = IS_CF_SET(lazy) /\ r["zf"] = IS_ZF_SET(lazy) /\ r["sf"] = IS_SF_SET(lazy)
      /\ r["of"] = IS_OF_SET(lazy) /\ r["df"] = DF
  BY SMT
<1>2. FlagsExact <=> \A g \in known : r[g] = cpu[g]
  BY DEF FlagsExact
<1>3. /\ IS_CF_SET(lazy) \in BOOLEAN /\ IS_ZF_SET(lazy) \in BOOLEAN /\ IS_SF_SET(lazy) \in BOOLEAN
      /\ IS_OF_SET(lazy) \in BOOLEAN /\ DF \in BOOLEAN
  BY DEF InterpTypeOK, IS_CF_SET, IS_ZF_SET, IS_SF_SET, IS_OF_SET, Bool
<1>4. known \subseteq {"cf", "zf", "sf", "of", "df"}
  BY DEF InterpTypeOK, Flag
<1>5. cpu["cf"] \in BOOLEAN /\ cpu["zf"] \in BOOLEAN /\ cpu["sf"] \in BOOLEAN
      /\ cpu["of"] \in BOOLEAN /\ cpu["df"] \in BOOLEAN
  BY DEF InterpTypeOK, Flag
<1> HIDE DEF r
<1>6. (\A g \in known : r[g] = cpu[g]) <=>
         /\ "cf" \in known => r["cf"] = cpu["cf"]
         /\ "zf" \in known => r["zf"] = cpu["zf"]
         /\ "sf" \in known => r["sf"] = cpu["sf"]
         /\ "of" \in known => r["of"] = cpu["of"]
         /\ "df" \in known => r["df"] = cpu["df"]
  BY <1>4
<1>7. /\ (r["cf"] = cpu["cf"]) <=> (IS_CF_SET(lazy) <=> cpu["cf"])
      /\ (r["zf"] = cpu["zf"]) <=> (IS_ZF_SET(lazy) <=> cpu["zf"])
      /\ (r["sf"] = cpu["sf"]) <=> (IS_SF_SET(lazy) <=> cpu["sf"])
      /\ (r["of"] = cpu["of"]) <=> (IS_OF_SET(lazy) <=> cpu["of"])
      /\ (r["df"] = cpu["df"]) <=> (DF <=> cpu["df"])
  BY <1>1, <1>3, <1>5, Zenon
<1> QED
  BY <1>2, <1>6, <1>7, Zenon DEF Agree

(* An instruction keeps the invariant when its result is right and what it leaves *)
(* agrees with the processor.                                               *)
LEMMA RanKeeps ==
    ASSUME IInv, NEW f \in Left, NEW out, NEW c \in [Flag -> BOOLEAN], NEW k \in SUBSET Flag,
           Ran(f, out, c, out, k), Agree(f, c, k)
    PROVE  IInv'
<1>1. lazy' = f /\ cpu' = c /\ known' = k /\ exact' /\ exact' \in BOOLEAN /\ compared' = {} /\ DF' = DF
  BY DEF Ran
<1>2. InterpTypeOK'
  BY <1>1 DEF InterpTypeOK, IInv
<1>3. Agree(lazy, cpu, known)'
  BY <1>1 DEF Agree, IS_CF_SET, IS_ZF_SET, IS_SF_SET, IS_OF_SET, Bool
<1>4. JumpsDecide'
  BY <1>1 DEF JumpsDecide
<1> QED
  BY <1>1, <1>2, <1>3, <1>4 DEF IInv

LEMMA FlagsOfFlags ==
    ASSUME InterpTypeOK, NEW w \in Width, NEW r \in Int, NEW cf \in BOOLEAN, NEW of \in BOOLEAN
    PROVE  /\ FlagsOf(w, r, cf, of) \in [Flag -> BOOLEAN]
           /\ FlagsOf(w, r, cf, of).cf = cf /\ FlagsOf(w, r, cf, of).of = of
           /\ FlagsOf(w, r, cf, of).zf = (r = 0)
           /\ FlagsOf(w, r, cf, of).sf = (r >= Half(w))
           /\ FlagsOf(w, r, cf, of).df = cpu.df
<1>1. 2^(w - 1) = Half(w)
  BY Sizes
<1>2. cpu.df \in BOOLEAN
  BY DEF InterpTypeOK, Flag
<1>3. FlagsOf(w, r, cf, of) = [cf |-> cf, zf |-> r = 0, sf |-> r >= Half(w), of |-> of, df |-> cpu.df]
  BY <1>1 DEF FlagsOf
<1> DEFINE z == r = 0
           s == r >= Half(w)
           d == cpu.df
<1>4. z \in BOOLEAN /\ s \in BOOLEAN /\ d \in BOOLEAN
  BY <1>2
<1>5. FlagsOf(w, r, cf, of) = [cf |-> cf, zf |-> z, sf |-> s, of |-> of, df |-> d]
  BY <1>3
<1> HIDE DEF z, s, d
<1>6. /\ FlagsOf(w, r, cf, of).cf = cf /\ FlagsOf(w, r, cf, of).of = of
      /\ FlagsOf(w, r, cf, of).zf = z /\ FlagsOf(w, r, cf, of).sf = s /\ FlagsOf(w, r, cf, of).df = d
  BY <1>5, SMT
<1>7. FlagsOf(w, r, cf, of) \in [Flag -> BOOLEAN]
  BY <1>4, <1>5, SMT DEF Flag
<1> QED
  BY <1>6, <1>7, Zenon DEF z, s, d

(* Carry and overflow of an addition, read from the operands.               *)
LEMMA AddFlags ==
    ASSUME NEW w \in Width, NEW x \in Int, 0 <= x, x < All(w),
           NEW y \in Int, 0 <= y, y < All(w), NEW carry \in {0, 1}
    PROVE  LET v == y + carry IN
           /\ ((x + v) \div All(w)) % 2 = 1 <=> x + v >= All(w)
           /\ ~(carry = 1 /\ v = Half(w)) =>
              ((/\ (x \div Half(w)) % 2 = (v \div Half(w)) % 2
                /\ (x \div Half(w)) % 2 # IF High(w, x + v) THEN 1 ELSE 0)
               <=> Overflows(w, Signed(w, x) + Signed(w, y) + carry))
<1>1. CASE w = 8
  <2>1. All(w) = 256 /\ Half(w) = 128
    BY <1>1, SMT DEF All, Half
  <2>2. 2^w = 256 /\ 2^(w-1) = 128
    BY <2>1, Sizes, SMT
  <2>3. (x \div Half(w)) % 2 = IF x >= 128 THEN 1 ELSE 0
    BY <2>1, SMT
  <2> DEFINE v == y + carry
  <2>4. v \in Int /\ 0 <= v /\ v <= 256 /\ (carry = 0 \/ carry = 1) /\ v = y + carry
    BY <2>1, SMT
  <2> HIDE DEF v
  <2>5. (v \div Half(w)) % 2 = IF v >= 128 /\ v < 256 THEN 1 ELSE 0
    BY <2>1, <2>4, SMT
  <2>6. (x + v) % All(w) = IF x + v >= 256 THEN x + v - 256 ELSE x + v
    BY <2>1, <2>4, SMT
  <2>7. ((x + v) \div All(w)) % 2 = 1 <=> x + v >= 256
    BY <2>1, <2>4, SMT
  <2>8. 0 <= x /\ x < 256 /\ 0 <= y /\ y < 256
    BY <2>1
  <2>9. Overflows(w, Signed(w, x) + Signed(w, y) + carry) <=>
          LET t == (IF x >= 128 THEN x - 256 ELSE x) + (IF y >= 128 THEN y - 256 ELSE y) + carry
          IN t < -128 \/ t > 128-1
    BY <2>2, <2>8, <2>4, SMT DEF Overflows, Signed
  <2>10. High(w, x + v) <=> (IF x + v >= 256 THEN x + v - 256 ELSE x + v) >= 128
    BY <2>1, <2>6, SMT DEF High
  <2>11. ASSUME ~(carry = 1 /\ v = Half(w))
         PROVE  ((/\ (x \div Half(w)) % 2 = (v \div Half(w)) % 2
                  /\ (x \div Half(w)) % 2 # IF High(w, x + v) THEN 1 ELSE 0)
               <=> Overflows(w, Signed(w, x) + Signed(w, y) + carry))
    BY <2>1, <2>3, <2>4, <2>5, <2>8, <2>9, <2>10, <2>11, SMT
  <2> QED
    BY <2>1, <2>7, <2>11 DEF v
<1>2. CASE w = 16
  <2>1. All(w) = 65536 /\ Half(w) = 32768
    BY <1>2, SMT DEF All, Half
  <2>2. 2^w = 65536 /\ 2^(w-1) = 32768
    BY <2>1, Sizes, SMT
  <2>3. (x \div Half(w)) % 2 = IF x >= 32768 THEN 1 ELSE 0
    BY <2>1, SMT
  <2> DEFINE v == y + carry
  <2>4. v \in Int /\ 0 <= v /\ v <= 65536 /\ (carry = 0 \/ carry = 1) /\ v = y + carry
    BY <2>1, SMT
  <2> HIDE DEF v
  <2>5. (v \div Half(w)) % 2 = IF v >= 32768 /\ v < 65536 THEN 1 ELSE 0
    BY <2>1, <2>4, SMT
  <2>6. (x + v) % All(w) = IF x + v >= 65536 THEN x + v - 65536 ELSE x + v
    BY <2>1, <2>4, SMT
  <2>7. ((x + v) \div All(w)) % 2 = 1 <=> x + v >= 65536
    BY <2>1, <2>4, SMT
  <2>8. 0 <= x /\ x < 65536 /\ 0 <= y /\ y < 65536
    BY <2>1
  <2>9. Overflows(w, Signed(w, x) + Signed(w, y) + carry) <=>
          LET t == (IF x >= 32768 THEN x - 65536 ELSE x) + (IF y >= 32768 THEN y - 65536 ELSE y) + carry
          IN t < -32768 \/ t > 32768-1
    BY <2>2, <2>8, <2>4, SMT DEF Overflows, Signed
  <2>10. High(w, x + v) <=> (IF x + v >= 65536 THEN x + v - 65536 ELSE x + v) >= 32768
    BY <2>1, <2>6, SMT DEF High
  <2>11. ASSUME ~(carry = 1 /\ v = Half(w))
         PROVE  ((/\ (x \div Half(w)) % 2 = (v \div Half(w)) % 2
                  /\ (x \div Half(w)) % 2 # IF High(w, x + v) THEN 1 ELSE 0)
               <=> Overflows(w, Signed(w, x) + Signed(w, y) + carry))
    BY <2>1, <2>3, <2>4, <2>5, <2>8, <2>9, <2>10, <2>11, SMT
  <2> QED
    BY <2>1, <2>7, <2>11 DEF v
<1> QED
  BY <1>1, <1>2 DEF Width

(* Carry and overflow of a subtraction, whose second operand is left negated. *)
LEMMA SubtractFlags ==
    ASSUME NEW w \in Width, NEW x \in Int, 0 <= x, x < All(w),
           NEW y \in Int, 0 <= y, y < All(w), NEW carry \in {0, 1}
    PROVE  LET v == y + carry IN
           /\ Minus(w, v) \in Int
           /\ ((x - v) \div All(w)) % 2 = 1 <=> x - v < 0
           /\ ~(carry = 1 /\ v = Half(w)) =>
              ((/\ (x \div Half(w)) % 2 = (Minus(w, v) \div Half(w)) % 2
                /\ (x \div Half(w)) % 2 # IF High(w, x - v) THEN 1 ELSE 0)
               <=> Overflows(w, Signed(w, x) - Signed(w, y) - carry))
<1>1. CASE w = 8
  <2>1. All(w) = 256 /\ Half(w) = 128
    BY <1>1, SMT DEF All, Half
  <2>2. 2^w = 256 /\ 2^(w-1) = 128
    BY <2>1, Sizes, SMT
  <2>3. (x \div Half(w)) % 2 = IF x >= 128 THEN 1 ELSE 0
    BY <2>1, SMT
  <2> DEFINE v == y + carry
             m == Minus(w, v)
  <2>4. v \in Int /\ 0 <= v /\ v <= 256 /\ (carry = 0 \/ carry = 1) /\ v = y + carry
    BY <2>1, SMT
  <2>m. m = IF v % 256 = 128 THEN 0 ELSE -v
    BY <2>2 DEF Minus
  <2> HIDE DEF v, m
  <2>5. m \in Int /\ (m \div Half(w)) % 2 = IF 0 < v /\ v < 128 THEN 1 ELSE 0
    BY <2>1, <2>4, <2>m, SMT
  <2>6. (x - v) % All(w) = IF x - v < 0 THEN x - v + 256 ELSE x - v
    BY <2>1, <2>4, SMT
  <2>7. ((x - v) \div All(w)) % 2 = 1 <=> x - v < 0
    BY <2>1, <2>4, SMT
  <2>8. 0 <= x /\ x < 256 /\ 0 <= y /\ y < 256
    BY <2>1
  <2>9. Overflows(w, Signed(w, x) - Signed(w, y) - carry) <=>
          LET t == (IF x >= 128 THEN x - 256 ELSE x) - (IF y >= 128 THEN y - 256 ELSE y) - carry
          IN t < -128 \/ t > 128-1
    BY <2>2, <2>8, <2>4, SMT DEF Overflows, Signed
  <2>10. High(w, x - v) <=> (IF x - v < 0 THEN x - v + 256 ELSE x - v) >= 128
    BY <2>1, <2>6, SMT DEF High
  <2>11. ASSUME ~(carry = 1 /\ v = Half(w))
         PROVE  ((/\ (x \div Half(w)) % 2 = (m \div Half(w)) % 2
                  /\ (x \div Half(w)) % 2 # IF High(w, x - v) THEN 1 ELSE 0)
               <=> Overflows(w, Signed(w, x) - Signed(w, y) - carry))
    BY <2>1, <2>3, <2>4, <2>5, <2>8, <2>9, <2>10, <2>11, SMT
  <2> QED
    BY <2>1, <2>5, <2>7, <2>11 DEF v, m
<1>2. CASE w = 16
  <2>1. All(w) = 65536 /\ Half(w) = 32768
    BY <1>2, SMT DEF All, Half
  <2>2. 2^w = 65536 /\ 2^(w-1) = 32768
    BY <2>1, Sizes, SMT
  <2>3. (x \div Half(w)) % 2 = IF x >= 32768 THEN 1 ELSE 0
    BY <2>1, SMT
  <2> DEFINE v == y + carry
             m == Minus(w, v)
  <2>4. v \in Int /\ 0 <= v /\ v <= 65536 /\ (carry = 0 \/ carry = 1) /\ v = y + carry
    BY <2>1, SMT
  <2>m. m = IF v % 65536 = 32768 THEN 0 ELSE -v
    BY <2>2 DEF Minus
  <2> HIDE DEF v, m
  <2>5. m \in Int /\ (m \div Half(w)) % 2 = IF 0 < v /\ v < 32768 THEN 1 ELSE 0
    BY <2>1, <2>4, <2>m, SMT
  <2>6. (x - v) % All(w) = IF x - v < 0 THEN x - v + 65536 ELSE x - v
    BY <2>1, <2>4, SMT
  <2>7. ((x - v) \div All(w)) % 2 = 1 <=> x - v < 0
    BY <2>1, <2>4, SMT
  <2>8. 0 <= x /\ x < 65536 /\ 0 <= y /\ y < 65536
    BY <2>1
  <2>9. Overflows(w, Signed(w, x) - Signed(w, y) - carry) <=>
          LET t == (IF x >= 32768 THEN x - 65536 ELSE x) - (IF y >= 32768 THEN y - 65536 ELSE y) - carry
          IN t < -32768 \/ t > 32768-1
    BY <2>2, <2>8, <2>4, SMT DEF Overflows, Signed
  <2>10. High(w, x - v) <=> (IF x - v < 0 THEN x - v + 65536 ELSE x - v) >= 32768
    BY <2>1, <2>6, SMT DEF High
  <2>11. ASSUME ~(carry = 1 /\ v = Half(w))
         PROVE  ((/\ (x \div Half(w)) % 2 = (m \div Half(w)) % 2
                  /\ (x \div Half(w)) % 2 # IF High(w, x - v) THEN 1 ELSE 0)
               <=> Overflows(w, Signed(w, x) - Signed(w, y) - carry))
    BY <2>1, <2>3, <2>4, <2>5, <2>8, <2>9, <2>10, <2>11, SMT
  <2> QED
    BY <2>1, <2>5, <2>7, <2>11 DEF v, m
<1> QED
  BY <1>1, <1>2 DEF Width

(* Overflow of INC and DEC.                                                 *)
LEMMA StepFlags ==
    ASSUME NEW w \in Width, NEW x \in Int, 0 <= x, x < All(w), NEW by \in {1, -1}
    PROVE  (/\ (x \div Half(w)) % 2 = (by \div Half(w)) % 2
            /\ (x \div Half(w)) % 2 # IF High(w, x + by) THEN 1 ELSE 0)
           <=> Overflows(w, Signed(w, x) + by)
<1>1. CASE w = 8
  <2>1. All(w) = 256 /\ Half(w) = 128
    BY <1>1, SMT DEF All, Half
  <2>2. 2^w = 256 /\ 2^(w-1) = 128
    BY <2>1, Sizes, SMT
  <2>3. (x \div Half(w)) % 2 = IF x >= 128 THEN 1 ELSE 0
    BY <2>1, SMT
  <2>4. by \in Int /\ (by = 1 \/ by = -1)
    BY SMT
  <2>5. (by \div Half(w)) % 2 = IF by = 1 THEN 0 ELSE 1
    BY <2>1, <2>4, SMT
  <2>6. (x + by) % All(w) = IF x + by < 0 THEN 256-1 ELSE IF x + by = 256 THEN 0 ELSE x + by
    BY <2>1, <2>4, SMT
  <2>8. 0 <= x /\ x < 256
    BY <2>1
  <2>9. Overflows(w, Signed(w, x) + by) <=>
          LET t == (IF x >= 128 THEN x - 256 ELSE x) + by
          IN t < -128 \/ t > 128-1
    BY <2>2, <2>8, <2>4, SMT DEF Overflows, Signed
  <2>10. High(w, x + by) <=>
           (IF x + by < 0 THEN 256-1 ELSE IF x + by = 256 THEN 0 ELSE x + by) >= 128
    BY <2>1, <2>6, SMT DEF High
  <2> QED
    BY <2>3, <2>4, <2>5, <2>8, <2>9, <2>10, SMT
<1>2. CASE w = 16
  <2>1. All(w) = 65536 /\ Half(w) = 32768
    BY <1>2, SMT DEF All, Half
  <2>2. 2^w = 65536 /\ 2^(w-1) = 32768
    BY <2>1, Sizes, SMT
  <2>3. (x \div Half(w)) % 2 = IF x >= 32768 THEN 1 ELSE 0
    BY <2>1, SMT
  <2>4. by \in Int /\ (by = 1 \/ by = -1)
    BY SMT
  <2>5. (by \div Half(w)) % 2 = IF by = 1 THEN 0 ELSE 1
    BY <2>1, <2>4, SMT
  <2>6. (x + by) % All(w) = IF x + by < 0 THEN 65536-1 ELSE IF x + by = 65536 THEN 0 ELSE x + by
    BY <2>1, <2>4, SMT
  <2>8. 0 <= x /\ x < 65536
    BY <2>1
  <2>9. Overflows(w, Signed(w, x) + by) <=>
          LET t == (IF x >= 32768 THEN x - 65536 ELSE x) + by
          IN t < -32768 \/ t > 32768-1
    BY <2>2, <2>8, <2>4, SMT DEF Overflows, Signed
  <2>10. High(w, x + by) <=>
           (IF x + by < 0 THEN 65536-1 ELSE IF x + by = 65536 THEN 0 ELSE x + by) >= 32768
    BY <2>1, <2>6, SMT DEF High
  <2> QED
    BY <2>3, <2>4, <2>5, <2>8, <2>9, <2>10, SMT
<1> QED
  BY <1>1, <1>2 DEF Width

LEMMA NegFlags ==
    ASSUME NEW w \in Width, NEW x \in Int, 0 <= x, x < All(w)
    PROVE  /\ ((-x) \div All(w)) % 2 = 1 <=> x # 0
           /\ x # Half(w) =>
              ((/\ (0 \div Half(w)) % 2 = ((-x) \div Half(w)) % 2
                /\ (0 \div Half(w)) % 2 # IF High(w, -x) THEN 1 ELSE 0)
               <=> Overflows(w, -Signed(w, x)))
<1>1. CASE w = 8
  <2>1. All(w) = 256 /\ Half(w) = 128
    BY <1>1, SMT DEF All, Half
  <2>2. 2^w = 256 /\ 2^(w-1) = 128
    BY <2>1, Sizes, SMT
  <2>4. ((-x) \div All(w)) % 2 = 1 <=> x # 0
    BY <2>1, SMT
  <2>3. (0 \div Half(w)) % 2 = 0
    BY <2>1, SMT
  <2>5. ((-x) \div Half(w)) % 2 = IF x = 0 \/ x > 128 THEN 0 ELSE 1
    BY <2>1, SMT
  <2>6. (-x) % All(w) = IF x = 0 THEN 0 ELSE 256 - x
    BY <2>1, SMT
  <2>8. 0 <= x /\ x < 256
    BY <2>1
  <2>9. Overflows(w, -Signed(w, x)) <=>
          LET t == -(IF x >= 128 THEN x - 256 ELSE x)
          IN t < -128 \/ t > 128-1
    BY <2>2, <2>8, SMT DEF Overflows, Signed
  <2>10. High(w, -x) <=> (IF x = 0 THEN 0 ELSE 256 - x) >= 128
    BY <2>1, <2>6, SMT DEF High
  <2> QED
    BY <2>1, <2>3, <2>4, <2>5, <2>8, <2>9, <2>10, SMT
<1>2. CASE w = 16
  <2>1. All(w) = 65536 /\ Half(w) = 32768
    BY <1>2, SMT DEF All, Half
  <2>2. 2^w = 65536 /\ 2^(w-1) = 32768
    BY <2>1, Sizes, SMT
  <2>4. ((-x) \div All(w)) % 2 = 1 <=> x # 0
    BY <2>1, SMT
  <2>3. (0 \div Half(w)) % 2 = 0
    BY <2>1, SMT
  <2>5. ((-x) \div Half(w)) % 2 = IF x = 0 \/ x > 32768 THEN 0 ELSE 1
    BY <2>1, SMT
  <2>6. (-x) % All(w) = IF x = 0 THEN 0 ELSE 65536 - x
    BY <2>1, SMT
  <2>8. 0 <= x /\ x < 65536
    BY <2>1
  <2>9. Overflows(w, -Signed(w, x)) <=>
          LET t == -(IF x >= 32768 THEN x - 65536 ELSE x)
          IN t < -32768 \/ t > 32768-1
    BY <2>2, <2>8, SMT DEF Overflows, Signed
  <2>10. High(w, -x) <=> (IF x = 0 THEN 0 ELSE 65536 - x) >= 32768
    BY <2>1, <2>6, SMT DEF High
  <2> QED
    BY <2>1, <2>3, <2>4, <2>5, <2>8, <2>9, <2>10, SMT
<1> QED
  BY <1>1, <1>2 DEF Width

LEMMA LogicFlags ==
    ASSUME NEW w \in Width, NEW v \in Int, 0 <= v, v < All(w)
    PROVE  /\ ((v \div All(w)) % 2 = 1) <=> FALSE
           /\ (v \div Half(w)) % 2 = IF High(w, v) THEN 1 ELSE 0
           /\ v % All(w) = v
           /\ High(w, v) <=> v >= Half(w)
<1>1. CASE w = 8
  <2>1. All(w) = 256 /\ Half(w) = 128
    BY <1>1, SMT DEF All, Half
  <2>2. 2^w = 256 /\ 2^(w-1) = 128
    BY <2>1, Sizes, SMT
  <2> QED
    BY <2>1, SMT DEF High
<1>2. CASE w = 16
  <2>1. All(w) = 65536 /\ Half(w) = 32768
    BY <1>2, SMT DEF All, Half
  <2>2. 2^w = 65536 /\ 2^(w-1) = 32768
    BY <2>1, Sizes, SMT
  <2> QED
    BY <2>1, SMT DEF High
<1> QED
  BY <1>1, <1>2 DEF Width

-----------------------------------------------------------------------------
(* Operands fit their width.                                                *)
LEMMA ValueIs ==
    ASSUME NEW w \in Width, NEW x \in Value(w)
    PROVE  x \in Int /\ 0 <= x /\ x < All(w)
<1>1. CASE w = 8
  <2>1. x \in Bytes /\ Bytes \subseteq 0..255
    BY <1>1, InterpAssumption, Zenon DEF Value
  <2>2. x \in 0..255
    BY <2>1, Zenon
  <2> QED
    BY <1>1, <2>2, SMT DEF All
<1>2. CASE w = 16
  <2>1. w # 8
    BY <1>2
  <2>2. x \in Words /\ Words \subseteq 0..Highest
    BY <2>1, InterpAssumption, Zenon DEF Value
  <2>3. x \in 0..Highest
    BY <2>2, Zenon
  <2>4. x \in Int /\ 0 <= x /\ x <= Highest
    BY <2>3, SMT
  <2> QED
    BY <1>2, <2>4, SMT DEF All, Highest
<1> QED
  BY <1>1, <1>2 DEF Width

LEMMA FlagsAgree ==
    ASSUME IInv, NEW w \in Width, NEW r \in Int, NEW cf \in BOOLEAN, NEW of \in BOOLEAN,
           NEW f, NEW k \in SUBSET Flag,
           "cf" \in k => (IS_CF_SET(f) <=> cf),
           "zf" \in k => (IS_ZF_SET(f) <=> r = 0),
           "sf" \in k => (IS_SF_SET(f) <=> r >= Half(w)),
           "of" \in k => (IS_OF_SET(f) <=> of),
           "df" \in k => "df" \in known
    PROVE  /\ FlagsOf(w, r, cf, of) \in [Flag -> BOOLEAN]
           /\ Agree(f, FlagsOf(w, r, cf, of), k)
<1> DEFINE c == FlagsOf(w, r, cf, of)
<1>0. InterpTypeOK
  BY DEF IInv
<1>1. c \in [Flag -> BOOLEAN] /\ c.cf = cf /\ c.of = of /\ c.zf = (r = 0) /\ c.sf = (r >= Half(w))
      /\ c.df = cpu.df
  BY <1>0, FlagsOfFlags
<1>2. "df" \in k => (DF <=> cpu.df)
  BY DEF IInv, Agree
<1> HIDE DEF c
<1>3. Agree(f, c, k)
  BY <1>1, <1>2, Zenon DEF Agree
<1> QED
  BY <1>1, <1>3 DEF c

(* The carry ADC and SBB take is the processor's.                           *)
LEMMA CarryIsTaken ==
    ASSUME IInv, NEW carry \in {0, 1}, carry \in {0, lazy.carry}, carry = 1 => "cf" \in known
    PROVE  Num(carry = 1 /\ cpu.cf) = carry
<1>1. CASE carry = 0
  BY <1>1 DEF Num
<1>2. CASE carry = 1
  <2>1. lazy.carry = 1 /\ "cf" \in known
    BY <1>2
  <2>2. cpu.cf
    BY <2>1 DEF IInv, Agree, IS_CF_SET, Bool
  <2> QED
    BY <1>2, <2>2 DEF Num
<1> QED
  BY <1>1, <1>2

LEMMA OverflowsBool == ASSUME NEW w, NEW v PROVE Overflows(w, v) \in BOOLEAN
BY DEF Overflows

LEMMA AddKeeps ==
    ASSUME IInv, NEW w \in Width, NEW x \in Value(w), NEW y \in Value(w), NEW carry \in {0, 1},
           Add(w, x, y, carry)
    PROVE  IInv'
<1> DEFINE v == y + carry
           o == Overflows(w, Signed(w, x) + Signed(w, y) + carry)
           f == Lazy(w, x + v, x, v)
           r == (x + v) % All(w)
           c == FlagsOf(w, r, x + v >= All(w), o)
           k == (Arithmetic \ IF carry = 1 /\ v = Half(w) THEN {"of"} ELSE {}) \cup DfKnown
<1>1. x \in Int /\ 0 <= x /\ x < All(w) /\ y \in Int /\ 0 <= y /\ y < All(w)
  BY ValueIs
<1>2. 2^w = All(w) /\ 2^(w - 1) = Half(w) /\ All(w) \in Int /\ All(w) > 0 /\ Half(w) \in Int
  BY Sizes DEF All, Half
<1>3. Num(carry = 1 /\ cpu.cf) = carry
  BY CarryIsTaken DEF Add
<1>4. x + y + Num(carry = 1 /\ cpu.cf) = x + v /\ v \in Int /\ x + v \in Int
  BY <1>1, <1>3
<1>5. Ran(f, r, c, r, k)
  BY <1>2, <1>4 DEF Add
<1>6. f \in Left /\ k \in SUBSET Flag
  BY <1>1, <1>4, LazyTyped DEF Arithmetic, DfKnown, Flag
<1>7. r \in Int
  BY <1>2, <1>4, Divided
<1>8. /\ IS_CF_SET(f) <=> x + v >= All(w)
      /\ IS_ZF_SET(f) <=> r = 0
      /\ IS_SF_SET(f) <=> r >= Half(w)
      /\ "of" \in k => (IS_OF_SET(f) <=> o)
  <2>1. /\ IS_CF_SET(f) <=> ((x + v) \div All(w)) % 2 = 1
        /\ IS_ZF_SET(f) <=> r = 0
        /\ IS_SF_SET(f) <=> High(w, x + v)
        /\ IS_OF_SET(f) <=> /\ (x \div Half(w)) % 2 = (v \div Half(w)) % 2
                            /\ (x \div Half(w)) % 2 # IF High(w, x + v) THEN 1 ELSE 0
    BY <1>1, <1>4, LazyFlags
  <2>2. /\ ((x + v) \div All(w)) % 2 = 1 <=> x + v >= All(w)
        /\ ~(carry = 1 /\ v = Half(w)) =>
              ((/\ (x \div Half(w)) % 2 = (v \div Half(w)) % 2
                /\ (x \div Half(w)) % 2 # IF High(w, x + v) THEN 1 ELSE 0) <=> o)
    BY <1>1, AddFlags
  <2>3. "of" \in k => ~(carry = 1 /\ v = Half(w))
    BY DEF Arithmetic, DfKnown
  <2> QED
    BY <2>1, <2>2, <2>3, Zenon DEF High
<1>9. "df" \in k => "df" \in known
  BY DEF Arithmetic, DfKnown
<1>10. (x + v >= All(w)) \in BOOLEAN /\ o \in BOOLEAN
  BY OverflowsBool
<1> HIDE DEF f, r, o, k
<1>11. c \in [Flag -> BOOLEAN] /\ Agree(f, c, k)
  BY <1>6, <1>7, <1>8, <1>9, <1>10, FlagsAgree
<1> QED
  BY <1>5, <1>6, <1>11, RanKeeps

LEMMA SubtractReads ==
    ASSUME NEW w \in Width, NEW x \in Value(w), NEW y \in Value(w), NEW carry \in {0, 1}
    PROVE  LET v == y + carry
               f == Lazy(w, x - v, x, Minus(w, v))
           IN  /\ f \in Left
               /\ IS_CF_SET(f) <=> x - v < 0
               /\ IS_ZF_SET(f) <=> (x - v) % All(w) = 0
               /\ IS_SF_SET(f) <=> (x - v) % All(w) >= Half(w)
               /\ ~(carry = 1 /\ v = Half(w)) =>
                    (IS_OF_SET(f) <=> Overflows(w, Signed(w, x) - Signed(w, y) - carry))
<1> DEFINE v == y + carry
           m == Minus(w, v)
           f == Lazy(w, x - v, x, m)
<1>1. x \in Int /\ 0 <= x /\ x < All(w) /\ y \in Int /\ 0 <= y /\ y < All(w)
  BY ValueIs
<1>2. v \in Int /\ x - v \in Int
  BY <1>1
<1>3. /\ m \in Int
      /\ ((x - v) \div All(w)) % 2 = 1 <=> x - v < 0
      /\ ~(carry = 1 /\ v = Half(w)) =>
              ((/\ (x \div Half(w)) % 2 = (m \div Half(w)) % 2
                /\ (x \div Half(w)) % 2 # IF High(w, x - v) THEN 1 ELSE 0)
               <=> Overflows(w, Signed(w, x) - Signed(w, y) - carry))
  BY <1>1, SubtractFlags
<1> HIDE DEF v, m
<1>4. f \in Left
  BY <1>1, <1>2, <1>3, LazyTyped
<1>5. /\ IS_CF_SET(f) <=> ((x - v) \div All(w)) % 2 = 1
      /\ IS_ZF_SET(f) <=> (x - v) % All(w) = 0
      /\ IS_SF_SET(f) <=> High(w, x - v)
      /\ IS_OF_SET(f) <=> /\ (x \div Half(w)) % 2 = (m \div Half(w)) % 2
                          /\ (x \div Half(w)) % 2 # IF High(w, x - v) THEN 1 ELSE 0
  BY <1>1, <1>2, <1>3, LazyFlags
<1> HIDE DEF f
<1>6. /\ f \in Left
      /\ IS_CF_SET(f) <=> x - v < 0
      /\ IS_ZF_SET(f) <=> (x - v) % All(w) = 0
      /\ IS_SF_SET(f) <=> (x - v) % All(w) >= Half(w)
      /\ ~(carry = 1 /\ v = Half(w)) =>
           (IS_OF_SET(f) <=> Overflows(w, Signed(w, x) - Signed(w, y) - carry))
  BY <1>3, <1>4, <1>5, Zenon DEF High
<1> QED
  BY <1>6, Zenon DEF f, m, v

LEMMA SubtractKeeps ==
    ASSUME IInv, NEW w \in Width, NEW x \in Value(w), NEW y \in Value(w), NEW carry \in {0, 1},
           Subtract(w, x, y, carry)
    PROVE  IInv'
<1> DEFINE v == y + carry
           o == Overflows(w, Signed(w, x) - Signed(w, y) - carry)
           f == Lazy(w, x - v, x, Minus(w, v))
           r == (x - v) % All(w)
           c == FlagsOf(w, r, x - v < 0, o)
           k == (Arithmetic \ IF carry = 1 /\ v = Half(w) THEN {"of"} ELSE {}) \cup DfKnown
<1>1. x \in Int /\ y \in Int
  BY ValueIs
<1>2. 2^w = All(w) /\ 2^(w - 1) = Half(w) /\ All(w) \in Int /\ All(w) > 0 /\ Half(w) \in Int
  BY Sizes DEF All, Half
<1>3. Num(carry = 1 /\ cpu.cf) = carry
  BY CarryIsTaken DEF Subtract
<1>4. x - y - Num(carry = 1 /\ cpu.cf) = x - v /\ v \in Int /\ x - v \in Int
  BY <1>1, <1>3
<1>5. Ran(f, r, c, r, k)
  BY <1>2, <1>4 DEF Subtract
<1>6. k \in SUBSET Flag
  BY DEF Arithmetic, DfKnown, Flag
<1>7. r \in Int
  BY <1>2, <1>4, Divided
<1>8. /\ f \in Left
      /\ IS_CF_SET(f) <=> x - v < 0
      /\ IS_ZF_SET(f) <=> r = 0
      /\ IS_SF_SET(f) <=> r >= Half(w)
      /\ "of" \in k => (IS_OF_SET(f) <=> o)
  <2>1. "of" \in k => ~(carry = 1 /\ v = Half(w))
    BY DEF Arithmetic, DfKnown
  <2> QED
    BY <2>1, SubtractReads, Zenon
<1>9. "df" \in k => "df" \in known
  BY DEF Arithmetic, DfKnown
<1>10. (x - v < 0) \in BOOLEAN /\ o \in BOOLEAN
  BY OverflowsBool
<1> HIDE DEF f, r, o, k
<1>11. c \in [Flag -> BOOLEAN] /\ Agree(f, c, k)
  BY <1>6, <1>7, <1>8, <1>9, <1>10, FlagsAgree
<1> QED
  BY <1>5, <1>6, <1>8, <1>11, RanKeeps

(* What sign and overflow of a difference say of the order of signed operands. *)
LEMMA SignedOrder ==
    ASSUME NEW w \in Width, NEW x \in Value(w), NEW y \in Value(w)
    PROVE  LET r == (x - y) % All(w)
               o == Overflows(w, Signed(w, x) - Signed(w, y))
           IN  /\ (r = 0) <=> x = y
               /\ ((r >= Half(w)) # o) <=> Signed(w, x) < Signed(w, y)
               /\ Signed(w, x) \in Int /\ Signed(w, y) \in Int
               /\ (Signed(w, x) = Signed(w, y)) <=> x = y
<1>0. x \in Int /\ 0 <= x /\ x < All(w) /\ y \in Int /\ 0 <= y /\ y < All(w)
  BY ValueIs
<1> DEFINE a == Signed(w, x)
           b == Signed(w, y)
           r == (x - y) % All(w)
           o == Overflows(w, a - b)
<1>1. CASE w = 8
  <2>1. All(w) = 256 /\ Half(w) = 128
    BY <1>1, SMT DEF All, Half
  <2>2. 2^w = 256 /\ 2^(w-1) = 128
    BY <2>1, Sizes, SMT
  <2>3. r = IF x - y < 0 THEN x - y + 256 ELSE x - y
    BY <1>0, <2>1, SMT
  <2>4. /\ a = IF x >= 128 THEN x - 256 ELSE x
        /\ b = IF y >= 128 THEN y - 256 ELSE y
    BY <2>2, <1>0 DEF Signed
  <2>5. a \in Int /\ b \in Int
    BY <1>0, <2>4, SMT
  <2>7. x < 256 /\ y < 256
    BY <1>0, <2>1
  <2> HIDE DEF a, b, r
  <2>6. o <=> (a - b < -128 \/ a - b > 127)
    BY <2>2, <2>5, SMT DEF Overflows
  <2> HIDE DEF o
  <2>8. (r = 0) <=> x = y
    BY <1>0, <2>3, <2>7, SMT
  <2>9. (r >= 128) <=> ((a < b /\ ~o) \/ (a >= b /\ o))
    BY <1>0, <2>3, <2>4, <2>5, <2>6, <2>7, SMT
  <2>10. o \in BOOLEAN
    BY OverflowsBool DEF o
  <2>11. ((r >= Half(w)) # o) <=> a < b
    BY <2>1, <2>5, <2>9, <2>10, SMT
  <2>12. (a = b) <=> x = y
    BY <1>0, <2>4, <2>7, SMT
  <2> QED
    BY <2>5, <2>8, <2>11, <2>12, Zenon DEF a, b, r, o
<1>2. CASE w = 16
  <2>1. All(w) = 65536 /\ Half(w) = 32768
    BY <1>2, SMT DEF All, Half
  <2>2. 2^w = 65536 /\ 2^(w-1) = 32768
    BY <2>1, Sizes, SMT
  <2>3. r = IF x - y < 0 THEN x - y + 65536 ELSE x - y
    BY <1>0, <2>1, SMT
  <2>4. /\ a = IF x >= 32768 THEN x - 65536 ELSE x
        /\ b = IF y >= 32768 THEN y - 65536 ELSE y
    BY <2>2, <1>0, SMT DEF Signed
  <2>5. a \in Int /\ b \in Int
    BY <1>0, <2>4, SMT
  <2>7. x < 65536 /\ y < 65536
    BY <1>0, <2>1, SMT
  <2> HIDE DEF a, b, r
  <2>6. o <=> (a - b < -32768 \/ a - b > 32767)
    BY <2>2, <2>5, SMT DEF Overflows
  <2> HIDE DEF o
  <2>8. (r = 0) <=> x = y
    BY <1>0, <2>3, <2>7, SMT
  <2>9. (r >= 32768) <=> ((a < b /\ ~o) \/ (a >= b /\ o))
    BY <1>0, <2>3, <2>4, <2>5, <2>6, <2>7, SMT
  <2>10. o \in BOOLEAN
    BY OverflowsBool DEF o
  <2>11. ((r >= Half(w)) # o) <=> a < b
    BY <2>1, <2>5, <2>9, <2>10, SMT
  <2>12. (a = b) <=> x = y
    BY <1>0, <2>4, <2>7, SMT
  <2> QED
    BY <2>5, <2>8, <2>11, <2>12, Zenon DEF a, b, r, o
<1> QED
  BY <1>1, <1>2 DEF Width

LEMMA CompareKeeps ==
    ASSUME IInv, NEW w \in Width, NEW x \in Value(w), NEW y \in Value(w), Compare(w, x, y)
    PROVE  IInv'
<1> DEFINE o == Overflows(w, Signed(w, x) - Signed(w, y))
           f == Lazy(w, x - y, x, Minus(w, y))
           r == (x - y) % All(w)
           c == FlagsOf(w, r, x < y, o)
           k == Arithmetic \cup DfKnown
<1>1. x \in Int /\ y \in Int
  BY ValueIs
<1>2. 2^w = All(w) /\ All(w) \in Int /\ All(w) > 0 /\ Half(w) \in Int
  BY Sizes DEF All, Half
<1>3. lazy' = f /\ cpu' = c /\ known' = k /\ compared' = {<<w, x, y>>} /\ exact' /\ exact' \in BOOLEAN
      /\ DF' = DF
  BY <1>2 DEF Compare
<1>4. y + 0 = y /\ x - y \in Int /\ (x - y < 0 <=> x < y)
      /\ Signed(w, x) - Signed(w, y) - 0 = Signed(w, x) - Signed(w, y)
  <2>1. Signed(w, x) \in Int /\ Signed(w, y) \in Int
    BY SignedOrder
  <2> QED
    BY <1>1, <2>1
<1>5. /\ f \in Left
      /\ IS_CF_SET(f) <=> x < y
      /\ IS_ZF_SET(f) <=> r = 0
      /\ IS_SF_SET(f) <=> r >= Half(w)
      /\ IS_OF_SET(f) <=> o
  <2>1. 0 \in {0, 1} /\ 0 # 1
    OBVIOUS
  <2>2. LET v == y + 0
            g == Lazy(w, x - v, x, Minus(w, v))
        IN  /\ g \in Left
            /\ IS_CF_SET(g) <=> x - v < 0
            /\ IS_ZF_SET(g) <=> (x - v) % All(w) = 0
            /\ IS_SF_SET(g) <=> (x - v) % All(w) >= Half(w)
            /\ ~(0 = 1 /\ v = Half(w)) =>
                    (IS_OF_SET(g) <=> Overflows(w, Signed(w, x) - Signed(w, y) - 0))
    BY <2>1, SubtractReads, Zenon
  <2> QED
    BY <1>4, <2>1, <2>2, Zenon
<1>6. r \in Int /\ k \in SUBSET Flag
  BY <1>1, <1>2, <1>4, Divided DEF Arithmetic, DfKnown, Flag
<1>7. "df" \in k => "df" \in known
  BY DEF Arithmetic, DfKnown
<1>8. (x < y) \in BOOLEAN /\ o \in BOOLEAN
  BY OverflowsBool
<1>9. /\ (r = 0) <=> x = y
      /\ ((r >= Half(w)) # o) <=> Signed(w, x) < Signed(w, y)
      /\ Signed(w, x) \in Int /\ Signed(w, y) \in Int
      /\ (Signed(w, x) = Signed(w, y)) <=> x = y
  BY SignedOrder, Zenon
<1> HIDE DEF f, r, o, k
<1>10. c \in [Flag -> BOOLEAN] /\ Agree(f, c, k)
  BY <1>5, <1>6, <1>7, <1>8, FlagsAgree
<1> HIDE DEF c
<1>11. InterpTypeOK'
  BY <1>3, <1>5, <1>6, <1>10 DEF IInv, InterpTypeOK
<1>12. Agree(lazy, cpu, known)'
  BY <1>3, <1>10 DEF Agree, IS_CF_SET, IS_ZF_SET, IS_SF_SET, IS_OF_SET, Bool
<1>13. (IS_SF_SET(f) # IS_OF_SET(f)) <=> Signed(w, x) < Signed(w, y)
  <2>1. IS_SF_SET(f) \in BOOLEAN /\ IS_OF_SET(f) \in BOOLEAN /\ (r >= Half(w)) \in BOOLEAN
    BY DEF IS_SF_SET, IS_OF_SET, Bool
  <2> QED
    BY <1>5, <1>8, <1>9, <2>1, Zenon
<1>14. /\ JE_JZ(f) <=> x = y
       /\ JB_JNAE(f) <=> x < y
       /\ JBE_JNA(f) <=> x <= y
       /\ JL_JNGE(f) <=> Signed(w, x) < Signed(w, y)
       /\ JLE_JNG(f) <=> Signed(w, x) <= Signed(w, y)
  <2>1. (x <= y) <=> x < y \/ x = y
    BY <1>1
  <2>2. (Signed(w, x) <= Signed(w, y)) <=> Signed(w, x) < Signed(w, y) \/ x = y
    BY <1>9
  <2> QED
    BY <1>5, <1>9, <1>13, <2>1, <2>2, Zenon DEF JE_JZ, JB_JNAE, JBE_JNA, JL_JNGE, JLE_JNG
<1>15. JumpsDecide'
  <2>1. \A p \in compared' : p = <<w, x, y>>
    BY <1>3
  <2>2. lazy' = f
    BY <1>3
  <2> SUFFICES ASSUME NEW p \in compared'
               PROVE  LET x1 == p[2]
                          y1 == p[3]
                          a == Signed(p[1], x1)
                          b == Signed(p[1], y1)
                      IN /\ JE_JZ(lazy') <=> x1 = y1
                         /\ JB_JNAE(lazy') <=> x1 < y1
                         /\ JBE_JNA(lazy') <=> x1 <= y1
                         /\ JL_JNGE(lazy') <=> a < b
                         /\ JLE_JNG(lazy') <=> a <= b
    BY DEF JumpsDecide, JE_JZ, JB_JNAE, JBE_JNA, JL_JNGE, JLE_JNG, IS_CF_SET, IS_ZF_SET, IS_SF_SET,
           IS_OF_SET, Signed, Bool, Sign, Bit
  <2>3. p[1] = w /\ p[2] = x /\ p[3] = y
    BY <2>1
  <2> QED
    BY <1>14, <2>2, <2>3, Zenon
<1> QED
  BY <1>3, <1>11, <1>12, <1>15 DEF IInv

LEMMA LogicKeeps ==
    ASSUME IInv, NEW w \in Width, NEW v \in Value(w), Logic(w, v)
    PROVE  IInv'
<1> DEFINE f == Lazy(w, v, v, v)
           c == FlagsOf(w, v, FALSE, FALSE)
           k == Arithmetic \cup DfKnown
<1>1. v \in Int /\ 0 <= v /\ v < All(w)
  BY ValueIs
<1>2. Ran(f, v, c, v, k)
  BY DEF Logic
<1>3. f \in Left /\ k \in SUBSET Flag
  BY <1>1, LazyTyped DEF Arithmetic, DfKnown, Flag
<1>4. /\ IS_CF_SET(f) <=> FALSE
      /\ IS_ZF_SET(f) <=> v = 0
      /\ IS_SF_SET(f) <=> v >= Half(w)
      /\ IS_OF_SET(f) <=> FALSE
  <2>1. /\ ((v \div All(w)) % 2 = 1) <=> FALSE
        /\ (v \div Half(w)) % 2 = IF High(w, v) THEN 1 ELSE 0
        /\ v % All(w) = v
        /\ High(w, v) <=> v >= Half(w)
    BY <1>1, LogicFlags
  <2>2. /\ IS_CF_SET(f) <=> (v \div All(w)) % 2 = 1
        /\ IS_ZF_SET(f) <=> v % All(w) = 0
        /\ IS_SF_SET(f) <=> High(w, v)
        /\ IS_OF_SET(f) <=> /\ (v \div Half(w)) % 2 = (v \div Half(w)) % 2
                            /\ (v \div Half(w)) % 2 # IF High(w, v) THEN 1 ELSE 0
    BY <1>1, LazyFlags
  <2> QED
    BY <2>1, <2>2, Zenon
<1>5. "df" \in k => "df" \in known
  BY DEF Arithmetic, DfKnown
<1> HIDE DEF f, k
<1>6. c \in [Flag -> BOOLEAN] /\ Agree(f, c, k)
  BY <1>1, <1>3, <1>4, <1>5, FlagsAgree
<1> QED
  BY <1>2, <1>3, <1>6, RanKeeps

(* INC and DEC leave the carry alone.                                       *)
LEMMA CarryKept ==
    ASSUME NEW f \in Left, InterpTypeOK
    PROVE  /\ KeepCarry(f) \in Left
           /\ IS_CF_SET(KeepCarry(f)) <=> IS_CF_SET(lazy)
           /\ IS_ZF_SET(KeepCarry(f)) <=> IS_ZF_SET(f)
           /\ IS_SF_SET(KeepCarry(f)) <=> IS_SF_SET(f)
           /\ IS_OF_SET(KeepCarry(f)) <=> IS_OF_SET(f)
<1>1. lazy.carry \in {0, 1}
  BY DEF InterpTypeOK, Left
<1>2. KeepCarry(f) \in Left /\ KeepCarry(f).carry = lazy.carry /\ KeepCarry(f).res = f.res
      /\ KeepCarry(f).s1 = f.s1 /\ KeepCarry(f).s2 = f.s2
  BY <1>1 DEF KeepCarry, Left
<1> QED
  BY <1>2 DEF IS_CF_SET, IS_ZF_SET, IS_SF_SET, IS_OF_SET, Bool

LEMMA StepKeeps ==
    ASSUME IInv, NEW w \in Width, NEW x \in Value(w), NEW by \in {1, -1}, Step(w, x, by)
    PROVE  IInv'
<1> DEFINE g == Lazy(w, x + by, x, by)
           f == KeepCarry(g)
           r == (x + by) % All(w)
           o == Overflows(w, Signed(w, x) + by)
           c == FlagsOf(w, r, cpu.cf, o)
           k == {"zf", "sf", "of"} \cup (known \cap {"cf", "df"})
<1>1. x \in Int /\ 0 <= x /\ x < All(w) /\ by \in Int /\ x + by \in Int
  BY ValueIs
<1>2. 2^w = All(w) /\ All(w) \in Int /\ All(w) > 0
  BY Sizes DEF All
<1>3. Ran(f, r, c, r, k)
  BY <1>2 DEF Step
<1>4. g \in Left /\ k \in SUBSET Flag /\ r \in Int
  BY <1>1, <1>2, LazyTyped, Divided DEF Flag
<1>0. InterpTypeOK
  BY DEF IInv
<1>5. /\ f \in Left
      /\ IS_CF_SET(f) <=> IS_CF_SET(lazy)
      /\ IS_ZF_SET(f) <=> r = 0
      /\ IS_SF_SET(f) <=> r >= Half(w)
      /\ IS_OF_SET(f) <=> o
  <2>1. (/\ (x \div Half(w)) % 2 = (by \div Half(w)) % 2
         /\ (x \div Half(w)) % 2 # IF High(w, x + by) THEN 1 ELSE 0) <=> o
    BY <1>1, StepFlags
  <2>2. /\ IS_ZF_SET(g) <=> r = 0
        /\ IS_SF_SET(g) <=> High(w, x + by)
        /\ IS_OF_SET(g) <=> /\ (x \div Half(w)) % 2 = (by \div Half(w)) % 2
                            /\ (x \div Half(w)) % 2 # IF High(w, x + by) THEN 1 ELSE 0
    BY <1>1, LazyFlags
  <2>3. /\ f \in Left
        /\ IS_CF_SET(f) <=> IS_CF_SET(lazy)
        /\ IS_ZF_SET(f) <=> IS_ZF_SET(g)
        /\ IS_SF_SET(f) <=> IS_SF_SET(g)
        /\ IS_OF_SET(f) <=> IS_OF_SET(g)
    BY <1>0, <1>4, CarryKept
  <2> QED
    BY <2>1, <2>2, <2>3, Zenon DEF High
<1>6. "df" \in k => "df" \in known
  OBVIOUS
<1>7. "cf" \in k => (IS_CF_SET(f) <=> cpu.cf)
  BY <1>5 DEF IInv, Agree
<1>8. cpu.cf \in BOOLEAN /\ o \in BOOLEAN
  BY <1>0, OverflowsBool DEF InterpTypeOK, Flag
<1> HIDE DEF f, r, o, k
<1>9. c \in [Flag -> BOOLEAN] /\ Agree(f, c, k)
  BY <1>4, <1>5, <1>6, <1>7, <1>8, FlagsAgree
<1> QED
  BY <1>3, <1>4, <1>5, <1>9, RanKeeps

LEMMA NegKeeps ==
    ASSUME IInv, NEW w \in Width, NEW x \in Value(w), Neg(w, x)
    PROVE  IInv'
<1> DEFINE f == Lazy(w, -x, 0, -x)
           r == (-x) % All(w)
           o == Overflows(w, -Signed(w, x))
           c == FlagsOf(w, r, x # 0, o)
           k == (Arithmetic \ IF x = Half(w) THEN {"of"} ELSE {}) \cup DfKnown
<1>1. x \in Int /\ 0 <= x /\ x < All(w) /\ -x \in Int /\ 0 \in Int
  BY ValueIs
<1>2. 2^w = All(w) /\ 2^(w - 1) = Half(w) /\ All(w) \in Int /\ All(w) > 0
  BY Sizes DEF All
<1>3. Ran(f, r, c, r, k)
  BY <1>2 DEF Neg
<1>4. f \in Left /\ k \in SUBSET Flag /\ r \in Int
  BY <1>1, <1>2, LazyTyped, Divided DEF Arithmetic, DfKnown, Flag
<1>5. /\ IS_CF_SET(f) <=> x # 0
      /\ IS_ZF_SET(f) <=> r = 0
      /\ IS_SF_SET(f) <=> r >= Half(w)
      /\ "of" \in k => (IS_OF_SET(f) <=> o)
  <2>1. /\ ((-x) \div All(w)) % 2 = 1 <=> x # 0
        /\ x # Half(w) =>
              ((/\ (0 \div Half(w)) % 2 = ((-x) \div Half(w)) % 2
                /\ (0 \div Half(w)) % 2 # IF High(w, -x) THEN 1 ELSE 0) <=> o)
    BY <1>1, NegFlags
  <2>2. /\ IS_CF_SET(f) <=> ((-x) \div All(w)) % 2 = 1
        /\ IS_ZF_SET(f) <=> r = 0
        /\ IS_SF_SET(f) <=> High(w, -x)
        /\ IS_OF_SET(f) <=> /\ (0 \div Half(w)) % 2 = ((-x) \div Half(w)) % 2
                            /\ (0 \div Half(w)) % 2 # IF High(w, -x) THEN 1 ELSE 0
    BY <1>1, LazyFlags
  <2>3. "of" \in k => x # Half(w)
    BY DEF Arithmetic, DfKnown
  <2> QED
    BY <2>1, <2>2, <2>3, Zenon DEF High
<1>6. "df" \in k => "df" \in known
  BY DEF Arithmetic, DfKnown
<1>7. (x # 0) \in BOOLEAN /\ o \in BOOLEAN
  BY OverflowsBool
<1> HIDE DEF f, r, o, k
<1>8. c \in [Flag -> BOOLEAN] /\ Agree(f, c, k)
  BY <1>4, <1>5, <1>6, <1>7, FlagsAgree
<1> QED
  BY <1>3, <1>4, <1>8, RanKeeps

LEMMA TopBit ==
    /\ Sign(16, 0) = 0 /\ Sign(16, 65535) = 1 /\ Sign(16, 256) = 0 /\ Sign(16, 33024) = 1
    /\ Sign(16, 32768) = 1
<1>1. 2^(16 - 1) = 32768
  BY SMT
<1> QED
  BY <1>1, SMT DEF Sign, Bit

LEMMA MulKeeps ==
    ASSUME IInv, NEW w, NEW x, NEW y, Mul(w, x, y)
    PROVE  IInv'
<1> DEFINE high == x # 0 /\ y > (2^w - 1) \div x
           f == [res |-> IF high THEN 65535 ELSE 0, carry |-> Num(high), s1 |-> 0, s2 |-> 0]
           c == [cpu EXCEPT !.cf = high, !.of = high]
           k == {"cf", "of"} \cup DfKnown
<1>1. Ran(f, 0, c, 0, k)
  BY DEF Mul
<1>2. high \in BOOLEAN
  BY DEF Mul
<1> HIDE DEF high
<1>3. (IF high THEN 65535 ELSE 0) \in 0..Highest
  BY ResultIs
<1>4. f \in Left
  BY <1>3 DEF Left, Num
<1>5. cpu \in [Flag -> BOOLEAN]
  BY DEF IInv, InterpTypeOK
<1>6. c \in [Flag -> BOOLEAN] /\ c.cf = high /\ c.of = high /\ c.df = cpu.df
  BY <1>2, <1>5 DEF Flag
<1>7. k \in SUBSET Flag
  BY DEF DfKnown, Flag
<1>8. (IS_CF_SET(f) <=> high) /\ (IS_OF_SET(f) <=> high)
  BY <1>2, TopBit DEF IS_CF_SET, IS_OF_SET, Bool, Num
<1>9. Agree(f, c, k)
  <2>1. "df" \in k => (DF <=> c.df)
    BY <1>6 DEF DfKnown, IInv, Agree
  <2>2. "zf" \notin k /\ "sf" \notin k
    BY DEF DfKnown
  <2> HIDE DEF f, c, k
  <2> QED
    BY <1>6, <1>8, <2>1, <2>2, Zenon DEF Agree
<1> HIDE DEF f, c, k
<1> QED
  BY <1>1, <1>4, <1>6, <1>7, <1>9, RanKeeps

-----------------------------------------------------------------------------
LEMMA Scaled ==
    ASSUME NEW a \in Int, NEW b \in Int, NEW c \in Int, 0 <= a, a < b, c > 0
    PROVE  0 <= a * c /\ a * c < b * c
<1>1. (b - a) * c >= c
  BY Grows
<1>2. a * c >= 0
  <2>1. CASE a = 0
    BY <2>1
  <2>2. CASE a >= 1
    BY <2>2, Grows
  <2> QED
    BY <2>1, <2>2
<1>3. (b - a) * c = b * c - a * c
  BY SMT
<1> QED
  BY <1>1, <1>2, <1>3

(* The bits shifted out to the left are the quotient, those left the remainder. *)
LEMMA ShiftLeft ==
    ASSUME NEW x \in Int, NEW P \in Nat \ {0}, NEW Q \in Nat \ {0}
    PROVE  /\ P * Q \in Int /\ P * Q > 0 /\ x * P \in Int
           /\ (x * P) \div (P * Q) = x \div Q /\ (x * P) % (P * Q) = (x % Q) * P
<1> DEFINE h == x \div Q
           l == x % Q
           W == P * Q
<1>1. x = Q * h + l /\ h \in Int /\ l \in Int /\ 0 <= l /\ l < Q
  BY Divided
<1> HIDE DEF h, l
<1>2. 0 <= l * P /\ l * P < Q * P
  BY <1>1, Scaled
<1>3. x * P = W * h + l * P
  BY <1>1, SMT
<1>4. W \in Int /\ W > 0
  <2>1. 0 * P < Q * P
    BY Scaled
  <2> QED
    BY <2>1
<1>5. h = (x * P) \div W /\ l * P = (x * P) % W
  <2>1. x * P \in Int /\ l * P \in Int /\ l * P < W
    BY <1>1, <1>2
  <2> HIDE DEF W
  <2> QED
    BY <1>1, <1>2, <1>3, <1>4, <2>1, Unique
<1> QED
  BY <1>4, <1>5 DEF h, l

(* Overflow after shifts by one.                                            *)
LEMMA SHLOverflow ==
    ASSUME NEW w \in Width, NEW x \in Int, 0 <= x, x < All(w)
    PROVE  (/\ (x \div Half(w)) % 2 = (x \div Half(w)) % 2
            /\ (x \div Half(w)) % 2 # IF High(w, x * 2) THEN 1 ELSE 0)
           <=> Overflows(w, 2 * Signed(w, x))
<1>1. CASE w = 8
  <2>1. All(w) = 256 /\ Half(w) = 128
    BY <1>1, SMT DEF All, Half
  <2>2. 2^w = 256 /\ 2^(w-1) = 128
    BY <2>1, Sizes, SMT
  <2>3. (x \div Half(w)) % 2 = IF x >= 128 THEN 1 ELSE 0
    BY <2>1, SMT
  <2>4. (x * 2) % All(w) = IF x >= 128 THEN x * 2 - 256 ELSE x * 2
    BY <2>1, SMT
  <2>5. High(w, x * 2) <=> (IF x >= 128 THEN x * 2 - 256 ELSE x * 2) >= 128
    BY <2>1, <2>4, SMT DEF High
  <2>6. Overflows(w, 2 * Signed(w, x)) <=>
          LET t == 2 * (IF x >= 128 THEN x - 256 ELSE x)
          IN t < -128 \/ t > 128-1
    BY <2>2, SMT DEF Overflows, Signed
  <2> QED
    BY <2>1, <2>3, <2>5, <2>6, SMT
<1>2. CASE w = 16
  <2>1. All(w) = 65536 /\ Half(w) = 32768
    BY <1>2, SMT DEF All, Half
  <2>2. 2^w = 65536 /\ 2^(w-1) = 32768
    BY <2>1, Sizes, SMT
  <2>3. (x \div Half(w)) % 2 = IF x >= 32768 THEN 1 ELSE 0
    BY <2>1, SMT
  <2>4. (x * 2) % All(w) = IF x >= 32768 THEN x * 2 - 65536 ELSE x * 2
    BY <2>1, SMT
  <2>5. High(w, x * 2) <=> (IF x >= 32768 THEN x * 2 - 65536 ELSE x * 2) >= 32768
    BY <2>1, <2>4, SMT DEF High
  <2>6. Overflows(w, 2 * Signed(w, x)) <=>
          LET t == 2 * (IF x >= 32768 THEN x - 65536 ELSE x)
          IN t < -32768 \/ t > 32768-1
    BY <2>2, SMT DEF Overflows, Signed
  <2> QED
    BY <2>1, <2>3, <2>5, <2>6, SMT
<1> QED
  BY <1>1, <1>2 DEF Width

LEMMA SHROverflow ==
    ASSUME NEW w \in Width, NEW x \in Int, 0 <= x, x < All(w)
    PROVE  (/\ (x \div Half(w)) % 2 = (x \div Half(w)) % 2
            /\ (x \div Half(w)) % 2 # IF High(w, x \div 2) THEN 1 ELSE 0)
           <=> x >= 2^(w - 1)
<1>1. CASE w = 8
  <2>1. All(w) = 256 /\ Half(w) = 128
    BY <1>1, SMT DEF All, Half
  <2>2. 2^w = 256 /\ 2^(w-1) = 128
    BY <2>1, Sizes, SMT
  <2>3. (x \div Half(w)) % 2 = IF x >= 128 THEN 1 ELSE 0
    BY <2>1, SMT
  <2>4. (x \div 2) % All(w) = x \div 2 /\ x \div 2 < 128
    BY <2>1, SMT
  <2>5. ~High(w, x \div 2)
    BY <2>1, <2>4, SMT DEF High
  <2> QED
    BY <2>1, <2>2, <2>3, <2>5, SMT
<1>2. CASE w = 16
  <2>1. All(w) = 65536 /\ Half(w) = 32768
    BY <1>2, SMT DEF All, Half
  <2>2. 2^w = 65536 /\ 2^(w-1) = 32768
    BY <2>1, Sizes, SMT
  <2>3. (x \div Half(w)) % 2 = IF x >= 32768 THEN 1 ELSE 0
    BY <2>1, SMT
  <2>4. (x \div 2) % All(w) = x \div 2 /\ x \div 2 < 32768
    BY <2>1, SMT
  <2>5. ~High(w, x \div 2)
    BY <2>1, <2>4, SMT DEF High
  <2> QED
    BY <2>1, <2>2, <2>3, <2>5, SMT
<1> QED
  BY <1>1, <1>2 DEF Width

LEMMA SAROverflow ==
    ASSUME NEW w \in Width, NEW x \in Int, 0 <= x, x < All(w)
    PROVE  (/\ (x \div Half(w)) % 2 = (x \div Half(w)) % 2
            /\ (x \div Half(w)) % 2 # IF High(w, Signed(w, x) \div 2) THEN 1 ELSE 0)
           <=> FALSE
<1>1. CASE w = 8
  <2>1. All(w) = 256 /\ Half(w) = 128
    BY <1>1, SMT DEF All, Half
  <2>2. 2^w = 256 /\ 2^(w-1) = 128
    BY <2>1, Sizes, SMT
  <2> DEFINE s == Signed(w, x)
  <2>3. (x \div Half(w)) % 2 = IF x >= 128 THEN 1 ELSE 0
    BY <2>1, SMT
  <2>4. s = IF x >= 128 THEN x - 256 ELSE x
    BY <2>2 DEF Signed
  <2> HIDE DEF s
  <2>5. (s \div 2) % All(w) = IF x >= 128 THEN (x - 256) \div 2 + 256 ELSE x \div 2
    BY <2>1, <2>4, SMT
  <2>6. (x >= 128 => (x - 256) \div 2 + 256 >= 128) /\ (x < 128 => x \div 2 < 128)
    BY SMT
  <2>7. High(w, s \div 2) <=> x >= 128
    BY <2>1, <2>5, <2>6, SMT DEF High
  <2> QED
    BY <2>3, <2>7, SMT DEF s
<1>2. CASE w = 16
  <2>1. All(w) = 65536 /\ Half(w) = 32768
    BY <1>2, SMT DEF All, Half
  <2>2. 2^w = 65536 /\ 2^(w-1) = 32768
    BY <2>1, Sizes, SMT
  <2> DEFINE s == Signed(w, x)
  <2>3. (x \div Half(w)) % 2 = IF x >= 32768 THEN 1 ELSE 0
    BY <2>1, SMT
  <2>4. s = IF x >= 32768 THEN x - 65536 ELSE x
    BY <2>2 DEF Signed
  <2> HIDE DEF s
  <2>5. (s \div 2) % All(w) = IF x >= 32768 THEN (x - 65536) \div 2 + 65536 ELSE x \div 2
    BY <2>1, <2>4, SMT
  <2>6. (x >= 32768 => (x - 65536) \div 2 + 65536 >= 32768) /\ (x < 32768 => x \div 2 < 32768)
    BY SMT
  <2>7. High(w, s \div 2) <=> x >= 32768
    BY <2>1, <2>5, <2>6, SMT DEF High
  <2> QED
    BY <2>3, <2>7, SMT DEF s
<1> QED
  BY <1>1, <1>2 DEF Width

LEMMA CarrySet ==
    ASSUME NEW f \in Left, NEW b \in {0, 1}
    PROVE  LET g == [f EXCEPT !.carry = b]
           IN  /\ g \in Left
               /\ IS_CF_SET(g) <=> b = 1
               /\ IS_ZF_SET(g) <=> IS_ZF_SET(f)
               /\ IS_SF_SET(g) <=> IS_SF_SET(f)
               /\ IS_OF_SET(g) <=> IS_OF_SET(f)
<1> DEFINE g == [f EXCEPT !.carry = b]
<1>1. g \in Left /\ g.carry = b /\ g.res = f.res /\ g.s1 = f.s1 /\ g.s2 = f.s2
  BY DEF Left
<1> HIDE DEF g
<1>2. /\ g \in Left
      /\ IS_CF_SET(g) <=> b = 1
      /\ IS_ZF_SET(g) <=> IS_ZF_SET(f)
      /\ IS_SF_SET(g) <=> IS_SF_SET(f)
      /\ IS_OF_SET(g) <=> IS_OF_SET(f)
  BY <1>1 DEF IS_CF_SET, IS_ZF_SET, IS_SF_SET, IS_OF_SET, Bool
<1> QED
  BY <1>2, Zenon DEF g

LEMMA BitIsBit ==
    ASSUME NEW x \in Int, NEW n, 2^n \in Nat \ {0}
    PROVE  Bit(x, n) \in {0, 1} /\ Bool(Bit(x, n)) \in BOOLEAN
<1>1. x \div 2^n \in Int
  BY Divided
<1>2. (x \div 2^n) % 2 \in {0, 1}
  BY <1>1, BitSmall
<1> QED
  BY <1>2 DEF Bit, Bool

(* What a shift leaves, whichever it is. *)
LEMMA ShiftKeeps ==
    ASSUME IInv, NEW w \in Width, NEW n, NEW f \in Left, NEW r \in Int, NEW cf \in BOOLEAN,
           NEW of \in BOOLEAN,
           IS_CF_SET(f) <=> cf, IS_ZF_SET(f) <=> r = 0, IS_SF_SET(f) <=> r >= Half(w),
           n = 1 => (IS_OF_SET(f) <=> of),
           Ran(f, r, FlagsOf(w, r, cf, of), r, Shifts(n))
    PROVE  IInv'
<1>1. Shifts(n) \in SUBSET Flag /\ ("of" \in Shifts(n) => n = 1) /\ ("df" \in Shifts(n) => "df" \in known)
  BY DEF Shifts, DfKnown, Flag
<1>2. FlagsOf(w, r, cf, of) \in [Flag -> BOOLEAN] /\ Agree(f, FlagsOf(w, r, cf, of), Shifts(n))
  BY <1>1, FlagsAgree
<1> QED
  BY <1>1, <1>2, RanKeeps

LEMMA SHLKeeps ==
    ASSUME IInv, NEW w \in Width, NEW x \in Value(w), NEW n \in 1..7, SHL(w, x, n)
    PROVE  IInv'
<1> DEFINE P == 2^n
           Q == 2^(w - n)
           f == Lazy(w, x * P, x, x)
           r == (x * P) % All(w)
           cf == Bool(Bit(x, w - n))
           of == Overflows(w, 2 * Signed(w, x))
<1>1. x \in Int /\ 0 <= x /\ x < All(w)
  BY ValueIs
<1>2. P \in Nat \ {0} /\ Q \in Nat \ {0} /\ P * Q = All(w)
  BY Exponents
<1>3. 2^w = All(w)
  BY Sizes
<1>4. Ran(f, r, FlagsOf(w, r, cf, of), r, Shifts(n))
  BY <1>3 DEF SHL
<1>5. All(w) \in Int /\ All(w) > 0 /\ x * P \in Int /\ (x * P) \div All(w) = x \div Q
  <2> HIDE DEF P, Q
  <2>1. /\ P * Q \in Int /\ P * Q > 0 /\ x * P \in Int /\ (x * P) \div (P * Q) = x \div Q
    BY <1>1, <1>2, ShiftLeft
  <2> QED
    BY <1>2, <2>1
<1>6. r \in Int /\ f \in Left
  BY <1>1, <1>5, Divided, LazyTyped
<1>7. /\ IS_CF_SET(f) <=> ((x * P) \div All(w)) % 2 = 1
      /\ IS_ZF_SET(f) <=> r = 0
      /\ IS_SF_SET(f) <=> High(w, x * P)
      /\ IS_OF_SET(f) <=> /\ (x \div Half(w)) % 2 = (x \div Half(w)) % 2
                          /\ (x \div Half(w)) % 2 # IF High(w, x * P) THEN 1 ELSE 0
  BY <1>1, <1>5, LazyFlags
<1>8. IS_CF_SET(f) <=> cf
  BY <1>5, <1>7, Zenon DEF Bit, Bool
<1>9. IS_SF_SET(f) <=> r >= Half(w)
  BY <1>7, Zenon DEF High
<1>10. ASSUME n = 1 PROVE IS_OF_SET(f) <=> of
  <2>1. P = 2
    BY <1>10, Powers, SMT
  <2>2. (/\ (x \div Half(w)) % 2 = (x \div Half(w)) % 2
         /\ (x \div Half(w)) % 2 # IF High(w, x * 2) THEN 1 ELSE 0) <=> of
    BY <1>1, SHLOverflow
  <2> QED
    BY <1>7, <2>1, <2>2, Zenon
<1>11. cf \in BOOLEAN /\ of \in BOOLEAN
  BY <1>1, <1>2, BitIsBit, OverflowsBool
<1> HIDE DEF f, r, cf, of
<1> QED
  BY <1>4, <1>6, <1>7, <1>8, <1>9, <1>10, <1>11, ShiftKeeps

LEMMA SHRKeeps ==
    ASSUME IInv, NEW w \in Width, NEW x \in Value(w), NEW n \in 1..7, SHR(w, x, n)
    PROVE  IInv'
<1> DEFINE P == 2^n
           r == x \div P
           g == Lazy(w, r, x, x)
           b == Bit(x, n - 1)
           f == [g EXCEPT !.carry = b]
           cf == Bool(b)
           of == x >= 2^(w - 1)
<1>1. x \in Int /\ 0 <= x /\ x < All(w)
  BY ValueIs
<1>2. P \in Nat \ {0} /\ 2^(n - 1) \in Nat \ {0}
  BY Exponents
<1>3. 2^(w - 1) = Half(w) /\ Half(w) \in Int
  BY Sizes DEF Half
<1>4. Ran(f, r, FlagsOf(w, r, cf, of), r, Shifts(n))
  BY DEF SHR
<1>5. r \in Int /\ 0 <= r /\ r <= x
  <2> HIDE DEF P
  <2>1. x = P * r + (x % P) /\ r \in Int /\ x % P \in Int /\ 0 <= x % P /\ x % P < P
    BY <1>1, <1>2, Divided
  <2> HIDE DEF r
  <2>2. ~(r <= -1)
    <3> SUFFICES ASSUME r <= -1 PROVE FALSE
      OBVIOUS
    <3>1. (-r) * P >= P
      BY <1>2, <2>1, Grows
    <3> QED
      BY <1>1, <1>2, <2>1, <3>1
  <2>3. r <= x
    <3>1. CASE r = 0
      BY <3>1, <1>1
    <3>2. CASE r >= 1
      <4>1. P * r >= r
        BY <1>2, <2>1, <3>2, Grows
      <4> QED
        BY <1>1, <1>2, <2>1, <4>1
    <3> QED
      BY <2>1, <2>2, <3>1, <3>2
  <2> QED
    BY <2>1, <2>2, <2>3
<1>6. r % All(w) = r
  <2>1. r < All(w)
    <3> HIDE DEF r
    <3> QED
      BY <1>1, <1>5 DEF All
  <2> HIDE DEF r
  <2> QED
    BY <1>5, <2>1, LogicFlags
<1>7. /\ IS_ZF_SET(g) <=> r % All(w) = 0
      /\ IS_SF_SET(g) <=> High(w, r)
      /\ IS_OF_SET(g) <=> /\ (x \div Half(w)) % 2 = (x \div Half(w)) % 2
                          /\ (x \div Half(w)) % 2 # IF High(w, r) THEN 1 ELSE 0
  BY <1>1, <1>5, LazyFlags
<1>8. g \in Left /\ b \in {0, 1} /\ cf \in BOOLEAN
  BY <1>1, <1>2, <1>5, LazyTyped, BitIsBit
<1>9. /\ f \in Left
      /\ IS_CF_SET(f) <=> b = 1
      /\ IS_ZF_SET(f) <=> IS_ZF_SET(g)
      /\ IS_SF_SET(f) <=> IS_SF_SET(g)
      /\ IS_OF_SET(f) <=> IS_OF_SET(g)
  BY <1>8, CarrySet, Zenon
<1>10. ASSUME n = 1 PROVE IS_OF_SET(f) <=> of
  <2>1. P = 2
    BY <1>10, Powers, SMT
  <2>2. (/\ (x \div Half(w)) % 2 = (x \div Half(w)) % 2
         /\ (x \div Half(w)) % 2 # IF High(w, x \div 2) THEN 1 ELSE 0) <=> of
    BY <1>1, SHROverflow
  <2> QED
    BY <1>7, <1>9, <2>1, <2>2, Zenon
<1>11. of \in BOOLEAN
  BY <1>1, <1>3
<1>12. /\ IS_CF_SET(f) <=> cf
       /\ IS_ZF_SET(f) <=> r = 0
       /\ IS_SF_SET(f) <=> r >= Half(w)
  BY <1>6, <1>7, <1>9, Zenon DEF High, Bool
<1> HIDE DEF f, r, cf, of
<1> QED
  BY <1>4, <1>5, <1>8, <1>9, <1>10, <1>11, <1>12, ShiftKeeps

LEMMA SARKeeps ==
    ASSUME IInv, NEW w \in Width, NEW x \in Value(w), NEW n \in 1..7, SAR(w, x, n)
    PROVE  IInv'
<1> DEFINE P == 2^n
           v == Signed(w, x) \div P
           r == v % All(w)
           g == Lazy(w, v, x, x)
           b == Bit(x, n - 1)
           f == [g EXCEPT !.carry = b]
           cf == Bool(b)
<1>1. x \in Int /\ 0 <= x /\ x < All(w) /\ All(w) \in Int /\ All(w) > 0
  BY ValueIs DEF All
<1>2. P \in Nat \ {0} /\ 2^(n - 1) \in Nat \ {0}
  BY Exponents
<1>3. 2^w = All(w) /\ Signed(w, x) \in Int
  BY Sizes, SignedOrder
<1>4. Ran(f, r, FlagsOf(w, r, cf, FALSE), r, Shifts(n))
  BY <1>3 DEF SAR
<1>5. v \in Int
  BY <1>2, <1>3, Divided
<1> HIDE DEF v
<1>6. r \in Int
  BY <1>1, <1>5, Divided
<1>7. /\ IS_ZF_SET(g) <=> r = 0
      /\ IS_SF_SET(g) <=> High(w, v)
      /\ IS_OF_SET(g) <=> /\ (x \div Half(w)) % 2 = (x \div Half(w)) % 2
                          /\ (x \div Half(w)) % 2 # IF High(w, v) THEN 1 ELSE 0
  BY <1>1, <1>5, LazyFlags
<1>8. g \in Left /\ b \in {0, 1} /\ cf \in BOOLEAN
  BY <1>1, <1>2, <1>5, LazyTyped, BitIsBit
<1>9. /\ f \in Left
      /\ IS_CF_SET(f) <=> b = 1
      /\ IS_ZF_SET(f) <=> IS_ZF_SET(g)
      /\ IS_SF_SET(f) <=> IS_SF_SET(g)
      /\ IS_OF_SET(f) <=> IS_OF_SET(g)
  BY <1>8, CarrySet, Zenon
<1>10. ASSUME n = 1 PROVE IS_OF_SET(f) <=> FALSE
  <2>1. P = 2
    BY <1>10, Powers, SMT
  <2>2. (/\ (x \div Half(w)) % 2 = (x \div Half(w)) % 2
         /\ (x \div Half(w)) % 2 # IF High(w, Signed(w, x) \div 2) THEN 1 ELSE 0) <=> FALSE
    BY <1>1, SAROverflow
  <2> QED
    BY <1>7, <1>9, <2>1, <2>2, Zenon DEF v
<1>12. /\ IS_CF_SET(f) <=> cf
       /\ IS_ZF_SET(f) <=> r = 0
       /\ IS_SF_SET(f) <=> r >= Half(w)
  BY <1>7, <1>9, Zenon DEF High, Bool
<1> HIDE DEF f, r, cf
<1> QED
  BY <1>4, <1>6, <1>8, <1>9, <1>10, <1>12, ShiftKeeps


-----------------------------------------------------------------------------
(* A flags word that is taken back into a result and operands reads the same. *)
LEMMA Encoded ==
    ASSUME NEW f, f.cf \in BOOLEAN, f.zf \in BOOLEAN, f.sf \in BOOLEAN, f.of \in BOOLEAN,
           ~(f.zf /\ f.sf)
    PROVE  /\ trans_flags_to_interp(f) \in Left
           /\ IS_CF_SET(trans_flags_to_interp(f)) <=> f.cf
           /\ IS_ZF_SET(trans_flags_to_interp(f)) <=> f.zf
           /\ IS_SF_SET(trans_flags_to_interp(f)) <=> f.sf
           /\ IS_OF_SET(trans_flags_to_interp(f)) <=> f.of
<1> DEFINE res == (IF f.zf THEN 0 ELSE 256) + (IF f.sf THEN 32768 ELSE 0)
           g == trans_flags_to_interp(f)
<1>1. g = [res |-> res, carry |-> Num(f.cf), s1 |-> Num(f.of /\ ~f.sf), s2 |-> Num(~f.of \/ ~f.sf)]
  BY DEF trans_flags_to_interp
<1>2. res \in 0..Highest
  BY ResultIs
<1>3. \A b : Num(b) \in {0, 1} /\ (Num(b) = 1 <=> b)
  BY DEF Num
<1>4. Sign(16, res) = IF f.sf THEN 1 ELSE 0
  BY TopBit
<1>5. (res = 0) <=> f.zf
  BY SMT
<1> HIDE DEF res, g
<1>6. g.res = res /\ g.carry = Num(f.cf) /\ g.s1 = Num(f.of /\ ~f.sf) /\ g.s2 = Num(~f.of \/ ~f.sf)
  BY <1>1
<1>7. g \in Left
  BY <1>1, <1>2, <1>3 DEF Left
<1>8. IS_CF_SET(g) <=> f.cf
  BY <1>6, <1>3 DEF IS_CF_SET, Bool
<1>9. IS_ZF_SET(g) <=> f.zf
  BY <1>6, <1>5 DEF IS_ZF_SET
<1>10. IS_SF_SET(g) <=> f.sf
  BY <1>6, <1>4 DEF IS_SF_SET, Bool
<1>11. IS_OF_SET(g) <=> f.of
  <2>1. IS_OF_SET(g) <=> Num(f.of /\ ~f.sf) = Num(~f.of \/ ~f.sf) /\ Num(f.of /\ ~f.sf) # IF f.sf THEN 1 ELSE 0
    BY <1>6, <1>4 DEF IS_OF_SET
  <2> QED
    BY <2>1 DEF Num
<1> QED
  BY <1>7, <1>8, <1>9, <1>10, <1>11 DEF g

LEMMA ZeroIsPositive == ~(IS_ZF_SET(lazy) /\ IS_SF_SET(lazy))
BY TopBit DEF IS_ZF_SET, IS_SF_SET, Bool

LEMMA Decoded ==
    ASSUME InterpTypeOK
    PROVE  LET f == trans_interp_flags
           IN  /\ f.cf = IS_CF_SET(lazy) /\ f.zf = IS_ZF_SET(lazy) /\ f.sf = IS_SF_SET(lazy)
               /\ f.of = (IS_SF_SET(lazy) # (lazy.s1 = lazy.s2)) /\ f.df = DF
               /\ f.cf \in BOOLEAN /\ f.zf \in BOOLEAN /\ f.sf \in BOOLEAN /\ f.of \in BOOLEAN
               /\ DOMAIN f = Flag
<1> DEFINE a == IS_CF_SET(lazy)
           b == IS_ZF_SET(lazy)
           c == IS_SF_SET(lazy)
           d == IS_SF_SET(lazy) # (lazy.s1 = lazy.s2)
<1>1. trans_interp_flags = [cf |-> a, zf |-> b, sf |-> c, of |-> d, df |-> DF]
  BY DEF trans_interp_flags
<1>2. a \in BOOLEAN /\ b \in BOOLEAN /\ c \in BOOLEAN /\ d \in BOOLEAN
  BY DEF IS_CF_SET, IS_ZF_SET, IS_SF_SET, Bool
<1> HIDE DEF a, b, c, d
<1> DEFINE f == trans_interp_flags
<1>3. f.cf = a /\ f.zf = b /\ f.sf = c /\ f.of = d /\ f.df = DF /\ DOMAIN f = Flag
  BY <1>1, SMT DEF Flag
<1> HIDE DEF f
<1> QED
  BY <1>2, <1>3, Zenon DEF f, a, b, c, d

(* A rotation brings back the flags it does not change.                     *)
LEMMA LogRot ==
    ASSUME InterpTypeOK, NEW f
    PROVE  /\ log_rot(f) \in Left
           /\ IS_CF_SET(log_rot(f)) <=> IS_CF_SET(f)
           /\ IS_OF_SET(log_rot(f)) <=> IS_OF_SET(f)
           /\ IS_ZF_SET(log_rot(f)) <=> IS_ZF_SET(lazy)
           /\ IS_SF_SET(log_rot(f)) <=> IS_SF_SET(lazy)
<1> DEFINE t == trans_interp_flags
           g == [t EXCEPT !.cf = IS_CF_SET(f), !.of = IS_OF_SET(f)]
<1>1. /\ t.zf = IS_ZF_SET(lazy) /\ t.sf = IS_SF_SET(lazy) /\ DOMAIN t = Flag
      /\ t.zf \in BOOLEAN /\ t.sf \in BOOLEAN
  BY Decoded, Zenon
<1>2. IS_CF_SET(f) \in BOOLEAN /\ IS_OF_SET(f) \in BOOLEAN
  BY DEF IS_CF_SET, IS_OF_SET, Bool
<1> HIDE DEF t
<1>3. g.cf = IS_CF_SET(f) /\ g.of = IS_OF_SET(f) /\ g.zf = t.zf /\ g.sf = t.sf
  BY <1>1 DEF Flag
<1>4. log_rot(f) = trans_flags_to_interp(g)
  BY DEF log_rot, t
<1> HIDE DEF g
<1>5. /\ g.cf \in BOOLEAN /\ g.zf \in BOOLEAN /\ g.sf \in BOOLEAN /\ g.of \in BOOLEAN
      /\ ~(g.zf /\ g.sf)
  BY <1>1, <1>2, <1>3, ZeroIsPositive, Zenon
<1>6. /\ trans_flags_to_interp(g) \in Left
      /\ IS_CF_SET(trans_flags_to_interp(g)) <=> g.cf
      /\ IS_ZF_SET(trans_flags_to_interp(g)) <=> g.zf
      /\ IS_SF_SET(trans_flags_to_interp(g)) <=> g.sf
      /\ IS_OF_SET(trans_flags_to_interp(g)) <=> g.of
  BY <1>5, Encoded
<1> QED
  BY <1>1, <1>3, <1>4, <1>6, Zenon

(* A rotation keeps the invariant when it puts the right value together.    *)
LEMMA RotateKeeps ==
    ASSUME IInv, NEW w \in Width, NEW x \in Value(w), NEW n, NEW sum \in Int, NEW turned, NEW out,
           NEW k \in SUBSET {"cf"}, turned = sum % All(w),
           "cf" \in k => ((sum \div All(w)) % 2 = 1 <=> out = 1),
           Rotate(w, x, n, sum, turned, out, k)
    PROVE  IInv'
<1> DEFINE f == Lazy(w, sum, x, x)
           g == log_rot(f)
           cf == Bool(out)
           of == Sign(w, x) # Sign(w, turned)
           c == [cpu EXCEPT !.cf = cf, !.of = of]
           K == (known \cap {"zf", "sf", "df"}) \cup k \cup IF n = 1 THEN {"of"} ELSE {}
<1>0. InterpTypeOK /\ Agree(lazy, cpu, known)
  BY DEF IInv
<1>1. x \in Int /\ 0 <= x /\ x < All(w)
  BY ValueIs
<1>2. 2^w = All(w) /\ 2^(w - 1) = Half(w)
  BY Sizes
<1>3. Ran(g, turned, c, turned, K)
  BY <1>2 DEF Rotate
<1>4. /\ IS_CF_SET(f) <=> (sum \div All(w)) % 2 = 1
      /\ IS_OF_SET(f) <=> /\ (x \div Half(w)) % 2 = (x \div Half(w)) % 2
                          /\ (x \div Half(w)) % 2 # IF High(w, sum) THEN 1 ELSE 0
  BY <1>1, LazyFlags
<1>5. /\ g \in Left
      /\ IS_CF_SET(g) <=> IS_CF_SET(f)
      /\ IS_OF_SET(g) <=> IS_OF_SET(f)
      /\ IS_ZF_SET(g) <=> IS_ZF_SET(lazy)
      /\ IS_SF_SET(g) <=> IS_SF_SET(lazy)
  BY <1>0, LogRot
<1>6. Sign(w, x) = (x \div Half(w)) % 2 /\ Sign(w, turned) = IF High(w, sum) THEN 1 ELSE 0
  <2>1. All(w) \in Int /\ All(w) > 0
    BY DEF All
  <2>2. turned \in Int /\ 0 <= turned /\ turned < All(w)
    BY <2>1, Divided
  <2>3. (turned \div Half(w)) % 2 = IF High(w, turned) THEN 1 ELSE 0
    BY <2>2, LogicFlags
  <2>4. High(w, turned) <=> High(w, sum)
    <3>1. turned % All(w) = turned
      BY <2>2, LogicFlags
    <3> QED
      BY <3>1, Zenon DEF High
  <2> QED
    BY <1>2, <2>3, <2>4, Zenon DEF Sign, Bit
<1>7. IS_OF_SET(g) <=> of
  BY <1>4, <1>5, <1>6, Zenon
<1>8. "cf" \in k => (IS_CF_SET(g) <=> cf)
  BY <1>4, <1>5, Zenon DEF Bool
<1>9. cf \in BOOLEAN /\ of \in BOOLEAN
  BY DEF Bool
<1> HIDE DEF g, cf, of
<1>10. /\ c \in [Flag -> BOOLEAN] /\ c.cf = cf /\ c.of = of /\ c.zf = cpu.zf /\ c.sf = cpu.sf
       /\ c.df = cpu.df
  BY <1>0, <1>9 DEF InterpTypeOK, Flag
<1>11. K \in SUBSET Flag /\ ("cf" \in K => "cf" \in k) /\ ("zf" \in K => "zf" \in known)
       /\ ("sf" \in K => "sf" \in known) /\ ("df" \in K => "df" \in known)
  BY DEF Flag
<1> HIDE DEF c, K
<1>12. Agree(g, c, K)
  BY <1>0, <1>5, <1>7, <1>8, <1>10, <1>11, Zenon DEF Agree
<1> QED
  BY <1>3, <1>5, <1>10, <1>11, <1>12, RanKeeps

(* The parts of a number at 2^n, on either side of the word.                *)
LEMMA Split ==
    ASSUME NEW x \in Int, NEW W \in Int, 0 <= x, x < W, NEW P \in Nat \ {0}, NEW Q \in Nat \ {0},
           P * Q = W
    PROVE  LET h == x \div P
               l == x % P
           IN  /\ h \in Int /\ l \in Int /\ x = P * h + l /\ 0 <= l /\ l < P /\ 0 <= h /\ h < Q
               /\ 0 <= l * Q /\ l * Q < W
               /\ 0 <= l * Q + h /\ l * Q + h < W
<1> DEFINE h == x \div P
           l == x % P
<1>1. h \in Int /\ l \in Int /\ x = P * h + l /\ 0 <= l /\ l < P
  BY Divided
<1> HIDE DEF h, l
<1>2. 0 <= l * Q /\ l * Q < P * Q
  BY <1>1, Scaled
<1>3. ~(h <= -1)
  <2> SUFFICES ASSUME h <= -1 PROVE FALSE
    OBVIOUS
  <2>1. (-h) * P >= P
    BY <1>1, Grows
  <2> QED
    BY <1>1, <2>1
<1>4. ~(h >= Q)
  <2> SUFFICES ASSUME h >= Q PROVE FALSE
    OBVIOUS
  <2>1. (h - Q + 1) * P >= P
    BY <1>1, Grows
  <2>2. (h - Q + 1) * P = h * P - W + P
    BY <1>1
  <2> QED
    BY <1>1, <2>1, <2>2
<1>5. l * Q + h < W
  <2>1. (P - l) * Q >= Q
    BY <1>1, Grows
  <2>2. (P - l) * Q = W - l * Q
    BY <1>1
  <2> QED
    BY <1>1, <1>4, <2>1, <2>2
<1>6. 0 <= l * Q + h
  BY <1>1, <1>2, <1>3
<1> QED
  BY <1>1, <1>2, <1>3, <1>4, <1>5, <1>6 DEF h, l

LEMMA AllIs == ASSUME NEW w \in Width PROVE All(w) \in Nat \ {0} /\ 2^w = All(w)
BY Sizes DEF All

LEMMA Regrouped ==
    ASSUME NEW w \in Width, NEW n \in 1..7
    PROVE  (w + 1) - n = w + 1 - n /\ (w + 1) - (w + 1 - n) = w + 1 - (w + 1 - n)
BY DEF Width

LEMMA ROLKeeps ==
    ASSUME IInv, NEW w \in Width, NEW x \in Value(w), NEW n \in 1..7, ROL(w, x, n)
    PROVE  IInv'
<1> DEFINE P == 2^n
           Q == 2^(w - n)
           W == All(w)
           h == x \div Q
           l == x % Q
           sum == x * P + h
           turned == l * P + h
<1>1. x \in Int /\ 0 <= x /\ x < W
  BY ValueIs
<1>2. P \in Nat \ {0} /\ Q \in Nat \ {0} /\ P * Q = W /\ W \in Nat \ {0} /\ Q * P = W
  <2>1. P \in Nat \ {0} /\ Q \in Nat \ {0} /\ P * Q = W /\ W \in Nat \ {0}
    BY Exponents, AllIs
  <2> HIDE DEF P, Q, W
  <2> QED
    BY <2>1
<1>3. Rotate(w, x, n, sum, turned, Bit(x, w - n), {"cf"})
  BY DEF ROL, Turned
<1>4. Bit(x, w - n) = h % 2
  BY DEF Bit
<1> HIDE DEF P, Q, W
<1>5. /\ h \in Int /\ l \in Int /\ x = Q * h + l /\ 0 <= l /\ l < Q /\ 0 <= h /\ h < P
      /\ 0 <= turned /\ turned < W
  BY <1>1, <1>2, Split
<1> HIDE DEF h, l
<1>6. sum = W * h + turned /\ sum \in Int /\ turned \in Int
  <2>1. (Q * h + l) * P = (Q * P) * h + l * P
    BY <1>2, <1>5
  <2> QED
    BY <1>2, <1>5, <2>1
<1> HIDE DEF sum, turned
<1>7. h = sum \div W /\ turned = sum % W
  BY <1>2, <1>5, <1>6, Unique
<1>8. (sum \div All(w)) % 2 = 1 <=> Bit(x, w - n) = 1
  BY <1>4, <1>7, Zenon DEF W
<1>9. turned = sum % All(w)
  BY <1>7, Zenon DEF W
<1> QED
  BY <1>3, <1>6, <1>8, <1>9, RotateKeeps

LEMMA RORKeeps ==
    ASSUME IInv, NEW w \in Width, NEW x \in Value(w), NEW n \in 1..7, ROR(w, x, n)
    PROVE  IInv'
<1> DEFINE P == 2^n
           Q == 2^(w - n)
           W == All(w)
           h == x \div P
           l == x % P
           D == 2 * P
           a == x \div D
           b == x % D
           sum == h + b * Q
           turned == l * Q + h
<1>1. x \in Int /\ 0 <= x /\ x < W
  BY ValueIs
<1>2. P \in Nat \ {0} /\ Q \in Nat \ {0} /\ P * Q = W /\ W \in Nat \ {0} /\ D \in Nat \ {0}
  <2>1. P \in Nat \ {0} /\ Q \in Nat \ {0} /\ P * Q = W /\ W \in Nat \ {0}
    BY Exponents, AllIs
  <2> HIDE DEF P, Q, W
  <2> QED
    BY <2>1
<1>3. Rotate(w, x, n, sum, turned, Bit(x, n - 1), {})
  <2>1. 2^(w + 1 - (w - n)) = D /\ 2^(w - (w - n)) = P
    BY Exponents
  <2>2. Up(w, x, w - n) = b * Q
    BY <2>1, Zenon DEF Up
  <2>3. Turned(x, w, w - n) = turned
    BY <2>1, Zenon DEF Turned
  <2> QED
    BY <2>2, <2>3, Zenon DEF ROR
<1> HIDE DEF P, Q, W, D
<1>5. /\ h \in Int /\ l \in Int /\ x = P * h + l /\ 0 <= l /\ l < P /\ 0 <= h /\ h < Q
      /\ 0 <= turned /\ turned < W
  BY <1>1, <1>2, Split
<1>6. a \in Int /\ b \in Int /\ x = D * a + b
  BY <1>1, <1>2, Divided
<1> HIDE DEF h, l, a, b
<1>7. b = P * (h - 2 * a) + l
  BY <1>2, <1>5, <1>6 DEF D
<1>8. sum = W * (h - 2 * a) + turned /\ sum \in Int /\ turned \in Int
  <2> DEFINE e == h - 2 * a
  <2>1. e \in Int /\ b = P * e + l
    BY <1>5, <1>6, <1>7
  <2> HIDE DEF e
  <2>2. (P * e + l) * Q = (P * Q) * e + l * Q
    BY <1>2, <1>5, <2>1
  <2>3. sum = W * e + turned /\ sum \in Int /\ turned \in Int
    BY <1>2, <1>5, <2>1, <2>2
  <2> QED
    BY <2>3 DEF e
<1> HIDE DEF sum, turned
<1>9. turned = sum % W
  <2>1. h - 2 * a \in Int /\ W \in Int /\ W > 0
    BY <1>2, <1>5, <1>6
  <2> QED
    BY <2>1, <1>5, <1>8, Unique
<1>10. turned = sum % All(w)
  BY <1>9, Zenon DEF W
<1>11. "cf" \notin {}
  OBVIOUS
<1> QED
  BY <1>3, <1>8, <1>10, <1>11, RotateKeeps

LEMMA CarryIsCarry ==
    ASSUME IInv, "cf" \in known
    PROVE  lazy.carry = Num(cpu.cf) /\ Num(cpu.cf) \in {0, 1}
BY DEF IInv, Agree, IS_CF_SET, Bool, InterpTypeOK, Left, Num

LEMMA RCLKeeps ==
    ASSUME IInv, NEW w \in Width, NEW x \in Value(w), NEW n \in 1..7, RCL(w, x, n)
    PROVE  IInv'
<1> DEFINE P == 2^n
           Q == 2^(w - n)
           R == 2^(w + 1 - n)
           S == 2^(n - 1)
           W == All(w)
           c == Num(cpu.cf)
           X == x + W * c
           a == x \div R
           b == x % R
           all == (X % R) * P + X \div R
           sum == x * P + a + c * S
           q == all \div W
           r == all % W
<1>1. x \in Int /\ 0 <= x /\ x < W
  BY ValueIs
<1>2. /\ P \in Nat \ {0} /\ Q \in Nat \ {0} /\ S \in Nat \ {0} /\ W \in Nat \ {0}
      /\ P * Q = W /\ R = 2 * Q /\ P = 2 * S
  BY Exponents, AllIs
<1>3. lazy.carry = c /\ c \in {0, 1}
  BY CarryIsCarry DEF RCL
<1>4. Rotate(w, x, n, sum, r, q % 2, {"cf"})
  <2>1. 2^w = W
    BY AllIs
  <2>2. x + 2^w * Num(cpu.cf) = X
    BY <2>1, Zenon
  <2>6. Turned(X, w + 1, n) = all
    <3>1. (w + 1) - n = w + 1 - n
      BY Regrouped
    <3> QED
      BY <3>1, Zenon DEF Turned
  <2>3. Turned(x + 2^w * Num(cpu.cf), w + 1, n) = all
    BY <2>2, <2>6, Zenon
  <2>4. LeftParts(w, x, n) = sum
    BY <1>3, Zenon DEF LeftParts
  <2>5. Bit(all, w) = q % 2
    BY <2>1, Zenon DEF Bit
  <2> QED
    BY <2>1, <2>3, <2>4, <2>5, Zenon DEF RCL
<1> HIDE DEF P, Q, R, S, W, c
<1>5. R \in Nat \ {0} /\ R * S = W
  BY <1>2
<1>6. a \in Int /\ b \in Int /\ x = R * a + b /\ 0 <= b /\ b < R
  BY <1>1, <1>5, Divided
<1> HIDE DEF a, b
<1>7. X = R * (a + S * c) + b /\ X \in Int /\ a + S * c \in Int
  <2>1. CASE c = 0
    BY <2>1, <1>1, <1>2, <1>3, <1>5, <1>6
  <2>2. CASE c = 1
    BY <2>2, <1>1, <1>2, <1>3, <1>5, <1>6
  <2> QED
    BY <1>3, <2>1, <2>2
<1> HIDE DEF X, all, sum
<1> DEFINE k == a + S * c
<1>16. X = R * k + b /\ k \in Int /\ X \in Int
  BY <1>7
<1> HIDE DEF k
<1>8. X \div R = k /\ X % R = b
  <2>1. R \in Int /\ R > 0 /\ b \in Int /\ 0 <= b /\ b < R
    BY <1>5, <1>6
  <2> QED
    BY <2>1, <1>16, Unique
<1>17. all = b * P + k
  BY <1>8, Zenon DEF all
<1>18. b * P + k \in Int
  BY <1>2, <1>6, <1>16
<1>9. all = b * P + (a + S * c) /\ all \in Int
  BY <1>17, <1>18, Zenon DEF k
<1>10. sum = (2 * W) * a + all /\ sum \in Int
  <2> USE DEF sum
  <2>1. c \in Int /\ c * S = S * c
    BY <1>2, <1>3
  <2>2. R * P = 2 * W
    BY <1>2
  <2>3. (R * a + b) * P = (R * P) * a + b * P
    BY <1>2, <1>5, <1>6
  <2> QED
    BY <1>2, <1>6, <1>9, <2>1, <2>2, <2>3
<1>11. q \in Int /\ r \in Int /\ all = W * q + r /\ 0 <= r /\ r < W
  <2>1. W \in Int /\ W > 0 /\ all \in Int
    BY <1>2, <1>9
  <2> QED
    BY <2>1, Divided
<1> HIDE DEF q, r
<1>12. sum = W * (2 * a + q) + r /\ 2 * a + q \in Int
  <2>1. W * (2 * a + q) = (2 * W) * a + W * q
    BY <1>2, <1>6, <1>11
  <2> QED
    BY <1>2, <1>6, <1>10, <1>11, <2>1
<1>13. sum \div W = 2 * a + q /\ sum % W = r
  <2> DEFINE e == 2 * a + q
  <2>1. sum = W * e + r /\ e \in Int /\ sum \in Int /\ W \in Int /\ W > 0
    BY <1>2, <1>10, <1>12
  <2> HIDE DEF e
  <2>2. e = sum \div W /\ r = sum % W
    BY <1>11, <2>1, Unique
  <2> QED
    BY <2>2 DEF e
<1>14. (sum \div W) % 2 = q % 2
  BY <1>6, <1>11, <1>13
<1>15. r = sum % All(w) /\ ((sum \div All(w)) % 2 = 1 <=> q % 2 = 1)
  BY <1>13, <1>14, Zenon DEF W
<1> QED
  BY <1>4, <1>10, <1>15, RotateKeeps

LEMMA RCRKeeps ==
    ASSUME IInv, NEW w \in Width, NEW x \in Value(w), NEW n \in 1..7, RCR(w, x, n)
    PROVE  IInv'
<1> DEFINE P == 2^n
           Q == 2^(w - n)
           R == 2^(w + 1 - n)
           W == All(w)
           c == Num(cpu.cf)
           X == x + W * c
           h == x \div P
           l == x % P
           all == (X % P) * R + X \div P
           sum == h + l * R + c * Q
<1>1. x \in Int /\ 0 <= x /\ x < W
  BY ValueIs
<1>2. /\ P \in Nat \ {0} /\ Q \in Nat \ {0} /\ W \in Nat \ {0}
      /\ P * Q = W /\ R = 2 * Q
  BY Exponents, AllIs
<1>3. lazy.carry = c /\ c \in {0, 1}
  BY CarryIsCarry DEF RCR
<1>4. Rotate(w, x, n, sum, all % W, (all \div W) % 2, {"cf"})
  <2>1. 2^w = W /\ 2^(w + 1 - (w + 1 - n)) = P
    BY AllIs, Exponents
  <2>2. x + 2^w * Num(cpu.cf) = X
    BY <2>1, Zenon
  <2>6. Turned(X, w + 1, w + 1 - n) = all
    <3>1. (w + 1) - (w + 1 - n) = w + 1 - (w + 1 - n)
      BY Regrouped
    <3> QED
      BY <3>1, <2>1, Zenon DEF Turned
  <2>3. Turned(x + 2^w * Num(cpu.cf), w + 1, w + 1 - n) = all
    BY <2>2, <2>6, Zenon
  <2>4. RightParts(w, x, n) = sum
    BY <1>3, <2>1, Zenon DEF RightParts, Up
  <2>5. Bit(all, w) = (all \div W) % 2
    BY <2>1, Zenon DEF Bit
  <2> QED
    BY <2>1, <2>3, <2>4, <2>5, Zenon DEF RCR
<1> HIDE DEF P, Q, R, W, c
<1>6. h \in Int /\ l \in Int /\ x = P * h + l /\ 0 <= l /\ l < P
  BY <1>1, <1>2, Divided
<1> HIDE DEF h, l
<1>7. X = P * (h + Q * c) + l /\ X \in Int /\ h + Q * c \in Int
  <2>1. CASE c = 0
    BY <2>1, <1>1, <1>2, <1>3, <1>6
  <2>2. CASE c = 1
    BY <2>2, <1>1, <1>2, <1>3, <1>6
  <2> QED
    BY <1>3, <2>1, <2>2
<1> HIDE DEF X, all, sum
<1> DEFINE k == h + Q * c
<1>11. X = P * k + l /\ k \in Int /\ X \in Int
  BY <1>7
<1> HIDE DEF k
<1>8. X \div P = k /\ X % P = l
  <2>1. P \in Int /\ P > 0 /\ l \in Int /\ 0 <= l /\ l < P
    BY <1>2, <1>6
  <2> QED
    BY <2>1, <1>11, Unique
<1>12. all = l * R + k
  BY <1>8, Zenon DEF all
<1>13. l * R + k = sum /\ l * R + k \in Int
  <2>1. c \in Int /\ Q * c = c * Q
    BY <1>2, <1>3
  <2> QED
    BY <1>2, <1>6, <1>11, <2>1 DEF k, sum
<1>9. all = sum /\ sum \in Int
  BY <1>12, <1>13 DEF sum
<1>10. all % W = sum % All(w) /\ ((sum \div All(w)) % 2 = 1 <=> (all \div W) % 2 = 1)
  BY <1>9, Zenon DEF W
<1> QED
  BY <1>4, <1>9, <1>10, RotateKeeps

LEMMA RCROneKeeps ==
    ASSUME IInv, NEW x \in Bytes, RCROne(x)
    PROVE  IInv'
<1> DEFINE sum == x \div 2 + lazy.carry * 128
<1>1. 8 \in Width /\ x \in Value(8)
  BY DEF Width, Value
<1>2. x \in Int /\ 0 <= x /\ x < All(8)
  BY <1>1, ValueIs
<1>3. lazy.carry = Num(cpu.cf) /\ Num(cpu.cf) \in {0, 1}
  BY CarryIsCarry DEF RCROne
<1>4. Rotate(8, x, 1, sum, sum, Bit(x, 0), {})
  BY <1>3, SMT DEF RCROne
<1>5. sum \in Int /\ sum = sum % All(8)
  BY <1>2, <1>3, SMT DEF All
<1>6. "cf" \notin {}
  OBVIOUS
<1> HIDE DEF sum
<1> QED
  BY <1>1, <1>4, <1>5, <1>6, RotateKeeps

-----------------------------------------------------------------------------
LEMMA SetCarryKeeps ==
    ASSUME IInv, NEW b \in {0, 1}, NEW k \in SUBSET Flag, NEW cf \in BOOLEAN,
           "cf" \in k => (b = 1 <=> cf), k \subseteq known \cup {"cf"},
           Ran([lazy EXCEPT !.carry = b], 0, [cpu EXCEPT !.cf = cf], 0, k)
    PROVE  IInv'
<1> DEFINE f == [lazy EXCEPT !.carry = b]
           c == [cpu EXCEPT !.cf = cf]
<1>0. InterpTypeOK /\ Agree(lazy, cpu, known)
  BY DEF IInv
<1>1. /\ f \in Left
      /\ IS_CF_SET(f) <=> b = 1
      /\ IS_ZF_SET(f) <=> IS_ZF_SET(lazy)
      /\ IS_SF_SET(f) <=> IS_SF_SET(lazy)
      /\ IS_OF_SET(f) <=> IS_OF_SET(lazy)
  <2>1. lazy \in Left
    BY <1>0 DEF InterpTypeOK
  <2> QED
    BY <2>1, CarrySet, Zenon
<1>2. /\ c \in [Flag -> BOOLEAN] /\ c.cf = cf /\ c.zf = cpu.zf /\ c.sf = cpu.sf /\ c.of = cpu.of
      /\ c.df = cpu.df
  BY <1>0 DEF InterpTypeOK, Flag
<1>3. \A g \in {"zf", "sf", "of", "df"} : g \in k => g \in known
  OBVIOUS
<1>4. Ran(f, 0, c, 0, k)
  OBVIOUS
<1> HIDE DEF f, c
<1>5. Agree(f, c, k)
  BY <1>0, <1>1, <1>2, <1>3, Zenon DEF Agree
<1> QED
  BY <1>1, <1>2, <1>4, <1>5, RanKeeps

LEMMA CMCKeeps == ASSUME IInv, CMC PROVE IInv'
<1>0. InterpTypeOK /\ Agree(lazy, cpu, known)
  BY DEF IInv
<1>1. lazy.carry \in {0, 1} /\ cpu.cf \in BOOLEAN /\ known \in SUBSET Flag
  BY <1>0 DEF InterpTypeOK, Left, Flag
<1>2. 1 - lazy.carry \in {0, 1} /\ (1 - lazy.carry = 1 <=> ~(lazy.carry = 1))
  BY <1>1
<1>3. "cf" \in known => (1 - lazy.carry = 1 <=> ~cpu.cf)
  BY <1>0, <1>2 DEF Agree, IS_CF_SET, Bool
<1>4. Ran([lazy EXCEPT !.carry = 1 - lazy.carry], 0, [cpu EXCEPT !.cf = ~cpu.cf], 0, known)
  BY DEF CMC
<1>5. (~cpu.cf) \in BOOLEAN
  OBVIOUS
<1> QED
  BY <1>1, <1>2, <1>3, <1>4, <1>5, SetCarryKeeps

LEMMA SetDFKeeps == ASSUME IInv, NEW d \in BOOLEAN, SetDF(d) PROVE IInv'
<1>0. InterpTypeOK /\ Agree(lazy, cpu, known) /\ exact /\ JumpsDecide
  BY DEF IInv
<1>1. /\ lazy' = lazy /\ exact' = exact /\ compared' = compared /\ DF' = d
      /\ known' = known \cup {"df"} /\ cpu' = [cpu EXCEPT !.df = d]
  BY DEF SetDF
<1>2. /\ cpu' \in [Flag -> BOOLEAN] /\ cpu'.cf = cpu.cf /\ cpu'.zf = cpu.zf /\ cpu'.sf = cpu.sf
      /\ cpu'.of = cpu.of /\ cpu'.df = d
  BY <1>0, <1>1 DEF InterpTypeOK, Flag
<1>3. InterpTypeOK'
  BY <1>0, <1>1, <1>2 DEF InterpTypeOK, Flag
<1>4. Agree(lazy, cpu, known)'
  <2>1. \A g \in {"cf", "zf", "sf", "of"} : g \in known' => g \in known
    BY <1>1
  <2> QED
    BY <1>0, <1>1, <1>2, <2>1, Zenon DEF Agree, IS_CF_SET, IS_ZF_SET, IS_SF_SET, IS_OF_SET, Bool,
       Sign, Bit
<1>5. JumpsDecide'
  BY <1>0, <1>1 DEF JumpsDecide, JE_JZ, JB_JNAE, JBE_JNA, JL_JNGE, JLE_JNG, IS_CF_SET, IS_ZF_SET,
     IS_SF_SET, IS_OF_SET
<1> QED
  BY <1>0, <1>1, <1>3, <1>4, <1>5 DEF IInv

LEMMA PushPopKeeps == ASSUME IInv, PushPop PROVE IInv'
<1> DEFINE t == trans_interp_flags
           f == trans_flags_to_interp(t)
           k == known \ {"of"}
<1>0. InterpTypeOK /\ Agree(lazy, cpu, known)
  BY DEF IInv
<1>1. /\ t.cf = IS_CF_SET(lazy) /\ t.zf = IS_ZF_SET(lazy) /\ t.sf = IS_SF_SET(lazy)
      /\ t.cf \in BOOLEAN /\ t.zf \in BOOLEAN /\ t.sf \in BOOLEAN /\ t.of \in BOOLEAN
  BY <1>0, Decoded, Zenon
<1>2. ~(t.zf /\ t.sf)
  BY <1>1, ZeroIsPositive, Zenon
<1>3. Ran(f, 0, cpu, 0, k)
  BY DEF PushPop
<1> HIDE DEF t
<1>4. /\ f \in Left
      /\ IS_CF_SET(f) <=> t.cf
      /\ IS_ZF_SET(f) <=> t.zf
      /\ IS_SF_SET(f) <=> t.sf
  BY <1>1, <1>2, Encoded
<1> HIDE DEF f
<1>5. cpu \in [Flag -> BOOLEAN] /\ k \in SUBSET Flag
  BY <1>0 DEF InterpTypeOK
<1>6. Agree(f, cpu, k)
  <2>1. "of" \notin k /\ \A g \in k : g \in known
    OBVIOUS
  <2> HIDE DEF k
  <2> QED
    BY <1>0, <1>1, <1>4, <2>1, Zenon DEF Agree
<1> QED
  BY <1>3, <1>4, <1>5, <1>6, RanKeeps

(* POPF and SAHF.                                                           *)
LEMMA LoadedKeeps ==
    ASSUME IInv, NEW f \in [Flag -> BOOLEAN], ~(f.zf /\ f.sf), NEW c \in [Flag -> BOOLEAN],
           NEW k \in SUBSET Flag, NEW d \in BOOLEAN,
           c.cf = f.cf, c.zf = f.zf, c.sf = f.sf,
           "of" \in k => c.of = f.of, "df" \in k => c.df = d,
           lazy' = trans_flags_to_interp(f), DF' = d, cpu' = c, known' = k, exact' = TRUE,
           compared' = {}
    PROVE  IInv'
<1>1. f.cf \in BOOLEAN /\ f.zf \in BOOLEAN /\ f.sf \in BOOLEAN /\ f.of \in BOOLEAN
  BY DEF Flag
<1> DEFINE g == trans_flags_to_interp(f)
<1>2. /\ g \in Left
      /\ IS_CF_SET(g) <=> f.cf
      /\ IS_ZF_SET(g) <=> f.zf
      /\ IS_SF_SET(g) <=> f.sf
      /\ IS_OF_SET(g) <=> f.of
  BY <1>1, Encoded
<1>3. lazy' = g
  OBVIOUS
<1> HIDE DEF g
<1>4. InterpTypeOK'
  BY <1>2, <1>3 DEF InterpTypeOK
<1>5. Agree(lazy, cpu, known)'
  BY <1>2, <1>3 DEF Agree, IS_CF_SET, IS_ZF_SET, IS_SF_SET, IS_OF_SET, Bool
<1>6. JumpsDecide'
  BY DEF JumpsDecide
<1> QED
  BY <1>4, <1>5, <1>6 DEF IInv

LEMMA PoppedKeeps == ASSUME IInv, NEW f \in [Flag -> BOOLEAN], Popped(f) PROVE IInv'
<1>1. f.df \in BOOLEAN /\ Flag \in SUBSET Flag
  BY DEF Flag
<1> QED
  BY <1>1, LoadedKeeps DEF Popped

LEMMA SAHFKeeps == ASSUME IInv, NEW f \in [Flag -> BOOLEAN], SAHF(f) PROVE IInv'
<1> DEFINE c == [f EXCEPT !.of = cpu.of, !.df = cpu.df]
           k == {"cf", "zf", "sf"}
<1>1. cpu.of \in BOOLEAN /\ cpu.df \in BOOLEAN
  BY DEF IInv, InterpTypeOK, Flag
<1>2. c \in [Flag -> BOOLEAN] /\ c.cf = f.cf /\ c.zf = f.zf /\ c.sf = f.sf
  BY <1>1 DEF Flag
<1>3. k \in SUBSET Flag /\ "of" \notin k /\ "df" \notin k /\ FALSE \in BOOLEAN
  BY DEF Flag
<1>4. /\ lazy' = trans_flags_to_interp(f) /\ DF' = FALSE /\ cpu' = c /\ known' = k /\ exact' = TRUE
      /\ compared' = {} /\ ~(f.zf /\ f.sf)
  BY DEF SAHF
<1> HIDE DEF c, k
<1> QED
  BY <1>2, <1>3, <1>4, LoadedKeeps

-----------------------------------------------------------------------------
LEMMA InitHolds == InterpInit => IInv
<1> SUFFICES ASSUME InterpInit PROVE IInv
  OBVIOUS
<1>1. /\ lazy = [res |-> 0, carry |-> 0, s1 |-> 0, s2 |-> 0] /\ DF = FALSE
      /\ cpu = [g \in Flag |-> FALSE] /\ known = {"df"} /\ exact = TRUE /\ compared = {}
  BY DEF InterpInit
<1>2. 0 \in 0..Highest
  BY ResultIs
<1>3. InterpTypeOK
  BY <1>1, <1>2 DEF InterpTypeOK, Left, Flag
<1>4. Agree(lazy, cpu, known)
  BY <1>1 DEF Agree, Flag
<1> QED
  BY <1>1, <1>3, <1>4 DEF IInv, JumpsDecide

LEMMA StepHolds == IInv /\ [InterpNext]_interpvars => IInv'
<1> SUFFICES ASSUME IInv, [InterpNext]_interpvars PROVE IInv'
  OBVIOUS
<1>1. ASSUME NEW w \in Width, NEW x \in Value(w), NEW y \in Value(w), NEW c \in {0, 1},
             Add(w, x, y, c) \/ Subtract(w, x, y, c)
      PROVE  IInv'
  BY <1>1, AddKeeps, SubtractKeeps
<1>2. ASSUME NEW w \in Width, NEW x \in Value(w), NEW y \in Value(w),
             Compare(w, x, y) \/ Mul(w, x, y)
      PROVE  IInv'
  BY <1>2, CompareKeeps, MulKeeps
<1>3. ASSUME NEW w \in Width, NEW x \in Value(w),
             Logic(w, x) \/ Neg(w, x) \/ Step(w, x, 1) \/ Step(w, x, -1)
      PROVE  IInv'
  BY <1>3, LogicKeeps, NegKeeps, StepKeeps
<1>4. ASSUME NEW w \in Width, NEW x \in Value(w), NEW n \in Counts,
             \/ SHL(w, x, n) \/ SHR(w, x, n) \/ SAR(w, x, n)
             \/ ROL(w, x, n) \/ ROR(w, x, n) \/ RCL(w, x, n) \/ RCR(w, x, n)
      PROVE  IInv'
  <2>1. n \in 1..7
    BY InterpAssumption, Zenon
  <2> QED
    BY <1>4, <2>1, SHLKeeps, SHRKeeps, SARKeeps, ROLKeeps, RORKeeps, RCLKeeps, RCRKeeps
<1>5. ASSUME NEW x \in Bytes, RCROne(x) PROVE IInv'
  BY <1>5, RCROneKeeps
<1>6. ASSUME NEW c \in {0, 1}, SetCarry(c) PROVE IInv'
  <2>1. Bool(c) \in BOOLEAN /\ (c = 1 <=> Bool(c))
    BY DEF Bool
  <2>2. known \cup {"cf"} \in SUBSET Flag
    BY DEF IInv, InterpTypeOK, Flag
  <2> QED
    BY <1>6, <2>1, <2>2, SetCarryKeeps DEF SetCarry
<1>7. ASSUME NEW d \in BOOLEAN, SetDF(d) PROVE IInv'
  BY <1>7, SetDFKeeps
<1>8. ASSUME NEW f \in [Flag -> BOOLEAN], Popped(f) \/ SAHF(f) PROVE IInv'
  BY <1>8, PoppedKeeps, SAHFKeeps
<1>9. CASE CMC \/ PushPop
  BY <1>9, CMCKeeps, PushPopKeeps
<1>10. CASE UNCHANGED interpvars
  BY <1>10 DEF interpvars, IInv, InterpTypeOK, Agree, JumpsDecide, IS_CF_SET, IS_ZF_SET, IS_SF_SET,
     IS_OF_SET, JE_JZ, JB_JNAE, JBE_JNA, JL_JNGE, JLE_JNG, Sign, Bit, Bool, Signed
<1> QED
  BY <1>1, <1>2, <1>3, <1>4, <1>5, <1>6, <1>7, <1>8, <1>9, <1>10, Zenon DEF InterpNext

(* The invariant is inductive.                                              *)
THEOREM IInvHolds == InterpSpec => []IInv
BY InitHolds, StepHolds, PTL DEF InterpSpec

(* Whatever bytes, words and counts a program uses, what is left for a flag *)
(* to be read from is what the masks of the code let through.               *)
THEOREM Typed == InterpSpec => []InterpTypeOK
<1>1. IInv => InterpTypeOK
  BY DEF IInv
<1> QED
  BY <1>1, IInvHolds, PTL

(* After any sequence of the instructions modelled, with any operands, the  *)
(* flags the interpreter claims to be right about and the last result are   *)
(* those of the processor.                                                  *)
THEOREM Instructions == InterpSpec => []InstructionsExact
<1>1. IInv => InstructionsExact
  BY AgreeIsExact DEF IInv, InstructionsExact, ResultsExact
<1> QED
  BY <1>1, IInvHolds, PTL

(* After a comparison of any two operands the conditional jumps decide their*)
(* unsigned and their signed order.                                         *)
THEOREM Jumps == InterpSpec => []JumpsDecide
<1>1. IInv => JumpsDecide
  BY DEF IInv
<1> QED
  BY <1>1, IInvHolds, PTL
=============================================================================
