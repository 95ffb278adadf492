--------------------------- MODULE BackendNumeric ---------------------------
(***************************************************************************)
(* The instruction sequences the amd64 and the arm64 backend emit for the  *)
(* numeric operations that have no instruction of their own.  For each     *)
(* machine, what its instructions do comes first (external): on arm64      *)
(* division never faults, conversions saturate and set the                 *)
(* invalid-operation flag.  The rest translates the emitters, one operator *)
(* per sequence, the jumps as CASE arms.                                   *)
(***************************************************************************)
EXTENDS Numbers

---------------------------------------------------------------------------
\* amd64: machine instructions

\* CMP x, y: the flags of x - y at width w.
CmpFlags(x, y, w) ==
  [z |-> x = y, c |-> x < y, p |-> FALSE,
   s |-> Signed(Wrap(x - y, w), w) < 0,
   o |-> Signed(x, w) - Signed(y, w) \notin MinInt(w, TRUE) .. MaxInt(w, TRUE)]

\* UCOMISS/UCOMISD f, g: unordered sets Z, P and C.
UcomisFlags(f, g) ==
  LET un == IsNaN(f) \/ IsNaN(g)
  IN [z |-> un \/ Equal(f, g), c |-> un \/ Less(f, g), p |-> un, s |-> FALSE, o |-> FALSE]

\* Whether a condition code holds of the flags.
Holds(cond, fl) ==
  CASE cond = "z"  -> fl.z   [] cond = "nz"  -> ~fl.z
    [] cond = "b"  -> fl.c   [] cond = "nb"  -> ~fl.c
    [] cond = "be" -> fl.c \/ fl.z
    [] cond = "nbe" -> ~fl.c /\ ~fl.z
    [] cond = "l"  -> fl.s # fl.o
    [] cond = "nl" -> fl.s = fl.o
    [] cond = "le" -> fl.z \/ fl.s # fl.o
    [] cond = "nle" -> ~fl.z /\ fl.s = fl.o
    [] cond = "p"  -> fl.p   [] cond = "np"  -> ~fl.p
    [] cond = "no" -> ~fl.o  [] cond = "s"   -> fl.s

\* CVTT*2SI: truncation, or the least integer when it does not fit.
Cvtt(f, w) ==
  IF f.kind = "fin" /\ Truncated(f) \in MinInt(w, TRUE) .. MaxInt(w, TRUE)
  THEN Wrap(Truncated(f), w) ELSE 2^(w - 1)

\* CVTSI2S*: from a signed integer of w bits.
Cvtsi2s(x, w, p) == Round(OfInt(Signed(x, w)), p)

\* MINPS/MAXPS dst, src: the source when either is NaN or both are zero.
MinPs(d, s) == IF ~IsNaN(d) /\ ~IsNaN(s) /\ Less(d, s) THEN d ELSE s
MaxPs(d, s) == IF ~IsNaN(d) /\ ~IsNaN(s) /\ Less(s, d) THEN d ELSE s

\* ORPS, ANDPS, XORPS of floats that differ in the sign only, or with a NaN.
OrPs(f, g) == IF IsNaN(f) \/ IsNaN(g) THEN NaN ELSE [f EXCEPT !.neg = f.neg \/ g.neg]
AndPs(f, g) == [f EXCEPT !.neg = f.neg /\ g.neg]
XorPs(f, g) == IF IsNaN(f) \/ IsNaN(g) THEN NaN ELSE Finite(f.neg # g.neg, 0)

\* SHL, SHR, SAR and the packed shifts; a packed shift by the width or more
\* clears the lane.
Shl(x, k, w) == IF k >= w THEN 0 ELSE Wrap(x * 2^k, w)
Shr(x, k, w) == IF k >= w THEN 0 ELSE x \div 2^k
Sar(x, k, w) == Wrap(Signed(x, w) \div 2^(IF k >= w THEN w - 1 ELSE k), w)

\* PACKSS, PACKUS of one lane of 2b bits
PackSigned(x, b) ==
  Wrap(Max({MinInt(b, TRUE), Min({MaxInt(b, TRUE), Signed(x, 2 * b)})}), b)
PackUnsigned(x, b) == Max({0, Min({MaxInt(b, FALSE), Signed(x, 2 * b)})})

\* A word of 2b bits as two lanes of b bits
Lo(x, b) == x % 2^b
Hi(x, b) == x \div 2^b
Joined(lo, hi, b) == hi * 2^b + lo

AllOnes(w) == 2^w - 1
Mask(c, w) == IF c THEN AllOnes(w) ELSE 0

---------------------------------------------------------------------------
\* Integers

\* lowerIDivRemSequenceAfterRegAlloc.  IDIV faults on the least integer by
\* -1; a signed remainder by -1 jumps over it with zero in RDX.
Amd64DivRem(x, y, w, signed, isDiv) ==
  LET a == Interpreted(x, w, signed)
      b == Interpreted(y, w, signed)
  IN CASE y = 0 -> Raises("IntegerDivideByZero")
       [] y # 0 /\ signed /\ isDiv /\ y = AllOnes(w) /\ x = 2^(w - 1) -> Raises("IntegerOverflow")
       [] y # 0 /\ signed /\ ~isDiv /\ y = AllOnes(w) -> Yields(0)
       [] y # 0 /\ Quot(a, b) > MaxInt(w, signed) -> Raises("machine divide error")
       [] OTHER -> Yields(Wrap(IF isDiv THEN Quot(a, b) ELSE Rem(a, b), w))

\* lowerCtz: TZCNT with the ABM extension, otherwise BSF, undefined on zero.
Bsf(x, w) == Min({i \in 0 .. w - 1 : Bit(x, i) = 1})
Amd64Ctz(x, w, abm) == IF abm THEN RefCtz(x, w) ELSE IF x = 0 THEN w ELSE Bsf(x, w)

\* lowerClz: LZCNT, otherwise BSR and an XOR with the width less one.
Bsr(x, w) == Max({i \in 0 .. w - 1 : Bit(x, i) = 1})
Amd64Clz(x, w, abm) == IF abm THEN RefClz(x, w) ELSE IF x = 0 THEN w ELSE Bsr(x, w) ^^ (w - 1)

\* lowerShiftR: the count goes to RCX, and the machine masks it.
Amd64Shift(op, x, y, w) ==
  LET k == y % w
  IN CASE op = "shl" -> Shl(x, k, w)   [] op = "shr_u" -> Shr(x, k, w)
       [] op = "shr_s" -> Sar(x, k, w)
       [] op = "rotl" -> Wrap(x * 2^k + (x \div 2^(w - k)), w)
       [] op = "rotr" -> Wrap((x \div 2^k) + x * 2^(w - k), w)

\* condFromSSAIntCmpCond
CondFromSSAIntCmpCond(c, signed) ==
  CASE c = "eq" -> "z" [] c = "ne" -> "nz"
    [] c = "lt" -> IF signed THEN "l" ELSE "b"
    [] c = "ge" -> IF signed THEN "nl" ELSE "nb"
    [] c = "gt" -> IF signed THEN "nle" ELSE "nbe"
    [] c = "le" -> IF signed THEN "le" ELSE "be"

\* lowerIcmp
Amd64Icmp(x, y, c, signed, w) == Holds(CondFromSSAIntCmpCond(c, signed), CmpFlags(x, y, w))

\* lowerFcmp, lowerFcmpToFlags: unordered clears "above", so lt and le swap
\* their operands, and eq and ne need the parity flag as well.
Amd64Fcmp(f, g, c) ==
  CASE c = "eq" -> Holds("np", UcomisFlags(f, g)) /\ Holds("z", UcomisFlags(f, g))
    [] c = "ne" -> Holds("p", UcomisFlags(f, g)) \/ Holds("nz", UcomisFlags(f, g))
    [] c = "lt" -> Holds("nbe", UcomisFlags(g, f))
    [] c = "le" -> Holds("nb", UcomisFlags(g, f))
    [] c = "gt" -> Holds("nbe", UcomisFlags(f, g))
    [] c = "ge" -> Holds("nb", UcomisFlags(f, g))

---------------------------------------------------------------------------
\* Floats

\* lowerFminFmax: different, equal (zeros combine their signs), or unordered.
Amd64FminFmax(f, g, isMin, p) ==
  LET fl == UcomisFlags(f, g)
  IN CASE Holds("nz", fl) -> IF isMin THEN MinPs(f, g) ELSE MaxPs(f, g)
       [] Holds("z", fl) /\ Holds("p", fl) -> FAdd(f, g, p)
       [] OTHER -> IF isMin THEN OrPs(f, g) ELSE AndPs(f, g)

\* Mutant of SintThreshold: the same threshold whatever the source's size.
SintThresholdFlat(src64, w) == OfInt(MinInt(w, TRUE))

\* lowerFcvtToSintSequenceAfterRegalloc: the threshold below which the least
\* integer in the destination means overflow; from f64 to i32 it is one less
\* than the least integer, and excluded, as -2^31 - 0.5 is still in range.
SintThreshold(src64, w) ==
  IF src64 /\ w = W32 THEN OfInt(MinInt(w, TRUE) - 1) ELSE OfInt(MinInt(w, TRUE))
Amd64FcvtToSint(f, src64, w, sat) ==
  LET r == Cvtt(f, w)
      above == IF src64 /\ w = W32 THEN "nbe" ELSE "nb"
      zero == OfInt(0)
  IN CASE Holds("no", CmpFlags(r, 1, w)) -> Yields(r)
       [] ~Holds("no", CmpFlags(r, 1, w)) /\ Holds("p", UcomisFlags(f, f)) ->
            IF sat THEN Yields(0) ELSE Raises("InvalidConversionToInteger")
       [] OTHER ->
            IF sat
            THEN IF Holds("b", UcomisFlags(f, zero)) THEN Yields(r)
                 ELSE Yields(MaxInt(w, TRUE))
            ELSE IF ~Holds(above, UcomisFlags(f, SintThreshold(src64, w)))
                    \/ ~Holds("nb", UcomisFlags(zero, f))
                 THEN Raises("IntegerOverflow") ELSE Yields(r)

\* lowerFcvtToUintSequenceAfterRegalloc: below 2^(w-1) the signed truncation
\* decides, from there on 2^(w-1) is subtracted first and added back.
Amd64FcvtToUint(f, w, p, sat) ==
  LET threshold == OfInt(2^(w - 1))
      low == Cvtt(f, w)
      high == Cvtt(FSub(f, threshold, p), w)
      nonNeg(r) == Holds("nl", CmpFlags(r, 0, w))
  IN CASE Holds("nb", UcomisFlags(f, threshold)) ->
            IF nonNeg(high) THEN Yields(Wrap(high + 2^(w - 1), w))
            ELSE IF sat THEN Yields(AllOnes(w)) ELSE Raises("IntegerOverflow")
       [] Holds("p", UcomisFlags(f, threshold)) ->
            IF sat THEN Yields(0) ELSE Raises("InvalidConversionToInteger")
       [] OTHER ->
            IF nonNeg(low) THEN Yields(low)
            ELSE IF sat THEN Yields(0) ELSE Raises("IntegerOverflow")

\* lowerFcvtFromUint: a 32-bit source converts as a 64-bit one; a 64-bit one
\* with its top bit set is halved, keeping the lost bit for the rounding.
Amd64FcvtFromUint(x, w, p) ==
  IF w = W32 \/ x < 2^(w - 1) THEN Cvtsi2s(x, W64, p)
  ELSE LET h == Cvtsi2s((x \div 2) | (x & 1), w, p) IN FAdd(h, h, p)

---------------------------------------------------------------------------
\* Vectors, on one lane of w bits or one word of two lanes of b bits

\* lowerVIshl, lowerVUshri8x16, lowerVSshri8x16: bytes are shifted as words,
\* the bits that crossed over are masked by a table; a signed shift doubles
\* each byte into a word first and packs the words back.
Amd64ShlBytes(x, y, b) ==
  LET k == y % b
      m == Joined(Shl(AllOnes(b), k, b), Shl(AllOnes(b), k, b), b)
  IN Shl(x, k, 2 * b) & m
Amd64ShrBytes(x, y, b) ==
  LET k == y % b
      m == Joined(Shr(AllOnes(b), k, b), Shr(AllOnes(b), k, b), b)
  IN Shr(x, k, 2 * b) & m
Amd64SarBytes(x, y, b) ==
  LET k == (y % b) + b
      lane(v) == PackSigned(Sar(Joined(v, v, b), k, 2 * b), b)
  IN Joined(lane(Lo(x, b)), lane(Hi(x, b)), b)

\* lowerVIcmp.  There is no unsigned comparison: the unsigned maximum or
\* minimum is compared for equality, and the mask flipped where needed.  The
\* 64-bit lanes have eq and gt only.
Amd64VIcmp(x, y, c, signed, w) ==
  LET gt(a, b) == Mask(Signed(a, w) > Signed(b, w), w)
      eq(a, b) == Mask(a = b, w)
      mins(a, b) == IF Signed(a, w) < Signed(b, w) THEN a ELSE b
      swapped == c \in {"lt", "le"}
      tmp == IF swapped THEN y ELSE x
      op  == IF swapped THEN x ELSE y
  IN CASE c = "eq" -> eq(x, y)
       [] c = "ne" -> eq(x, y) ^^ AllOnes(w)
       [] signed /\ c \in {"lt", "gt"} -> gt(tmp, op)
       [] signed /\ c \in {"le", "ge"} ->
            IF w = W64 THEN gt(op, tmp) ^^ AllOnes(w)
            ELSE eq(mins(tmp, op), op)
       [] ~signed /\ c \in {"lt", "gt"} -> eq(Max({tmp, op}), op) ^^ AllOnes(w)
       [] ~signed /\ c \in {"le", "ge"} -> eq(Min({tmp, op}), op)

\* lowerVImul of 64-bit lanes from products of their 32-bit halves
Amd64VImul(x, y) ==
  LET pmuludq(a, b) == Lo(a, W32) * Lo(b, W32)
      cross == pmuludq(Shr(x, W32, W64), y) + pmuludq(Shr(y, W32, W64), x)
  IN Wrap(Shl(Wrap(cross, W64), W32, W64) + pmuludq(x, y), W64)

\* lowerVIabs of 64-bit lanes: BLENDVPD picks by the sign of the negation.
Amd64VIabs(x, w) ==
  LET neg == Wrap(0 - x, w) IN IF Signed(neg, w) < 0 THEN x ELSE neg

\* lowerVIpopcnt: a table of the counts of the half-bytes
Amd64VIpopcnt(x, b) ==
  LET h == b \div 2
      table == [n \in 0 .. 2^h - 1 |-> RefPopcnt(n, h)]
  IN table[x & AllOnes(h)] + table[Shr(x, h, b) & AllOnes(h)]

\* lowerSqmulRoundSat: PMULHRSW, whose one overflow is flipped to the maximum
Pmulhrsw(x, y, w) ==
  Wrap(((Signed(x, w) * Signed(y, w)) \div 2^(w - 2) + 1) \div 2, w)
Amd64SqmulRoundSat(x, y, w) ==
  LET r == Pmulhrsw(x, y, w) IN r ^^ Mask(r = 2^(w - 1), w)

\* lowerExtIaddPairwise: bytes with PMADDUBSW by ones; unsigned words flip
\* their sign bits, are summed as signed, and get twice the bias back.
Amd64ExtAddBytes(lo, hi, b, signed) ==
  Wrap(Interpreted(lo, b, signed) + Interpreted(hi, b, signed), 2 * b)
Amd64ExtAddWords(lo, hi, b, signed) ==
  LET bias == 2^(b - 1)
      flipped(v) == Signed(v ^^ bias, b)
  IN IF signed THEN Wrap(Signed(lo, b) + Signed(hi, b), 2 * b)
     ELSE Wrap(flipped(lo) + flipped(hi) + 2^b, 2 * b)

\* lowerNarrow
Amd64Narrow(x, b, signed) == IF signed THEN PackSigned(x, b) ELSE PackUnsigned(x, b)

\* lowerVFmin, lowerVFmax: both orders of the asymmetric instruction combined
Unordered(f, g) == IsNaN(f) \/ IsNaN(g)
Amd64VFmin(f, g) ==
  LET t1 == MinPs(f, g)
      t2 == MinPs(g, f)
  IN IF Unordered(t1, t2) THEN NaN ELSE OrPs(t1, t2)
Amd64VFmax(f, g, p) ==
  LET t1 == MaxPs(f, g)
      t2 == XorPs(t1, MaxPs(g, f))
      both == OrPs(t1, t2)
  IN IF Unordered(both, both) THEN NaN ELSE FSub(both, t2, p)

\* lowerVFcvtFromInt, unsigned.  To f32: the low and the high bits apart, the
\* high ones halved first (22 and 10 bits in the code, here two halves that
\* each fit the precision).  To f64: beside 2^52 the bits are the mantissa.
LowBits == W32 \div 2
Amd64VFcvtFromUint(x, p) ==
  IF p = P32
  THEN LET lo == Shr(Shl(x, W32 - LowBits, W32), W32 - LowBits, W32)
           half == Cvtsi2s(Shr(x - lo, 1, W32), W32, p)
       IN FAdd(FAdd(half, half, p), Cvtsi2s(lo, W32, p), p)
  ELSE LET big == OfInt(2^(P64 - 1)) IN FSub(FAdd(big, OfInt(x), p), big, p)

\* lowerVFcvtToIntSat to 32-bit lanes, from f32
Amd64VFcvtToSintF32(f) ==
  LET v == IF IsNaN(f) THEN OfInt(0) ELSE f
      r == Cvtt(v, W32)
      positive == ~IsNaN(f) /\ ~f.neg
      flip == Sar(IF positive THEN r & 2^(W32 - 1) ELSE 0, W32 - 1, W32)
  IN r ^^ flip
Amd64VFcvtToUintF32(f) ==
  LET v == MaxPs(f, OfInt(0))
      top == Cvtsi2s(MaxInt(W32, TRUE), W32, P32)
      over == FSub(v, top, P32)
      r2 == Cvtt(over, W32) ^^ Mask(~IsNaN(over) /\ ~Less(over, top), W32)
  IN Wrap(Cvtt(v, W32) + (IF Signed(r2, W32) > 0 THEN r2 ELSE 0), W32)

\* ... and from f64
Amd64VFcvtToSintF64(f) ==
  LET cap == IF IsNaN(f) THEN OfInt(0) ELSE OfInt(MaxInt(W32, TRUE))
  IN Cvtt(MinPs(f, cap), W32)
Amd64VFcvtToUintF64(f) ==
  LET v == MinPs(MaxPs(f, OfInt(0)), OfInt(MaxInt(W32, FALSE)))
      whole == Finite(v.neg, (v.mag \div Unit) * Unit)
      big == FAdd(whole, OfInt(2^(P64 - 1)), P64)
  IN Wrap(big.mag \div Unit, P64 - 1) % 2^W32

\* lowerSwizzle: a saturating add sets the top bit of an index that is out of
\* the vector, and PSHUFB writes zero for it.  n lanes of b bits.
Amd64SwizzleIndex(i, n, b) ==
  LET shifted == Min({i + 2^(b - 1) - n, AllOnes(b)})
  IN IF shifted >= 2^(b - 1) THEN n ELSE shifted % n

\* lowerVallTrue: compared with zeros, PTEST finds no lane set.
Amd64VallTrue(v, b) ==
  OfLanes(Mask(Lane(v, 0, b) = 0, b), Mask(Lane(v, 1, b) = 0, b), b) = 0
\* lowerVanyTrue
Amd64VanyTrue(v) == v # 0

\* PMOVMSK of lanes of b bits
Movmsk(l0, l1, b) == Bit(l0, b - 1) + 2 * Bit(l1, b - 1)

\* lowerVhighBits.  The 16-bit lanes are packed to bytes, twice, and the lower
\* copy is shifted out of the mask.
Amd64VhighBits(v, b, packed) ==
  LET p(i) == PackSigned(Lane(v, i, b), b \div 2)
      twice == Movmsk(p(0), p(1), b \div 2) * (1 + 2^2)
  IN IF packed THEN Shr(twice, 2, b) ELSE Movmsk(Lane(v, 0, b), Lane(v, 1, b), b)

\* lowerShuffle: each source has its own index mask, with the top bit set
\* where the lane comes from the other; PSHUFB zeroes those, and ORPS merges.
Amd64Shuffle(v, u, l, b) ==
  LET n == 2
      pshufb(src, i) == IF i >= 128 THEN 0 ELSE Lane(src, i, b)
      xMask == IF l < n THEN l ELSE 128
      yMask == IF l < n THEN 128 ELSE l - n
  IN pshufb(v, xMask) | pshufb(u, yMask)

\* lowerVFcmp: the predicates are lt, le, eq and ne; gt and ge swap.
Amd64VFcmp(f, g, c) ==
  LET ordered == ~Unordered(f, g)
      lt(a, b) == ordered /\ Less(a, b)
      le(a, b) == ordered /\ ~Less(b, a)
  IN CASE c = "gt" -> lt(g, f) [] c = "ge" -> le(g, f)
       [] c = "lt" -> lt(f, g) [] c = "le" -> le(f, g)
       [] c = "eq" -> Equal(f, g) [] c = "ne" -> ~Equal(f, g)

\* lowerVbitselect: PAND with the mask, PANDN of the other, POR
Pandn(d, s, w) == Complement(d, w) & s
Amd64Vbitselect(c, x, y, w) == (x & c) | Pandn(c, y, w)

\* OpcodeVMinPseudo, OpcodeVMaxPseudo: MINPS with the operands exchanged, so
\* that the source, kept when neither is less, is the first operand
Amd64PminPmax(f, g, isMin) == IF isMin THEN MinPs(g, f) ELSE MaxPs(g, f)

\* lowerExtractLane, lowerInsertLane, lowerSplat
Amd64ExtractLane(v, i, b, signed, w) ==
  LET l == Lane(v, i, b) IN IF signed THEN Wrap(Signed(l, b), w) ELSE l
Amd64InsertLane(v, i, u, b) ==
  (v & Complement(AllOnes(b) * 2^(i * b), 2 * b)) + Wrap(u, b) * 2^(i * b)
Amd64Splat(u, b) == Amd64InsertLane(Amd64InsertLane(0, 0, u, b), 1, u, b)

\* lowerWidenLow; lowerWidenHigh rotates the halves with PALIGNR first.
Amd64Widen(v, high, b, signed) ==
  LET src == IF high THEN OfLanes(Lane(v, 1, b), Lane(v, 0, b), b) ELSE v
  IN Wrap(Interpreted(Lane(src, 0, b), b, signed), 2 * b)

\* lowerWideningPairwiseDotProductS: PMADDWD
Amd64Dot(v, u, b) ==
  Wrap(Signed(Lo(v, b), b) * Signed(Lo(u, b), b) + Signed(Hi(v, b), b) * Signed(Hi(u, b), b), 2 * b)

\* lowerFabsFneg: the sign bit masked off, or flipped; lowerVFabs: a mask of
\* ones shifted right by one
Amd64Fabs(f) == WithSign(f, FALSE)
Amd64Fneg(f) == WithSign(f, ~f.neg)
Amd64VFabs(f) == WithSign(f, f.neg /\ Bit(AllOnes(W32) \div 2, W32 - 1) = 1)
\* lowerFcopysign: the sign of one, the rest of the other, ORed
Amd64Fcopysign(f, g) == WithSign(f, FALSE \/ g.neg)

\* lowerExtend: MOVSX and MOVZX; a result of 32 bits clears the upper half.
Amd64Extend(x, from, to, signed) ==
  LET v == x % 2^from IN IF signed THEN Wrap(Signed(v, from), to) ELSE v

\* lowerAtomicRmw: XADD of the value, negated as 64 bits for a subtraction; a
\* compare-exchange loop for the logical ones; XCHG.
Amd64Rmw(op, old, val, b) ==
  LET neg == Wrap(0 - val, W64)
      cleared == val % 2^b
  IN CASE op = "add" -> Wrap(old + Lo(val, b), b)
       [] op = "sub" -> Wrap(old + Lo(neg, b), b)
       [] op = "and" -> cleared & old [] op = "or" -> cleared | old
       [] op = "xor" -> cleared ^^ old [] op = "xchg" -> Lo(val, b)
\* lowerAtomicCas: LOCK CMPXCHG compares the low bytes of the accumulator.
Amd64Cas(old, exp, rep, b) == IF Lo(exp, b) = old THEN Lo(rep, b) ELSE old

\* lowerSelect: TEST of the condition with itself, then CMOVNZ, or for vectors
\* a jump over a move
Amd64Select(c, x, y) == IF (c & c) = 0 THEN y ELSE x

\* lowerRound: the immediates of ROUNDSS; a zero keeps its sign.
RoundingImmediate(mode) ==
  CASE mode = "nearest" -> 0 [] mode = "floor" -> 1 [] mode = "ceil" -> 2 [] mode = "ftrunc" -> 3
Amd64Round(f, mode) ==
  LET imm == RoundingImmediate(mode)
  IN CASE imm = 0 -> RefNearest(f) [] imm = 1 -> RefRounded(f, "floor")
       [] imm = 2 -> RefRounded(f, "ceil") [] imm = 3 -> RefRounded(f, "ftrunc")

---------------------------------------------------------------------------
\* arm64: machine instructions

\* SDIV, UDIV: by zero gives zero, and the overflowing quotient wraps.
ArmDiv(x, y, w, signed) ==
  IF y = 0 THEN 0 ELSE Wrap(Quot(Interpreted(x, w, signed), Interpreted(y, w, signed)), w)

\* SUBS x, y: N, Z, C (no borrow), V
SubsFlags(x, y, w) ==
  [n |-> Signed(Wrap(x - y, w), w) < 0, z |-> x = y, c |-> x >= y,
   v |-> Signed(x, w) - Signed(y, w) \notin MinInt(w, TRUE) .. MaxInt(w, TRUE)]

\* FCMP: less N, equal Z and C, greater C, unordered C and V
FcmpFlags(f, g) ==
  LET un == IsNaN(f) \/ IsNaN(g)
  IN [n |-> ~un /\ Less(f, g), z |-> Equal(f, g), c |-> un \/ ~Less(f, g), v |-> un]

ArmHolds(cond, fl) ==
  CASE cond = "eq" -> fl.z              [] cond = "ne" -> ~fl.z
    [] cond = "hs" -> fl.c              [] cond = "lo" -> ~fl.c
    [] cond = "hi" -> fl.c /\ ~fl.z     [] cond = "ls" -> ~fl.c \/ fl.z
    [] cond = "ge" -> fl.n = fl.v       [] cond = "lt" -> fl.n # fl.v
    [] cond = "gt" -> ~fl.z /\ fl.n = fl.v
    [] cond = "le" -> fl.z \/ fl.n # fl.v
    [] cond = "mi" -> fl.n

\* FCVTZS, FCVTZU: saturate, NaN to zero; IOC in the FPSR when not in range.
Fcvtz(f, w, signed) == RefTrunc(f, w, signed, TRUE).val
Invalid(f, w, signed) == RefTrunc(f, w, signed, FALSE).err # "none"

\* SSHL, USHL: by a signed amount, negative to the right; a large one clears.
VecShl(x, k, w, signed) ==
  IF k >= 0 THEN IF k >= w THEN 0 ELSE Wrap(x * 2^k, w)
  ELSE IF signed THEN Wrap(Signed(x, w) \div 2^(Min({-k, w - 1})), w)
       ELSE IF -k >= w THEN 0 ELSE x \div 2^(-k)

Reversed(x, w) == OfBits([i \in 0 .. w - 1 |-> Bit(x, w - 1 - i)], w)

---------------------------------------------------------------------------
\* Integers

\* lowerIDiv: the quotient first, then the checks.  ADDS rm, #1 tells whether
\* the divisor is -1; only then CCMP compares the dividend with 1, and that
\* subtraction overflows for the least integer alone.
Arm64Div(x, y, w, signed) ==
  LET minusOne == Wrap(y + 1, w) = 0
      overflow == signed /\ minusOne /\ SubsFlags(x, 1, w).v
  IN CASE y = 0 -> Raises("IntegerDivideByZero")
       [] y # 0 /\ overflow -> Raises("IntegerOverflow")
       [] OTHER -> Yields(ArmDiv(x, y, w, signed))

\* lowerIRem: MSUB computes rn - (rn / rm) * rm
Arm64Rem(x, y, w, signed) ==
  IF y = 0 THEN Raises("IntegerDivideByZero")
  ELSE Yields(Wrap(x - ArmDiv(x, y, w, signed) * y, w))

\* lowerCtz: RBIT, then CLZ
Arm64Ctz(x, w) == RefClz(Reversed(x, w), w)

\* lowerPopcnt counts the 64-bit register; the upper half of an i32 is zero.
Arm64Popcnt(x, w) == RefPopcnt(x, W64)

\* lowerRotlImpl: a right rotation by the negated count
Arm64Rotr(x, y, w) == LET k == y % w IN Wrap((x \div 2^k) + x * 2^(w - k), w)
Arm64Rotl(x, y, w) == Arm64Rotr(x, Wrap(0 - y, w), w)

\* lowerShifts: the register forms take the count modulo the width.
Arm64Shift(op, x, y, w) ==
  LET k == y % w
  IN CASE op = "shl" -> VecShl(x, k, w, FALSE)
       [] op = "shr_u" -> VecShl(x, -k, w, FALSE)
       [] op = "shr_s" -> VecShl(x, -k, w, TRUE)

\* condFlagFromSSAIntegerCmpCond
CondFlagFromInt(c, signed) ==
  CASE c = "eq" -> "eq" [] c = "ne" -> "ne"
    [] c = "lt" -> IF signed THEN "lt" ELSE "lo"
    [] c = "ge" -> IF signed THEN "ge" ELSE "hs"
    [] c = "gt" -> IF signed THEN "gt" ELSE "hi"
    [] c = "le" -> IF signed THEN "le" ELSE "ls"

\* lowerIcmp
Arm64Icmp(x, y, c, signed, w) == ArmHolds(CondFlagFromInt(c, signed), SubsFlags(x, y, w))

\* condFlagFromSSAFloatCmpCond: mi and ls, as lt and le hold when unordered
CondFlagFromFloat(c) ==
  CASE c = "lt" -> "mi" [] c = "le" -> "ls" [] OTHER -> c

\* lowerFcmp
Arm64Fcmp(f, g, c) == ArmHolds(CondFlagFromFloat(c), FcmpFlags(f, g))

---------------------------------------------------------------------------
\* Floats

\* lowerFpuToInt: the flag tells that the conversion was invalid, and a
\* comparison of the source with itself tells a NaN from an overflow.
Arm64FpuToInt(f, w, signed, sat) ==
  CASE sat \/ ~Invalid(f, w, signed) -> Yields(Fcvtz(f, w, signed))
    [] FcmpFlags(f, f).v -> Raises("InvalidConversionToInteger")
    [] OTHER -> Raises("IntegerOverflow")

---------------------------------------------------------------------------
\* Vectors

\* lowerVShift: the masked count, negated for a right shift
Arm64VShift(op, x, y, w) ==
  LET k == y % w
  IN VecShl(x, IF op = "shl" THEN k ELSE -k, w, op # "shr_u")

\* lowerVIcmp: cmge, cmgt, cmhs and cmhi, with swapped operands for le and lt
Arm64VIcmp(x, y, c, signed, w) ==
  LET a == IF c \in {"le", "lt"} THEN y ELSE x
      b == IF c \in {"le", "lt"} THEN x ELSE y
      i(v) == Interpreted(v, w, signed)
      holds == CASE c = "eq" -> a = b [] c = "ne" -> ~(a = b)
                 [] c \in {"ge", "le"} -> i(a) >= i(b)
                 [] c \in {"gt", "lt"} -> i(a) > i(b)
  IN IF holds THEN 2^w - 1 ELSE 0

\* lowerVIMul of 64-bit lanes: the halves of rm are swapped, multiplied with
\* those of rn and added pairwise; SHLL and UMLAL put the sum on top of the
\* product of the low halves.
Arm64VIMul(x, y) ==
  LET lo(v) == v % 2^W32
      hi(v) == v \div 2^W32
      cross == Wrap(Wrap(hi(y) * lo(x), W32) + Wrap(lo(y) * hi(x), W32), W32)
  IN Wrap(cross * 2^W32 + lo(x) * lo(y), W64)

\* lowerVfpuToInt: from f64 lanes to 64-bit integers, then narrowed
Arm64VfpuToInt(f, src64, signed) ==
  IF ~src64 THEN Fcvtz(f, W32, signed)
  ELSE LET r == Interpreted(Fcvtz(f, W64, signed), W64, signed)
       IN Wrap(Max({MinInt(W32, signed), Min({MaxInt(W32, signed), r})}), W32)

\* lowerVcheckTrue.  64-bit lanes: CMEQ with zero, the masks added, and FCMP
\* of the sum with itself, equal unless the sum's bits are those of a NaN,
\* which -1 and -2 are.  Otherwise the least lane, or the greatest, is tested.
NanBits(v, w) == v % 2^(w - 1) > 2^(w - 1) - 2^(w \div 2)
Arm64VallTrue(v, b, doubles) ==
  LET cmeq(i) == IF Lane(v, i, b) = 0 THEN 2^b - 1 ELSE 0
  IN IF doubles THEN ~NanBits(Wrap(cmeq(0) + cmeq(1), b), b)
     ELSE Min({Lane(v, 0, b), Lane(v, 1, b)}) # 0
Arm64VanyTrue(v, b) == Max({Lane(v, 0, b), Lane(v, 1, b)}) # 0

\* lowerVhighBits: SSHR makes a mask of each sign, AND keeps the lane's bit and
\* ADDV sums; the 64-bit lanes are shifted down to one bit each.
Arm64VhighBits(v, b, doubles) ==
  LET mask(i) == IF Signed(Lane(v, i, b), b) < 0 THEN 2^b - 1 ELSE 0
  IN IF doubles THEN (Lane(v, 0, b) \div 2^(b - 1)) + 2 * (Lane(v, 1, b) \div 2^(b - 1))
     ELSE (mask(0) & 1) + (mask(1) & 2)

\* lowerShuffle: TBL over two registers
Arm64Shuffle(v, u, l, b) == IF l < 2 THEN Lane(v, l, b) ELSE Lane(u, l - 2, b)

\* lowerVFcmp: FCMEQ, FCMGE and FCMGT are false when unordered.
Arm64VFcmp(f, g, c) ==
  LET fcmgt(a, b) == ~IsNaN(a) /\ ~IsNaN(b) /\ Less(b, a)
      fcmge(a, b) == ~IsNaN(a) /\ ~IsNaN(b) /\ ~Less(a, b)
      flag == CondFlagFromFloat(c)
  IN CASE flag = "eq" -> Equal(f, g) [] flag = "ne" -> ~Equal(f, g)
       [] flag = "ge" -> fcmge(f, g) [] flag = "gt" -> fcmgt(f, g)
       [] flag = "mi" -> fcmgt(g, f) [] flag = "ls" -> fcmge(g, f)

\* lowerVMinMaxPseudo: FCMGT makes the mask, BSL takes rm where it is set.
Arm64PminPmax(f, g, isMin) ==
  LET fcmgt(a, b) == ~IsNaN(a) /\ ~IsNaN(b) /\ Less(b, a)
      mask == IF isMin THEN fcmgt(f, g) ELSE fcmgt(g, f)
  IN IF mask THEN g ELSE f

\* lowerFcopysignImpl: BIT inserts the sign bit of rm.
Arm64Fcopysign(f, g) == WithSign(f, g.neg)

\* lowerSelectVec: CSETM of the condition, duplicated, and BSL
Arm64SelectVec(c, x, y, w) ==
  LET m == IF c # 0 THEN 2^w - 1 ELSE 0 IN (m & x) | (Complement(m, w) & y)

\* lowerExtend: an unsigned extension of a 32-bit result is a 64-bit move.
Arm64Extend(x, from, to, signed) ==
  IF from = W32 /\ ~signed /\ x < 2^W32 THEN x
  ELSE Wrap(Interpreted(x % 2^from, from, signed), to)

\* lowerAtomicRmw, lowerAtomicRmwImpl: subtraction adds the negation, and AND
\* clears the bits of the complement.
Arm64Rmw(op, old, val, b) ==
  LET neg == Wrap(0 - val, W64)
      flipped == Complement(val, W64)
  IN CASE op = "add" -> Wrap(old + val, b) [] op = "sub" -> Wrap(old + neg, b)
       [] op = "and" -> old & Complement(flipped % 2^b, b)
       [] op = "or" -> old | (val % 2^b) [] op = "xor" -> old ^^ (val % 2^b)
       [] op = "xchg" -> val % 2^b
\* lowerAtomicCas
Arm64Cas(old, exp, rep, b) == IF old = exp % 2^b THEN rep % 2^b ELSE old

=============================================================================
