------------------------- MODULE InterpreterNumeric -------------------------
(***************************************************************************)
(* The numeric operations of the interpreter's main loop and the float     *)
(* helpers it calls (internal/moremath), for the operations whose edge     *)
(* cases the loop decides itself.  Shifts, rotations and bit counts are    *)
(* Go's operators and math/bits, which compute the reference.              *)
(***************************************************************************)
EXTENDS Numbers

\* operationKindDiv.  Go's own quotient of the least integer by -1 would wrap.
InterpDiv(x, y, w, signed) ==
  LET n == Signed(x, w)
      d == Signed(y, w)
  IN CASE y = 0 -> Raises("IntegerDivideByZero")
       [] signed /\ y # 0 /\ n = MinInt(w, TRUE) /\ d = -1 -> Raises("IntegerOverflow")
       [] OTHER -> Yields(Wrap(IF signed THEN Quot(n, d) ELSE x \div y, w))

\* operationKindRem: Go's remainder of the least integer by -1 is zero.
InterpRem(x, y, w, signed) ==
  IF y = 0 THEN Raises("IntegerDivideByZero")
  ELSE Yields(Wrap(IF signed THEN Rem(Signed(x, w), Signed(y, w)) ELSE x % y, w))

\* RotateLeft by the count modulo the width; a right rotation negates it.
InterpRotl(x, y, w) ==
  LET k == y % w IN Wrap(x * 2^k + (x \div 2^(w - k)), w)
InterpRotr(x, y, w) ==
  LET k == (-y) % w IN Wrap(x * 2^k + (x \div 2^(w - k)), w)

\* WasmCompatMin64, WasmCompatMin32
WasmCompatMin(f, g) ==
  CASE IsNaN(f) \/ IsNaN(g) -> NaN
    [] f = Inf(TRUE) \/ g = Inf(TRUE) -> Inf(TRUE)
    [] IsZero(f) /\ IsZero(g) -> IF f.neg THEN f ELSE g
    [] OTHER -> IF Less(f, g) THEN f ELSE g

\* WasmCompatMax64, WasmCompatMax32
WasmCompatMax(f, g) ==
  CASE IsNaN(f) \/ IsNaN(g) -> NaN
    [] f = Inf(FALSE) \/ g = Inf(FALSE) -> Inf(FALSE)
    [] IsZero(f) /\ IsZero(g) -> IF f.neg THEN g ELSE f
    [] OTHER -> IF Less(g, f) THEN f ELSE g

\* WasmCompatNearestF32, WasmCompatNearestF64: the nearer of floor and
\* ceiling, on a tie the ceiling if it is even.  The ceiling of a negative
\* fraction is -0.  An infinity is its own floor.
WasmCompatNearest(f) ==
  IF f.kind # "fin" \/ IsZero(f) THEN f
  ELSE LET floor == Value(f) \div Unit
           ceil == IF Value(f) % Unit = 0 THEN floor ELSE floor + 1
           toCeil == Abs(Value(f) - ceil * Unit)
           toFloor == Abs(Value(f) - floor * Unit)
           takeCeil == toCeil < toFloor \/ (toCeil = toFloor /\ ceil % 2 = 0)
       IN IF takeCeil THEN Finite(f.neg, Abs(ceil) * Unit) ELSE OfInt(floor)

\* The bounds operationKindITruncFromF compares the truncated float64 with.
\* MaxInt64 and MaxUint64 round up as float64 constants, hence >= for them.
TooLarge(f, w, signed) ==
  LET max == Round(OfInt(MaxInt(w, signed)), P64)
  IN IF w = W64 THEN ~Less(f, max) ELSE Less(max, f)
TooSmall(f, w, signed) == Less(f, Round(OfInt(MinInt(w, signed)), P64))

\* math.Trunc keeps infinities.
GoTrunc(f) == IF f.kind = "fin" THEN Finite(f.neg, (f.mag \div Unit) * Unit) ELSE f

\* operationKindITruncFromF, the trapping and the saturating form
ITruncFromF(f, w, signed, sat) ==
  LET v == GoTrunc(f)
  IN CASE IsNaN(v) -> IF sat THEN Yields(0) ELSE Raises("InvalidConversionToInteger")
       [] ~IsNaN(v) /\ (TooSmall(v, w, signed) \/ TooLarge(v, w, signed)) ->
            IF ~sat THEN Raises("IntegerOverflow")
            ELSE Yields(Wrap(IF Less(v, OfInt(0)) THEN MinInt(w, signed)
                             ELSE MaxInt(w, signed), w))
       [] OTHER -> Yields(Wrap(Truncated(v), w))

\* operationKindFConvertFromI: one Go conversion, one rounding
FConvertFromI(x, w, signed, p) == Round(OfInt(Interpreted(x, w, signed)), p)

\* operationKindV128ITruncSatFromF: every lane is compared as a float64.
V128ITruncSat(f, signed) ==
  LET v == GoTrunc(f)
      lo == OfInt(MinInt(W32, signed))
      hi == OfInt(MaxInt(W32, signed))
  IN IF IsNaN(v) THEN 0
     ELSE Wrap(Truncated(IF Less(v, lo) THEN lo ELSE IF Less(hi, v) THEN hi ELSE v), W32)

\* operationKindV128Q15mulrSatS on one lane of w bits
Q15mulrSat(x, y, w) ==
  LET calc == (Signed(x, w) * Signed(y, w) + 2^(w - 2)) \div 2^(w - 1)
  IN Wrap(IF calc < MinInt(w, TRUE) THEN MinInt(w, TRUE)
          ELSE IF calc > MaxInt(w, TRUE) THEN MaxInt(w, TRUE) ELSE calc, w)

\* operationKindV128ExtAddPairwise: two lanes of b bits make one of 2b bits.
ExtAddPairwise(lo, hi, b, signed) ==
  Wrap(Interpreted(lo, b, signed) + Interpreted(hi, b, signed), 2 * b)

\* operationKindV128Narrow: a signed lane of 2b bits saturates to b bits.
NarrowLane(x, b, signed) ==
  LET s == Signed(x, 2 * b)
  IN Wrap(IF s > MaxInt(b, signed) THEN MaxInt(b, signed)
          ELSE IF s < MinInt(b, signed) THEN MinInt(b, signed) ELSE s, b)

\* i8Abs, i16Abs, i32Abs and the 64-bit case of operationKindV128Abs
AbsLane(x, w) == IF Signed(x, w) < 0 THEN Wrap(-x, w) ELSE x

\* The access check of loads and stores: popMemoryOffset, then hasSize; an
\* atomic access of more than a byte is first checked for alignment.
InterpAccess(base, offset, size, len, atomic) ==
  LET ea == base + offset
  IN CASE ea > MaxInt(W32, FALSE) -> "OutOfBoundsMemoryAccess"
       [] ea <= MaxInt(W32, FALSE) /\ atomic /\ ea % size # 0 -> "UnalignedAtomic"
       [] ea <= MaxInt(W32, FALSE) /\ (~atomic \/ ea % size = 0) /\ ea + size > len ->
            "OutOfBoundsMemoryAccess"
       [] OTHER -> "none"

---------------------------------------------------------------------------
\* Lanes

\* operationKindV128AddSat, operationKindV128SubSat: computed in 64 bits
Saturated(n, w, signed) ==
  Wrap(IF n < MinInt(w, signed) THEN MinInt(w, signed)
       ELSE IF n > MaxInt(w, signed) THEN MaxInt(w, signed) ELSE n, w)
AddSatLane(x, y, w, signed) ==
  Saturated(Interpreted(x, w, signed) + Interpreted(y, w, signed), w, signed)
SubSatLane(x, y, w, signed) ==
  Saturated(Interpreted(x, w, signed) - Interpreted(y, w, signed), w, signed)

\* i8MinS .. i32MinU, i8MaxS .. i32MaxU, i8RoundingAverage, i16RoundingAverage
MinLane(x, y, w, signed) ==
  IF Interpreted(x, w, signed) < Interpreted(y, w, signed) THEN x ELSE y
MaxLane(x, y, w, signed) ==
  IF Interpreted(x, w, signed) > Interpreted(y, w, signed) THEN x ELSE y
RoundingAverage(x, y, w) == Wrap((x + y + 1) \div 2, w)

\* flt32, flt64, and the pseudo-minimum and -maximum
Flt(f, g) ==
  CASE IsNaN(f) \/ IsNaN(g) -> FALSE
    [] Equal(f, g) -> FALSE
    [] f = Inf(FALSE) -> FALSE
    [] f = Inf(TRUE) -> TRUE
    [] g = Inf(FALSE) -> TRUE
    [] g = Inf(TRUE) -> FALSE
    [] OTHER -> Less(f, g)
PminLane(f, g) == IF Flt(g, f) THEN g ELSE f
PmaxLane(f, g) == IF Flt(f, g) THEN g ELSE f

\* operationKindV128Shl, operationKindV128Shr
ShlLane(x, k, w) == Wrap(x * 2^(k % w), w)
ShrLane(x, k, w, signed) == Wrap(Interpreted(x, w, signed) \div 2^(k % w), w)

\* operationKindV128Cmp: the comparisons of the lanes, then the masks
CmpLane(x, y, c, signed, w) ==
  LET a == Interpreted(x, w, signed)
      b == Interpreted(y, w, signed)
  IN CASE c = "eq" -> x = y [] c = "ne" -> x # y
       [] c = "lt" -> a < b [] c = "gt" -> a > b
       [] c = "le" -> a <= b [] c = "ge" -> a >= b
CmpFloatLane(f, g, c) ==
  LET ordered == ~IsNaN(f) /\ ~IsNaN(g)
  IN CASE c = "eq" -> Equal(f, g) [] c = "ne" -> ~Equal(f, g)
       [] c = "lt" -> ordered /\ Less(f, g) [] c = "gt" -> ordered /\ Less(g, f)
       [] c = "le" -> ordered /\ ~Less(g, f) [] c = "ge" -> ordered /\ ~Less(f, g)
CmpMask(res, w) == IF res THEN 2^w - 1 ELSE 0

\* operationKindV128ReplaceLane, ExtractLane, Splat and Shuffle
ReplaceLane(v, i, u, b) ==
  IF i = 0 THEN OfLanes(u % 2^b, Lane(v, 1, b), b) ELSE OfLanes(Lane(v, 0, b), u % 2^b, b)
ExtractLane(v, i, b, signed, w) ==
  LET l == Lane(v, i, b) IN IF signed THEN Wrap(Signed(l, b), w) ELSE l
Splat(u, b) == OfLanes(u % 2^b, u % 2^b, b)
ShuffleLane(v, u, l, b) == IF l < 2 THEN Lane(v, l, b) ELSE Lane(u, l - 2, b)

\* operationKindV128AnyTrue, AllTrue, BitMask
AnyTrue(v) == v # 0
AllTrue(v, b) == Lane(v, 0, b) # 0 /\ Lane(v, 1, b) # 0
BitMask(v, b) ==
  (IF Signed(Lane(v, 0, b), b) < 0 THEN 1 ELSE 0)
  + (IF Signed(Lane(v, 1, b), b) < 0 THEN 2 ELSE 0)

\* operationKindV128Bitselect
Bitselect(x1, x2, c, w) == (x1 & c) | (x2 & Complement(c, w))

\* operationKindV128Extend, operationKindV128ExtMul: the lanes of the chosen
\* half, one lane of it here
ExtendLane(v, i, b, signed) == Wrap(Interpreted(Lane(v, i, b), b, signed), 2 * b)
ExtMulLane(v, u, i, b, signed) ==
  Wrap(Interpreted(Lane(v, i, b), b, signed) * Interpreted(Lane(u, i, b), b, signed), 2 * b)

\* operationKindV128Dot, v128Dot: two products of signed lanes, added
DotLane(v, u, b) ==
  Wrap(Signed(Lane(v, 0, b), b) * Signed(Lane(u, 0, b), b)
       + Signed(Lane(v, 1, b), b) * Signed(Lane(u, 1, b), b), 2 * b)

---------------------------------------------------------------------------
\* Floats with a sign, and extensions

\* operationKindAbs, Neg, Copysign: the sign bit alone
InterpAbs(f) == WithSign(f, FALSE)
InterpNeg(f) == WithSign(f, ~f.neg)
InterpCopysign(f, g) == WithSign(f, g.neg)

\* operationKindCeil, Floor, Trunc: Go's functions keep the zero's sign.
InterpRounded(f, mode) ==
  LET n == Value(f) \div Unit
      exact == Value(f) % Unit = 0
      up == CASE mode = "ceil" -> ~exact [] mode = "floor" -> FALSE
              [] mode = "ftrunc" -> ~exact /\ f.neg
  IN IF f.kind # "fin" THEN f ELSE Finite(f.neg, Abs(IF up THEN n + 1 ELSE n) * Unit)

\* operationKindExtend, operationKindSignExtend..From..
InterpExtend(x, from, to, signed) ==
  Wrap(Interpreted(x % 2^from, from, signed), to)

---------------------------------------------------------------------------
\* Atomic memory operations on a cell of b bits, the registers being wider

\* operationKindAtomicRMW, RMW8 and RMW16: the content, and what is pushed
AtomicRMW(op, old, val, b) ==
  LET arg == val % 2^b
  IN CASE op = "add" -> Wrap(old + arg, b) [] op = "sub" -> Wrap(old - arg, b)
       [] op = "and" -> old & arg [] op = "or" -> old | arg
       [] op = "xor" -> old ^^ arg [] op = "xchg" -> arg

\* operationKindAtomicRMWCmpxchg, RMW8Cmpxchg, RMW16Cmpxchg: the expected
\* value is cut to the cell first.
AtomicCmpxchg(old, exp, rep, b) == IF old = exp % 2^b THEN rep % 2^b ELSE old

=============================================================================
