------------------------------ MODULE Numbers -------------------------------
(***************************************************************************)
(* The numbers the engines compute with, at widths small enough to         *)
(* enumerate, and what the WebAssembly specification says of the           *)
(* operations on them (the reference the engines are compared with).       *)
(*                                                                         *)
(* An integer is its bit pattern, a natural below 2^w.  A float is         *)
(* [kind, neg, mag]: mag counts quarters, so that fractions either side    *)
(* of an integer exist; a float type is given by its precision alone,      *)
(* since no operation below leaves the exponent range.                     *)
(***************************************************************************)
EXTENDS Integers, FiniteSets, FiniteSetsExt, Bitwise

CONSTANTS
  W32, W64,   \* the bits of "i32" and of "i64"
  P32, P64    \* the bits of precision of "f32" and of "f64"

\* The order of the four real sizes (24 < 31, 32 < 53 < 62), which decides which
\* conversions are exact; BSR's XOR trick needs widths that are powers of two.
ASSUME WidthAssumption ==
  /\ {W32, W64, P32, P64} \subseteq Nat \ {0}
  /\ P32 < W32 - 1 /\ W32 < P64 /\ P64 < W64 - 2
  /\ W32 \in {2, 4, 8} /\ W64 = 2 * W32

Width(t) == IF t = "i32" THEN W32 ELSE W64
Precision(t) == IF t = "f32" THEN P32 ELSE P64

---------------------------------------------------------------------------
\* Integers

Ints(w) == 0 .. 2^w - 1
Wrap(n, w) == n % 2^w
Signed(x, w) == IF x >= 2^(w - 1) THEN x - 2^w ELSE x
Interpreted(x, w, signed) == IF signed THEN Signed(x, w) ELSE x
MinInt(w, signed) == IF signed THEN -(2^(w - 1)) ELSE 0
MaxInt(w, signed) == IF signed THEN 2^(w - 1) - 1 ELSE 2^w - 1

Bit(x, i) == (x \div 2^i) % 2
Complement(x, w) == 2^w - 1 - x

\* Division rounds towards zero in WebAssembly, in Go and in both ISAs.
Abs(n) == IF n < 0 THEN -n ELSE n
Quot(a, b) == LET q == Abs(a) \div Abs(b) IN IF (a < 0) = (b < 0) THEN q ELSE -q
Rem(a, b) == a - b * Quot(a, b)

---------------------------------------------------------------------------
\* Floats

Unit == 4                       \* quarters to the integer
NaN == [kind |-> "nan", neg |-> FALSE, mag |-> 0]
Inf(neg) == [kind |-> "inf", neg |-> neg, mag |-> 0]
Finite(neg, mag) == [kind |-> "fin", neg |-> neg, mag |-> mag]
Value(f) == IF f.neg THEN -f.mag ELSE f.mag
OfQuarters(n) == Finite(n < 0, Abs(n))
OfInt(n) == OfQuarters(n * Unit)

IsNaN(f) == f.kind = "nan"
IsZero(f) == f.kind = "fin" /\ f.mag = 0

\* Order, once NaN is excluded; -0 and 0 are equal.
Less(f, g) ==
  CASE f.kind = "inf" -> f.neg /\ ~(g.kind = "inf" /\ g.neg)
    [] g.kind = "inf" -> ~g.neg
    [] OTHER -> Value(f) < Value(g)
Equal(f, g) == ~IsNaN(f) /\ ~IsNaN(g) /\ ~Less(f, g) /\ ~Less(g, f)

\* The nearest float of precision p, ties to even.
RoundMag(m, p) ==
  LET e == Min({k \in 0 .. 2 * W64 : m < 2^(p + k)})
      q == m \div 2^e
      r == m % 2^e
      up == 2 * r > 2^e \/ (2 * r = 2^e /\ q % 2 = 1)
  IN (IF up THEN q + 1 ELSE q) * 2^e
Round(f, p) == IF f.kind = "fin" THEN Finite(f.neg, RoundMag(f.mag, p)) ELSE f

\* IEEE 754 addition and subtraction: one rounding, and an exact zero is
\* positive unless both terms are negative zeros.
FAdd(f, g, p) ==
  CASE IsNaN(f) \/ IsNaN(g) -> NaN
    [] f.kind = "inf" -> IF g.kind = "inf" /\ g.neg # f.neg THEN NaN ELSE f
    [] g.kind = "inf" -> g
    [] Value(f) + Value(g) = 0 -> Finite(f.neg /\ g.neg, 0)
    [] OTHER -> Round(OfQuarters(Value(f) + Value(g)), p)
Negated(f) == [f EXCEPT !.neg = ~f.neg]
FSub(f, g, p) == FAdd(f, Negated(g), p)

\* Truncation towards zero of a finite float to an integer.
Truncated(f) == Quot(Value(f), Unit)

\* Every float of precision p below 2^(W64 + 1), the infinities and a NaN.
Floats(p) ==
  {NaN} \cup {Inf(neg) : neg \in BOOLEAN} \cup
  {Finite(neg, mag) : neg \in BOOLEAN,
                      mag \in {m * 2^e : m \in 0 .. 2^p - 1, e \in 0 .. W64 + 3 - p}}

---------------------------------------------------------------------------
\* What an instruction yields: a number, or the runtime error it raises.

Yields(v) == [err |-> "none", val |-> v]
YieldsFloat(f) == [err |-> "none", flt |-> f]
Raises(e) == [err |-> e]

---------------------------------------------------------------------------
\* The WebAssembly specification's operations.

RefDiv(x, y, w, signed) ==
  LET a == Interpreted(x, w, signed)
      b == Interpreted(y, w, signed)
  IN CASE y = 0 -> Raises("IntegerDivideByZero")
       [] y # 0 /\ Quot(a, b) > MaxInt(w, signed) -> Raises("IntegerOverflow")
       [] OTHER -> Yields(Wrap(Quot(a, b), w))

RefRem(x, y, w, signed) ==
  IF y = 0 THEN Raises("IntegerDivideByZero")
  ELSE Yields(Wrap(Rem(Interpreted(x, w, signed), Interpreted(y, w, signed)), w))

RefClz(x, w) == Cardinality({i \in 0 .. w - 1 : \A j \in i .. w - 1 : Bit(x, j) = 0})
RefCtz(x, w) == Cardinality({i \in 0 .. w - 1 : \A j \in 0 .. i : Bit(x, j) = 0})
RefPopcnt(x, w) == Cardinality({i \in 0 .. w - 1 : Bit(x, i) = 1})

OfBits(b, w) == MapThenSumSet(LAMBDA i : b[i] * 2^i, 0 .. w - 1)
RefShl(x, y, w) == OfBits([i \in 0 .. w - 1 |-> IF i < (y % w) THEN 0 ELSE Bit(x, i - (y % w))], w)
RefShr(x, y, w, signed) ==
  OfBits([i \in 0 .. w - 1 |-> IF i + (y % w) < w THEN Bit(x, i + (y % w))
                               ELSE IF signed THEN Bit(x, w - 1) ELSE 0], w)
RefRotl(x, y, w) == OfBits([i \in 0 .. w - 1 |-> Bit(x, ((i - y) % w))], w)
RefRotr(x, y, w) == OfBits([i \in 0 .. w - 1 |-> Bit(x, (i + y) % w)], w)

RefCompare(x, y, c, signed, w) ==
  LET a == Interpreted(x, w, signed)
      b == Interpreted(y, w, signed)
  IN CASE c = "eq" -> a = b [] c = "ne" -> a # b
       [] c = "lt" -> a < b [] c = "le" -> a <= b
       [] c = "gt" -> a > b [] c = "ge" -> a >= b

RefFloatCompare(f, g, c) ==
  IF IsNaN(f) \/ IsNaN(g) THEN c = "ne"
  ELSE CASE c = "eq" -> Equal(f, g) [] c = "ne" -> ~Equal(f, g)
         [] c = "lt" -> Less(f, g)  [] c = "le" -> ~Less(g, f)
         [] c = "gt" -> Less(g, f)  [] c = "ge" -> ~Less(f, g)

\* Zeros are ordered by their sign: min prefers -0 and max prefers 0.
RefMin(f, g) ==
  CASE IsNaN(f) \/ IsNaN(g) -> NaN
    [] IsZero(f) /\ IsZero(g) -> Finite(f.neg \/ g.neg, 0)
    [] OTHER -> IF Less(f, g) THEN f ELSE g
RefMax(f, g) ==
  CASE IsNaN(f) \/ IsNaN(g) -> NaN
    [] IsZero(f) /\ IsZero(g) -> Finite(f.neg /\ g.neg, 0)
    [] OTHER -> IF Less(f, g) THEN g ELSE f

RefNearest(f) ==
  IF f.kind # "fin" THEN f
  ELSE LET q == f.mag \div Unit
           r == f.mag % Unit
           up == 2 * r > Unit \/ (2 * r = Unit /\ q % 2 = 1)
       IN Finite(f.neg, (IF up THEN q + 1 ELSE q) * Unit)

RefTrunc(f, w, signed, sat) ==
  LET inRange == f.kind = "fin" /\ Truncated(f) \in MinInt(w, signed) .. MaxInt(w, signed)
  IN CASE IsNaN(f) -> IF sat THEN Yields(0) ELSE Raises("InvalidConversionToInteger")
       [] inRange -> Yields(Wrap(Truncated(f), w))
       [] OTHER -> IF ~sat THEN Raises("IntegerOverflow")
                   ELSE Yields(Wrap(IF f.neg THEN MinInt(w, signed) ELSE MaxInt(w, signed), w))

RefConvert(x, w, signed, p) == Round(OfInt(Interpreted(x, w, signed)), p)

\* The nearest integer of w bits.
Clamp(n, w, signed) == Max({MinInt(w, signed), Min({MaxInt(w, signed), n})})

\* Sign operations; a NaN keeps no sign in this model.
WithSign(f, neg) == IF IsNaN(f) THEN NaN ELSE [f EXCEPT !.neg = neg]

\* Rounding to an integer downwards, upwards and towards zero; a zero keeps
\* the sign of what was rounded.
RefRounded(f, mode) ==
  IF f.kind # "fin" THEN f
  ELSE LET whole == (f.mag \div Unit) * Unit
           away == f.mag # whole /\ ((mode = "floor" /\ f.neg) \/ (mode = "ceil" /\ ~f.neg))
       IN Finite(f.neg, IF away THEN whole + Unit ELSE whole)

\* A vector of two lanes of b bits, as a word; lane 0 is the low one.
Lane(v, i, b) == (v \div 2^(i * b)) % 2^b
OfLanes(l0, l1, b) == l1 * 2^b + l0

\* The new content of a memory cell after an atomic read-modify-write
RefRmw(op, old, arg, b) ==
  CASE op = "add" -> Wrap(old + arg, b)      [] op = "sub" -> Wrap(old - arg, b)
    [] op = "and" -> old & Wrap(arg, b)      [] op = "or" -> old | Wrap(arg, b)
    [] op = "xor" -> old ^^ Wrap(arg, b)     [] op = "xchg" -> Wrap(arg, b)

=============================================================================
