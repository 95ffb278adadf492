------------------------------ MODULE Numeric -------------------------------
(***************************************************************************)
(* One instruction on one choice of operands, executed by one engine: the  *)
(* interpreter, the code of the amd64 backend (with and without the ABM    *)
(* extension) or the code of the arm64 backend.  The engines must compute  *)
(* what the specification says, whichever of them runs the program: a      *)
(* trace recorded by one is replayed by another.                           *)
(***************************************************************************)
EXTENDS InterpreterNumeric, BackendNumeric

CONSTANTS
  EdgeInts,      \* the 64-bit operands of two-operand instructions
  PageCounts,    \* the sizes a memory may have, in pages
  PageSize       \* the bytes of a page; 2^W32 bytes are addressable

VARIABLES op, x, y, engine, result

vars == <<op, x, y, engine, result>>

---------------------------------------------------------------------------
\* The instructions and their operands

\* The fields an instruction does not have are left at a default.
Op(name) ==
  [name |-> name, w |-> W32, signed |-> FALSE, cond |-> "eq", p |-> P32, sat |-> FALSE,
   k |-> 0]

Widths == {W32, W64}
Conds == {"eq", "ne", "lt", "le", "gt", "ge"}
IntPairs(w) == IF w = W32 THEN Ints(w) \X Ints(w) ELSE EdgeInts \X EdgeInts
SomeFloats ==
  {NaN, Inf(TRUE), Inf(FALSE)} \cup {Finite(n, m) : n \in BOOLEAN, m \in {0, 1, Unit, 6}}

IntBinary ==
  {[Op(n) EXCEPT !.w = w, !.signed = s] : n \in {"div", "rem"}, w \in Widths, s \in BOOLEAN}
  \cup {[Op(n) EXCEPT !.w = w] : n \in {"shl", "shr_s", "shr_u", "rotl", "rotr"}, w \in Widths}
  \cup {[Op("icmp") EXCEPT !.w = w, !.cond = c, !.signed = s] :
          w \in Widths, c \in Conds, s \in BOOLEAN}
  \cup {[Op("vicmp") EXCEPT !.cond = c, !.signed = s] : c \in Conds, s \in BOOLEAN}
  \cup {[Op("vicmp") EXCEPT !.w = W64, !.cond = c, !.signed = TRUE] : c \in Conds}
  \cup {[Op(n) EXCEPT !.signed = s] : n \in {"extadd8", "extadd16"}, s \in BOOLEAN}
  \cup {Op("q15mulr_sat"), [Op("vimul") EXCEPT !.w = W64], Op("swizzle")}

IntUnary ==
  {[Op(n) EXCEPT !.w = w] : n \in {"clz", "ctz", "popcnt"}, w \in Widths}
  \cup {[Op("convert") EXCEPT !.w = w, !.signed = s, !.p = p] :
          w \in Widths, s \in BOOLEAN, p \in {P32, P64}}
  \cup {[Op("vconvert_u") EXCEPT !.p = p] : p \in {P32, P64}}
  \cup {[Op("viabs") EXCEPT !.w = W64], Op("vipopcnt")}
  \cup {[Op("narrow") EXCEPT !.w = W64, !.signed = s] : s \in BOOLEAN}

\* Lane by lane, or on vectors of two lanes of W32 bits (x and y below 2^W64);
\* k is a lane number, the condition of a select or the mask of a bitselect.
LaneBinary ==
  {[Op(n) EXCEPT !.signed = s] : n \in {"vadd_sat", "vsub_sat", "vmin", "vmax"}, s \in BOOLEAN}
  \cup {Op("vavgr_u")}

VectorOps ==
  {[Op(n) EXCEPT !.w = W64, !.sat = wide] : n \in {"vall_true", "vbitmask"}, wide \in BOOLEAN}
  \cup {[Op("vany_true") EXCEPT !.w = W64], [Op("vdot") EXCEPT !.w = W64]}
  \cup {[Op(n) EXCEPT !.w = W64, !.k = i, !.signed = s] :
          n \in {"vextract", "vextend", "vextmul"}, i \in {0, 1}, s \in BOOLEAN}
  \cup {[Op(n) EXCEPT !.w = W64, !.k = i] : n \in {"vreplace", "vsplat", "select"}, i \in {0, 1}}
  \cup {[Op("vshuffle") EXCEPT !.w = W64, !.k = l] : l \in 0 .. 3}
  \cup {[Op("vbitselect") EXCEPT !.w = W64, !.k = c] : c \in {0, 51, 85, 240, 255}}
  \cup {[Op("extend") EXCEPT !.w = W64, !.signed = s] : s \in BOOLEAN}

\* An atomic instruction on a cell of W32 bits: x is the cell's content, y the
\* operand; a compare-exchange expects y and writes k.
RmwOps == {"add", "sub", "and", "or", "xor", "xchg"}
Atomics ==
  {[Op("rmw") EXCEPT !.cond = r] : r \in RmwOps}
  \cup {[Op("cmpxchg") EXCEPT !.k = r] : r \in {0, 9, 18}}

ByteShifts == {[Op(n) EXCEPT !.w = W64] : n \in {"vshl", "vshr_s", "vshr_u"}}

FloatBinary ==
  {[Op("fcmp") EXCEPT !.cond = c] : c \in Conds}
  \cup {[Op("vfcmp") EXCEPT !.cond = c] : c \in Conds}
  \cup {Op(n) : n \in {"fmin", "fmax", "vfmin", "vfmax", "pmin", "pmax", "copysign"}}

FloatUnary ==
  {[Op("trunc") EXCEPT !.w = w, !.signed = s, !.sat = t, !.p = p] :
     w \in Widths, s \in BOOLEAN, t \in BOOLEAN, p \in {P32, P64}}
  \cup {[Op("vtrunc_sat") EXCEPT !.signed = s, !.p = p] : s \in BOOLEAN, p \in {P32, P64}}
  \cup {[Op(n) EXCEPT !.p = p] :
          n \in {"nearest", "ceil", "floor", "ftrunc", "fabs", "vfabs", "fneg"}, p \in {P32, P64}}

\* A memory access: x is the base address, y the rest.
Accesses ==
  [offset : Ints(W32), size : {1, 2, 4}, len : {n * PageSize : n \in PageCounts},
   atomic : BOOLEAN]

Init ==
  /\ engine = "none"
  /\ result = Yields(0)
  /\ \/ \E o \in IntBinary : \E v \in IntPairs(o.w) : op = o /\ x = v[1] /\ y = v[2]
     \/ \E o \in IntUnary : \E v \in Ints(o.w) : op = o /\ x = v /\ y = 0
     \/ \E o \in ByteShifts : \E v \in Ints(o.w) : \E k \in 0 .. W32 + 1 :
          op = o /\ x = v /\ y = k
     \/ \E o \in LaneBinary : \E v \in IntPairs(W32) : op = o /\ x = v[1] /\ y = v[2]
     \/ \E o \in VectorOps : \E v \in EdgeInts \X EdgeInts : op = o /\ x = v[1] /\ y = v[2]
     \/ \E o \in Atomics : \E c \in Ints(W32), v \in EdgeInts : op = o /\ x = c /\ y = v
     \/ \E o \in FloatBinary : \E f, g \in SomeFloats : op = o /\ x = f /\ y = g
     \/ \E o \in FloatUnary : \E f \in Floats(o.p) : op = o /\ x = f /\ y = 0
     \/ \E b \in Ints(W32) : \E a \in Accesses : op = Op("access") /\ x = b /\ y = a

---------------------------------------------------------------------------
\* The specification's answer

Truth(b) == Yields(IF b THEN 1 ELSE 0)

\* The lanes of a word of two bytes, each shifted by k
LaneShifted(Shift(_, _, _), word, k) ==
  Joined(Shift(Lo(word, W32), k, W32), Shift(Hi(word, W32), k, W32), W32)
ShrLaneS(v, k, w) == ShrLane(v, k, w, TRUE)
ShrLaneU(v, k, w) == ShrLane(v, k, w, FALSE)
RefShrS(v, k, w) == RefShr(v, k, w, TRUE)
RefShrU(v, k, w) == RefShr(v, k, w, FALSE)

Lanes == 4   \* of a vector whose indices "swizzle" reads

\* Old and new content of an atomic instruction's cell
Cell(old, new) == Yields(OfLanes(old, new, W32))

VectorReference(o, a, b) ==
  CASE o.name = "vadd_sat" ->
         Yields(Wrap(Clamp(Interpreted(a, W32, o.signed) + Interpreted(b, W32, o.signed), W32, o.signed), W32))
    [] o.name = "vsub_sat" ->
         Yields(Wrap(Clamp(Interpreted(a, W32, o.signed) - Interpreted(b, W32, o.signed), W32, o.signed), W32))
    [] o.name = "vmin" -> Yields(IF RefCompare(a, b, "le", o.signed, W32) THEN a ELSE b)
    [] o.name = "vmax" -> Yields(IF RefCompare(a, b, "ge", o.signed, W32) THEN a ELSE b)
    [] o.name = "vavgr_u" -> Yields((a + b + 1) \div 2)
    [] o.name = "vall_true" -> Truth(\A i \in {0, 1} : Lane(a, i, W32) # 0)
    [] o.name = "vany_true" -> Truth(\E i \in {0, 1} : Lane(a, i, W32) # 0)
    [] o.name = "vbitmask" -> Yields(Bit(a, W32 - 1) + 2 * Bit(a, W64 - 1))
    [] o.name = "vextract" ->
         Yields(Wrap(Interpreted(Lane(a, o.k, W32), W32, o.signed), W64))
    [] o.name = "vextend" ->
         Yields(Wrap(Interpreted(Lane(a, o.k, W32), W32, o.signed), W64))
    [] o.name = "vextmul" ->
         Yields(Wrap(Interpreted(Lane(a, o.k, W32), W32, o.signed)
                     * Interpreted(Lane(b, o.k, W32), W32, o.signed), W64))
    [] o.name = "vdot" ->
         Yields(Wrap(MapThenSumSet(LAMBDA i : Signed(Lane(a, i, W32), W32)
                                              * Signed(Lane(b, i, W32), W32), {0, 1}), W64))
    [] o.name = "vreplace" ->
         Yields(OfBits([i \in 0 .. W64 - 1 |->
                          IF i \div W32 = o.k THEN Bit(b, i % W32) ELSE Bit(a, i)], W64))
    [] o.name = "vsplat" -> Yields(OfBits([i \in 0 .. W64 - 1 |-> Bit(a, i % W32)], W64))
    [] o.name = "select" -> Yields(IF o.k # 0 THEN a ELSE b)
    [] o.name = "vshuffle" -> Yields(IF o.k < 2 THEN Lane(a, o.k, W32) ELSE Lane(b, o.k - 2, W32))
    [] o.name = "vbitselect" ->
         Yields(OfBits([i \in 0 .. W64 - 1 |->
                          IF Bit(o.k, i) = 1 THEN Bit(a, i) ELSE Bit(b, i)], W64))
    [] o.name = "extend" -> Yields(Wrap(Interpreted(a % 2^W32, W32, o.signed), W64))
    [] o.name = "rmw" -> Cell(a, RefRmw(o.cond, a, b, W32))
    [] o.name = "cmpxchg" -> Cell(a, IF Wrap(b, W32) = a THEN Wrap(o.k, W32) ELSE a)
    [] o.name = "vfcmp" -> Truth(RefFloatCompare(a, b, o.cond))
    [] o.name = "pmin" -> YieldsFloat(IF RefFloatCompare(b, a, "lt") THEN b ELSE a)
    [] o.name = "pmax" -> YieldsFloat(IF RefFloatCompare(a, b, "lt") THEN b ELSE a)
    [] o.name = "copysign" -> YieldsFloat(WithSign(a, b.neg))
    [] o.name \in {"ceil", "floor", "ftrunc"} -> YieldsFloat(RefRounded(a, o.name))
    [] o.name \in {"fabs", "vfabs"} -> YieldsFloat(WithSign(a, FALSE))
    [] o.name = "fneg" -> YieldsFloat(WithSign(a, ~a.neg))

Reference(o, a, b) ==
  CASE o.name = "div" -> RefDiv(a, b, o.w, o.signed)
    [] o.name = "rem" -> RefRem(a, b, o.w, o.signed)
    [] o.name = "shl" -> Yields(RefShl(a, b, o.w))
    [] o.name = "shr_s" -> Yields(RefShr(a, b, o.w, TRUE))
    [] o.name = "shr_u" -> Yields(RefShr(a, b, o.w, FALSE))
    [] o.name = "rotl" -> Yields(RefRotl(a, b, o.w))
    [] o.name = "rotr" -> Yields(RefRotr(a, b, o.w))
    [] o.name = "icmp" -> Truth(RefCompare(a, b, o.cond, o.signed, o.w))
    [] o.name = "vicmp" -> Yields(Mask(RefCompare(a, b, o.cond, o.signed, o.w), o.w))
    [] o.name \in {"extadd8", "extadd16"} -> Yields(ExtAddPairwise(a, b, o.w, o.signed))
    [] o.name = "q15mulr_sat" -> Yields(Q15mulrSat(a, b, o.w))
    [] o.name = "vimul" -> Yields(Wrap(a * b, o.w))
    [] o.name = "swizzle" -> Yields(IF a < Lanes THEN a ELSE Lanes)
    [] o.name = "clz" -> Yields(RefClz(a, o.w))
    [] o.name = "ctz" -> Yields(RefCtz(a, o.w))
    [] o.name \in {"popcnt", "vipopcnt"} -> Yields(RefPopcnt(a, o.w))
    [] o.name = "convert" -> YieldsFloat(RefConvert(a, o.w, o.signed, o.p))
    [] o.name = "vconvert_u" -> YieldsFloat(RefConvert(a, W32, FALSE, o.p))
    [] o.name = "viabs" -> Yields(Wrap(Abs(Signed(a, o.w)), o.w))
    [] o.name = "narrow" -> Yields(NarrowLane(a, W32, o.signed))
    [] o.name = "vshl" -> Yields(LaneShifted(RefShl, a, b))
    [] o.name = "vshr_s" -> Yields(LaneShifted(RefShrS, a, b))
    [] o.name = "vshr_u" -> Yields(LaneShifted(RefShrU, a, b))
    [] o.name = "fcmp" -> Truth(RefFloatCompare(a, b, o.cond))
    [] o.name \in {"fmin", "vfmin"} -> YieldsFloat(RefMin(a, b))
    [] o.name \in {"fmax", "vfmax"} -> YieldsFloat(RefMax(a, b))
    [] o.name = "trunc" -> RefTrunc(a, o.w, o.signed, o.sat)
    [] o.name = "vtrunc_sat" -> RefTrunc(a, W32, o.signed, TRUE)
    [] o.name = "nearest" -> YieldsFloat(RefNearest(a))
    [] OTHER -> VectorReference(o, a, b)

---------------------------------------------------------------------------
\* The engines.  An instruction with no case of its own is one Go operator or
\* one machine instruction, which computes the reference.

InterpreterVector(o, a, b) ==
  CASE o.name = "vadd_sat" -> Yields(AddSatLane(a, b, W32, o.signed))
    [] o.name = "vsub_sat" -> Yields(SubSatLane(a, b, W32, o.signed))
    [] o.name = "vmin" -> Yields(MinLane(a, b, W32, o.signed))
    [] o.name = "vmax" -> Yields(MaxLane(a, b, W32, o.signed))
    [] o.name = "vavgr_u" -> Yields(RoundingAverage(a, b, W32))
    [] o.name = "vall_true" -> Truth(AllTrue(a, W32))
    [] o.name = "vany_true" -> Truth(AnyTrue(a))
    [] o.name = "vbitmask" -> Yields(BitMask(a, W32))
    [] o.name = "vextract" -> Yields(ExtractLane(a, o.k, W32, o.signed, W64))
    [] o.name = "vextend" -> Yields(ExtendLane(a, o.k, W32, o.signed))
    [] o.name = "vextmul" -> Yields(ExtMulLane(a, b, o.k, W32, o.signed))
    [] o.name = "vdot" -> Yields(DotLane(a, b, W32))
    [] o.name = "vreplace" -> Yields(ReplaceLane(a, o.k, b, W32))
    [] o.name = "vsplat" -> Yields(Splat(a, W32))
    [] o.name = "vshuffle" -> Yields(ShuffleLane(a, b, o.k, W32))
    [] o.name = "vbitselect" -> Yields(Bitselect(a, b, o.k, W64))
    [] o.name = "extend" -> Yields(InterpExtend(a, W32, W64, o.signed))
    [] o.name = "rmw" -> Cell(a, AtomicRMW(o.cond, a, b, W32))
    [] o.name = "cmpxchg" -> Cell(a, AtomicCmpxchg(a, b, o.k, W32))
    [] o.name = "vfcmp" -> Truth(CmpFloatLane(a, b, o.cond))
    [] o.name = "vicmp" -> Yields(CmpMask(CmpLane(a, b, o.cond, o.signed, o.w), o.w))
    [] o.name = "pmin" -> YieldsFloat(PminLane(a, b))
    [] o.name = "pmax" -> YieldsFloat(PmaxLane(a, b))
    [] o.name = "copysign" -> YieldsFloat(InterpCopysign(a, b))
    [] o.name \in {"ceil", "floor", "ftrunc"} -> YieldsFloat(InterpRounded(a, o.name))
    [] o.name \in {"fabs", "vfabs"} -> YieldsFloat(InterpAbs(a))
    [] o.name = "fneg" -> YieldsFloat(InterpNeg(a))
    [] o.name = "vshl" -> Yields(LaneShifted(ShlLane, a, b))
    [] o.name = "vshr_s" -> Yields(LaneShifted(ShrLaneS, a, b))
    [] o.name = "vshr_u" -> Yields(LaneShifted(ShrLaneU, a, b))
    [] OTHER -> Reference(o, a, b)

InterpreterResult(o, a, b) ==
  CASE o.name = "div" -> InterpDiv(a, b, o.w, o.signed)
    [] o.name = "rem" -> InterpRem(a, b, o.w, o.signed)
    [] o.name = "rotl" -> Yields(InterpRotl(a, b, o.w))
    [] o.name = "rotr" -> Yields(InterpRotr(a, b, o.w))
    [] o.name = "fmin" -> YieldsFloat(WasmCompatMin(a, b))
    [] o.name = "fmax" -> YieldsFloat(WasmCompatMax(a, b))
    [] o.name = "nearest" -> YieldsFloat(WasmCompatNearest(a))
    [] o.name = "trunc" -> ITruncFromF(a, o.w, o.signed, o.sat)
    [] o.name = "vtrunc_sat" -> Yields(V128ITruncSat(a, o.signed))
    [] o.name = "convert" -> YieldsFloat(FConvertFromI(a, o.w, o.signed, o.p))
    [] o.name = "viabs" -> Yields(AbsLane(a, o.w))
    [] OTHER -> InterpreterVector(o, a, b)

Amd64Vector(o, a, b) ==
  CASE o.name = "vall_true" -> Truth(Amd64VallTrue(a, W32))
    [] o.name = "vany_true" -> Truth(Amd64VanyTrue(a))
    [] o.name = "vbitmask" -> Yields(Amd64VhighBits(a, W32, o.sat))
    [] o.name = "vextract" -> Yields(Amd64ExtractLane(a, o.k, W32, o.signed, W64))
    [] o.name = "vextend" -> Yields(Amd64Widen(a, o.k = 1, W32, o.signed))
    [] o.name = "vextmul" ->
         Yields(Wrap(Amd64Widen(a, o.k = 1, W32, o.signed)
                     * Amd64Widen(b, o.k = 1, W32, o.signed), W64))
    [] o.name = "vdot" -> Yields(Amd64Dot(a, b, W32))
    [] o.name = "vreplace" -> Yields(Amd64InsertLane(a, o.k, b, W32))
    [] o.name = "vsplat" -> Yields(Amd64Splat(a, W32))
    [] o.name = "vshuffle" -> Yields(Amd64Shuffle(a, b, o.k, W32))
    [] o.name = "vbitselect" -> Yields(Amd64Vbitselect(o.k, a, b, W64))
    [] o.name = "select" -> Yields(Amd64Select(o.k, a, b))
    [] o.name \in {"nearest", "ceil", "floor", "ftrunc"} -> YieldsFloat(Amd64Round(a, o.name))
    [] o.name = "extend" -> Yields(Amd64Extend(a, W32, W64, o.signed))
    [] o.name = "rmw" -> Cell(a, Amd64Rmw(o.cond, a, b, W32))
    [] o.name = "cmpxchg" -> Cell(a, Amd64Cas(a, b, o.k, W32))
    [] o.name = "vfcmp" -> Truth(Amd64VFcmp(a, b, o.cond))
    [] o.name \in {"pmin", "pmax"} -> YieldsFloat(Amd64PminPmax(a, b, o.name = "pmin"))
    [] o.name = "copysign" -> YieldsFloat(Amd64Fcopysign(a, b))
    [] o.name = "fabs" -> YieldsFloat(Amd64Fabs(a))
    [] o.name = "vfabs" -> YieldsFloat(Amd64VFabs(a))
    [] o.name = "fneg" -> YieldsFloat(Amd64Fneg(a))
    [] OTHER -> Reference(o, a, b)

Amd64Result(o, a, b, abm) ==
  CASE o.name \in {"div", "rem"} -> Amd64DivRem(a, b, o.w, o.signed, o.name = "div")
    [] o.name \in {"shl", "shr_s", "shr_u", "rotl", "rotr"} ->
         Yields(Amd64Shift(o.name, a, b, o.w))
    [] o.name = "icmp" -> Truth(Amd64Icmp(a, b, o.cond, o.signed, o.w))
    [] o.name = "vicmp" -> Yields(Amd64VIcmp(a, b, o.cond, o.signed, o.w))
    [] o.name = "extadd8" -> Yields(Amd64ExtAddBytes(a, b, o.w, o.signed))
    [] o.name = "extadd16" -> Yields(Amd64ExtAddWords(a, b, o.w, o.signed))
    [] o.name = "q15mulr_sat" -> Yields(Amd64SqmulRoundSat(a, b, o.w))
    [] o.name = "vimul" -> Yields(Amd64VImul(a, b))
    [] o.name = "swizzle" -> Yields(Amd64SwizzleIndex(a, Lanes, o.w))
    [] o.name = "clz" -> Yields(Amd64Clz(a, o.w, abm))
    [] o.name = "ctz" -> Yields(Amd64Ctz(a, o.w, abm))
    [] o.name = "vipopcnt" -> Yields(Amd64VIpopcnt(a, o.w))
    [] o.name = "convert" /\ o.signed -> YieldsFloat(Cvtsi2s(a, o.w, o.p))
    [] o.name = "convert" /\ ~o.signed -> YieldsFloat(Amd64FcvtFromUint(a, o.w, o.p))
    [] o.name = "vconvert_u" -> YieldsFloat(Amd64VFcvtFromUint(a, o.p))
    [] o.name = "viabs" -> Yields(Amd64VIabs(a, o.w))
    [] o.name = "narrow" -> Yields(Amd64Narrow(a, W32, o.signed))
    [] o.name = "vshl" -> Yields(Amd64ShlBytes(a, b, W32))
    [] o.name = "vshr_s" -> Yields(Amd64SarBytes(a, b, W32))
    [] o.name = "vshr_u" -> Yields(Amd64ShrBytes(a, b, W32))
    [] o.name = "fcmp" -> Truth(Amd64Fcmp(a, b, o.cond))
    [] o.name \in {"fmin", "fmax"} -> YieldsFloat(Amd64FminFmax(a, b, o.name = "fmin", o.p))
    [] o.name = "vfmin" -> YieldsFloat(Amd64VFmin(a, b))
    [] o.name = "vfmax" -> YieldsFloat(Amd64VFmax(a, b, o.p))
    [] o.name = "trunc" /\ o.signed -> Amd64FcvtToSint(a, o.p = P64, o.w, o.sat)
    [] o.name = "trunc" /\ ~o.signed -> Amd64FcvtToUint(a, o.w, o.p, o.sat)
    [] o.name = "vtrunc_sat" ->
         Yields(CASE o.p = P32 /\ o.signed -> Amd64VFcvtToSintF32(a)
                  [] o.p = P32 /\ ~o.signed -> Amd64VFcvtToUintF32(a)
                  [] o.p = P64 /\ o.signed -> Amd64VFcvtToSintF64(a)
                  [] o.p = P64 /\ ~o.signed -> Amd64VFcvtToUintF64(a))
    [] OTHER -> Amd64Vector(o, a, b)

Arm64Vector(o, a, b) ==
  CASE o.name = "vall_true" -> Truth(Arm64VallTrue(a, W32, o.sat))
    [] o.name = "vany_true" -> Truth(Arm64VanyTrue(a, W32))
    [] o.name = "vbitmask" -> Yields(Arm64VhighBits(a, W32, o.sat))
    [] o.name = "vshuffle" -> Yields(Arm64Shuffle(a, b, o.k, W32))
    [] o.name = "select" -> Yields(Arm64SelectVec(o.k, a, b, W64))
    [] o.name = "extend" -> Yields(Arm64Extend(a, W32, W64, o.signed))
    [] o.name = "rmw" -> Cell(a, Arm64Rmw(o.cond, a, b, W32))
    [] o.name = "cmpxchg" -> Cell(a, Arm64Cas(a, b, o.k, W32))
    [] o.name = "vfcmp" -> Truth(Arm64VFcmp(a, b, o.cond))
    [] o.name \in {"pmin", "pmax"} -> YieldsFloat(Arm64PminPmax(a, b, o.name = "pmin"))
    [] o.name = "copysign" -> YieldsFloat(Arm64Fcopysign(a, b))
    [] OTHER -> Reference(o, a, b)

Arm64Result(o, a, b) ==
  CASE o.name = "div" -> Arm64Div(a, b, o.w, o.signed)
    [] o.name = "rem" -> Arm64Rem(a, b, o.w, o.signed)
    [] o.name \in {"shl", "shr_s", "shr_u"} -> Yields(Arm64Shift(o.name, a, b, o.w))
    [] o.name = "rotl" -> Yields(Arm64Rotl(a, b, o.w))
    [] o.name = "rotr" -> Yields(Arm64Rotr(a, b, o.w))
    [] o.name = "icmp" -> Truth(Arm64Icmp(a, b, o.cond, o.signed, o.w))
    [] o.name = "vicmp" -> Yields(Arm64VIcmp(a, b, o.cond, o.signed, o.w))
    [] o.name = "vimul" -> Yields(Arm64VIMul(a, b))
    [] o.name = "ctz" -> Yields(Arm64Ctz(a, o.w))
    [] o.name = "popcnt" -> Yields(Arm64Popcnt(a, o.w))
    [] o.name = "vshl" -> Yields(Joined(Arm64VShift("shl", Lo(a, W32), b, W32),
                                        Arm64VShift("shl", Hi(a, W32), b, W32), W32))
    [] o.name \in {"vshr_s", "vshr_u"} ->
         LET k == IF o.name = "vshr_s" THEN "shr_s" ELSE "shr_u"
         IN Yields(Joined(Arm64VShift(k, Lo(a, W32), b, W32),
                          Arm64VShift(k, Hi(a, W32), b, W32), W32))
    [] o.name = "fcmp" -> Truth(Arm64Fcmp(a, b, o.cond))
    [] o.name = "trunc" -> Arm64FpuToInt(a, o.w, o.signed, o.sat)
    [] o.name = "vtrunc_sat" -> Yields(Arm64VfpuToInt(a, o.p = P64, o.signed))
    [] OTHER -> Arm64Vector(o, a, b)

\* getMemoryLenValue for a memory the module defines itself, not shared: an
\* unsigned 32-bit load of the length, so that 2^32 bytes read as none.
MemoryLen(len) == Wrap(len, W32)

\* Mutant of MemOpSetup: the access's last byte is not counted.
MemOpSetupShort(base, a) ==
  MemoryLen(a.len) >= Wrap(base + Wrap(a.offset + a.size - 1, W64), W64)

\* memOpSetup: one 64-bit comparison of base + offset + size with the length.
MemOpSetup(base, a) ==
  LET ceil == Wrap(a.offset + a.size, W64)
  IN MemoryLen(a.len) >= Wrap(base + ceil, W64)

\* atomicMemOpSetup, memAlignmentCheck: the alignment after the bounds, of
\* the absolute address; the memory's base is page aligned.
CompiledAccess(base, a) ==
  CASE ~MemOpSetup(base, a) -> "OutOfBoundsMemoryAccess"
    [] MemOpSetup(base, a) /\ a.atomic /\ ((base + a.offset) & (a.size - 1)) # 0 ->
         "UnalignedAtomic"
    [] OTHER -> "none"

Outcome(err) == IF err = "none" THEN Yields(0) ELSE Raises(err)

Interpret ==
  /\ engine = "none"
  /\ engine' = "interpreter"
  /\ result' = IF op.name = "access"
               THEN Outcome(InterpAccess(x, y.offset, y.size, y.len, y.atomic))
               ELSE InterpreterResult(op, x, y)
  /\ UNCHANGED <<op, x, y>>

RunAmd64(abm) ==
  /\ engine = "none"
  /\ abm => op.name \in {"clz", "ctz"}
  /\ engine' = "amd64"
  /\ result' = IF op.name = "access" THEN Outcome(CompiledAccess(x, y))
               ELSE Amd64Result(op, x, y, abm)
  /\ UNCHANGED <<op, x, y>>

RunArm64 ==
  /\ engine = "none"
  /\ engine' = "arm64"
  /\ result' = IF op.name = "access" THEN Outcome(CompiledAccess(x, y))
               ELSE Arm64Result(op, x, y)
  /\ UNCHANGED <<op, x, y>>

Next == Interpret \/ (\E abm \in BOOLEAN : RunAmd64(abm)) \/ RunArm64

Spec == Init /\ [][Next]_vars

---------------------------------------------------------------------------
\* Properties

\* Whatever engine executed it, an instruction yields the number, or raises
\* the runtime error, that the specification assigns to its operands: the
\* overflow and NaN exits of the conversions, the divisions of the least
\* integer, the zeros of min and max, the roundings of the two-step unsigned
\* conversions and the flag tricks of the comparisons included.
EnginesCompute ==
  (engine # "none" /\ op.name # "access") => result = Reference(op, x, y)

\* A load or store is admitted exactly when all its bytes are in the memory
\* (and an atomic one is aligned), by every engine.  An access that is both
\* unaligned and out of bounds may raise either error: the interpreter tests
\* the alignment first, compiled code the bounds.
AccessesChecked ==
  (engine # "none" /\ op.name = "access") =>
    LET inBounds == x + y.offset + y.size <= y.len
        aligned == y.atomic => (x + y.offset) % y.size = 0
    IN /\ result.err = "none" <=> inBounds /\ aligned
       /\ inBounds /\ ~aligned => result.err = "UnalignedAtomic"
       /\ ~inBounds /\ aligned => result.err = "OutOfBoundsMemoryAccess"

=============================================================================
