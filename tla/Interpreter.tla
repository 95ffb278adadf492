---------------------------- MODULE Interpreter -----------------------------
(***************************************************************************)
(* The interpreter on one instruction: how it is turned into operations,    *)
(* and what an operation does to the value stack.                           *)
(***************************************************************************)
EXTENDS Opcodes

(***************************************************************************)
(* How internal/engine/interpreter turns an instruction into operations of  *)
(* its intermediate representation: the stack signature (signature.go) that *)
(* the compiler's type stack follows, and the operation (operations.go)     *)
(* that handleInstruction of compiler.go emits.                             *)
(*                                                                          *)
(* An operation is its kind k and the three byte fields b1, b2 and b3 of    *)
(* unionOperation; the fields that only carry an offset, a value or an      *)
(* index are left out, except the stack depths of Pick, Set and Drop.       *)
(***************************************************************************)

(* wasmValueTypeTounsignedType: a reference is an opaque 64-bit pointer.    *)
IRType == [i32 |-> "I32", i64 |-> "I64", f32 |-> "F32", f64 |-> "F64", v128 |-> "V128",
           funcref |-> "I64", externref |-> "I64"]
IRTypes == {"I32", "I64", "F32", "F64", "V128"}
IRSeq(ts) == [k \in DOMAIN ts |-> IRType[ts[k]]]

(* How many 64-bit slots a value of the type takes.                         *)
SlotCount(u) == IF u = "V128" THEN 2 ELSE 1

Sig(ins, outs) == [in |-> ins, out |-> outs]

---------------------------------------------------------------------------
(* wasmOpcodeSignature.                                                     *)

ParametricSigs ==
    [i \in Parametric |-> IF i.n = "drop" THEN Sig(<<"Unknown">>, <<>>)
                                          ELSE Sig(<<"Unknown", "Unknown", "I32">>, <<"Unknown">>)]
(* funcTypeToIRSignatures.get: an indirect call also takes the table offset *)
CallSigs ==
    [i \in Calls |-> Sig(IRSeq(FuncTypes[i.x].params) \o (IF i.n = "call_indirect" THEN <<"I32">> ELSE <<>>),
                         IRSeq(FuncTypes[i.x].results))]
VariableSigs ==
    [i \in Variables |->
        CASE i.n = "get" -> Sig(<<>>, <<IRType[i.x]>>)
          [] i.n = "set" -> Sig(<<IRType[i.x]>>, <<>>)
          [] i.n = "tee" -> Sig(<<IRType[i.x]>>, <<IRType[i.x]>>)]
MemorySigs ==
    [i \in Loads |-> Sig(<<"I32">>, <<IRType[i.t]>>)]
        @@ [i \in Stores |-> Sig(<<"I32", IRType[i.t]>>, <<>>)]
        @@ [i \in MemorySize |-> Sig(IF i.n = "size" THEN <<>> ELSE <<"I32">>, <<"I32">>)]
NumericSigs ==
    [i \in Consts |-> Sig(<<>>, <<IRType[i.t]>>)]
        @@ [i \in IntTests |-> Sig(<<IRType[i.t]>>, <<"I32">>)]
        @@ [i \in IntCompares \cup FloatCompares |-> Sig(<<IRType[i.t], IRType[i.t]>>, <<"I32">>)]
        @@ [i \in IntUnary \cup FloatUnary |-> Sig(<<IRType[i.t]>>, <<IRType[i.t]>>)]
        @@ [i \in IntBinary \cup FloatBinary |-> Sig(<<IRType[i.t], IRType[i.t]>>, <<IRType[i.t]>>)]
ConversionSigs ==
    [i \in Truncations \cup IntConversions \cup FloatConversions \cup Reinterpretations
        |-> Sig(<<IRType[i.x]>>, <<IRType[i.t]>>)]
        @@ [i \in SignExtensions |-> Sig(<<IRType[i.t]>>, <<IRType[i.t]>>)]
ReferenceSigs ==
    [i \in TableAccess |-> IF i.n = "get" THEN Sig(<<"I32">>, <<"I64">>) ELSE Sig(<<"I32", "I64">>, <<>>)]
        @@ [i \in References |-> IF i.n = "is_null" THEN Sig(<<"I64">>, <<"I32">>) ELSE Sig(<<>>, <<"I64">>)]
MiscSigs ==
    [i \in SatTruncations |-> Sig(<<IRType[i.x]>>, <<IRType[i.t]>>)]
        @@ [i \in BulkMemory \cup BulkTable |-> Sig(IF i.n = "drop" THEN <<>> ELSE <<"I32", "I32", "I32">>, <<>>)]
        @@ [i \in TableSize |->
               CASE i.n = "grow" -> Sig(<<"I64", "I32">>, <<"I32">>)
                 [] i.n = "size" -> Sig(<<>>, <<"I32">>)
                 [] i.n = "fill" -> Sig(<<"I32", "I64", "I32">>, <<>>)]
LaneIR == [i8x16 |-> "I32", i16x8 |-> "I32", i32x4 |-> "I32", i64x2 |-> "I64", f32x4 |-> "F32", f64x2 |-> "F64"]
VecMoveSigs ==
    [i \in VecConst |-> Sig(<<>>, <<"V128">>)]
        @@ [i \in VecLoads |-> Sig(IF i.n = "load_lane" THEN <<"I32", "V128">> ELSE <<"I32">>, <<"V128">>)]
        @@ [i \in VecStores |-> Sig(<<"I32", "V128">>, <<>>)]
        @@ [i \in VecLanes |-> IF i.n = "extract_lane" THEN Sig(<<"V128">>, <<LaneIR[i.t]>>)
                                                       ELSE Sig(<<"V128", LaneIR[i.t]>>, <<"V128">>)]
        @@ [i \in VecShifts |-> Sig(<<"V128", "I32">>, <<"V128">>)]
        @@ [i \in VecSplats |-> Sig(<<LaneIR[i.t]>>, <<"V128">>)]
        @@ [i \in VecTests |-> Sig(<<"V128">>, <<"I32">>)]
VecUnarySet == UNION {VecIntUnary, VecFloatUnary, VecPairwise, VecConversions,
                      {i \in VecBitwise : i.n = "not"}, {i \in VecWidens : i.n \in {"extend_low", "extend_high"}}}
VecBinarySet == UNION {VecPermutes, VecCompares, VecIntBinary, VecFloatBinary, VecNarrows,
                       {i \in VecBitwise : i.n \notin {"not", "bitselect"}},
                       {i \in VecWidens : i.n \in {"extmul_low", "extmul_high"}}}
VecSigs ==
    [i \in VecUnarySet |-> Sig(<<"V128">>, <<"V128">>)]
        @@ [i \in VecBinarySet |-> Sig(<<"V128", "V128">>, <<"V128">>)]
        @@ [i \in {b \in VecBitwise : b.n = "bitselect"} |-> Sig(<<"V128", "V128", "V128">>, <<"V128">>)]
AtomicSigs ==
    [i \in AtomicWaits |->
        CASE i.n = "notify" -> Sig(<<"I32", "I32">>, <<"I32">>)
          [] i.n = "wait32" -> Sig(<<"I32", "I32", "I64">>, <<"I32">>)
          [] i.n = "wait64" -> Sig(<<"I32", "I64", "I64">>, <<"I32">>)
          [] i.n = "fence" -> Sig(<<>>, <<>>)]
        @@ [i \in AtomicLoads |-> Sig(<<"I32">>, <<IRType[i.t]>>)]
        @@ [i \in AtomicStores |-> Sig(<<"I32", IRType[i.t]>>, <<>>)]
        @@ [i \in AtomicRmw |-> Sig(<<"I32", IRType[i.t]>>, <<IRType[i.t]>>)]
        @@ [i \in AtomicCmpxchg |-> Sig(<<"I32", IRType[i.t], IRType[i.t]>>, <<IRType[i.t]>>)]

Signatures ==
    ParametricSigs @@ CallSigs @@ VariableSigs @@ MemorySigs @@ NumericSigs @@ ConversionSigs
        @@ ReferenceSigs @@ MiscSigs @@ VecMoveSigs @@ VecSigs @@ AtomicSigs

(* applyToStack: pop the operands, an Unknown standing for the type that    *)
(* the first Unknown met the stack at, and push the results.                *)
TopOf(st) == st[Len(st)]
Dropped(st, n) == SubSeq(st, 1, Len(st) - n)
TypeParam(s, st) ==
    LET unknowns == {k \in DOMAIN s.in : s.in[k] = "Unknown"}
        first == CHOOSE k \in unknowns : \A j \in unknowns : j <= k
    IN  IF unknowns = {} THEN "" ELSE st[Len(st) - Len(s.in) + first]
Resolved(ts, param) == [k \in DOMAIN ts |-> IF ts[k] = "Unknown" THEN param ELSE ts[k]]
SignatureFits(s, st) ==
    /\ Len(st) >= Len(s.in)
    /\ SubSeq(st, Len(st) - Len(s.in) + 1, Len(st)) = Resolved(s.in, TypeParam(s, st))
AppliedToStack(s, st) == Dropped(st, Len(s.in)) \o Resolved(s.out, TypeParam(s, st))

---------------------------------------------------------------------------
(* Operations.                                                              *)

Op(k, b1, b2, b3) == [k |-> k, b1 |-> b1, b2 |-> b2, b3 |-> b3]
Kind(k) == Op(k, "", "", "")

(* signedInt and signedType: an integer type together with its sign.        *)
SignedInt(i) == IF i.s = "s" THEN (IF i.t = "i32" THEN "Int32" ELSE "Int64")
                             ELSE (IF i.t = "i32" THEN "Uint32" ELSE "Uint64")
SignedType(i) == IF i.t \in Floats THEN IRType[i.t] ELSE SignedInt(i)

LowerLoads ==
    [i \in Loads |->
        CASE i.x = "full" -> Op("Load", IRType[i.t], "", "")
          [] i.x = "8" -> Op("Load8", SignedInt(i), "", "")
          [] i.x = "16" -> Op("Load16", SignedInt(i), "", "")
          [] i.x = "32" -> Op("Load32", i.s, "", "")]
LowerStores ==
    [i \in Stores |->
        CASE i.x = "full" -> Op("Store", IRType[i.t], "", "")
          [] i.x = "8" -> Kind("Store8")
          [] i.x = "16" -> Kind("Store16")
          [] i.x = "32" -> Kind("Store32")]
LowerMemorySize == [i \in MemorySize |-> Kind(IF i.n = "size" THEN "MemorySize" ELSE "MemoryGrow")]
LowerConsts == [i \in Consts |-> Op("Const", IRType[i.t], "", "")]

CompareKind == [eq |-> "Eq", ne |-> "Ne", lt |-> "Lt", gt |-> "Gt", le |-> "Le", ge |-> "Ge"]
LowerIntCompares ==
    [i \in IntTests |-> Op("Eqz", IRType[i.t], "", "")]
        @@ [i \in IntCompares |-> Op(CompareKind[i.n], IF i.n \in {"eq", "ne"} THEN IRType[i.t] ELSE SignedInt(i), "", "")]
LowerFloatCompares == [i \in FloatCompares |-> Op(CompareKind[i.n], IRType[i.t], "", "")]

IntKind == [clz |-> "Clz", ctz |-> "Ctz", popcnt |-> "Popcnt", add |-> "Add", sub |-> "Sub", mul |-> "Mul",
            and |-> "And", or |-> "Or", xor |-> "Xor", shl |-> "Shl", rotl |-> "Rotl", rotr |-> "Rotr",
            div |-> "Div", rem |-> "Rem", shr |-> "Shr"]
(* i32.xor is emitted as the 64-bit operation.                              *)
LowerI32Arithmetic ==
    [i \in {a \in IntUnary \cup IntBinary : a.t = "i32"} |->
        Op(IntKind[i.n],
           CASE i.n \in {"div", "rem", "shr"} -> SignedInt(i)
             [] i.n = "xor" -> "I64"
             [] OTHER -> "I32", "", "")]
LowerI64Arithmetic ==
    [i \in {a \in IntUnary \cup IntBinary : a.t = "i64"} |->
        Op(IntKind[i.n], IF i.n \in {"div", "rem", "shr"} THEN SignedInt(i) ELSE "I64", "", "")]
FloatKind == [abs |-> "Abs", neg |-> "Neg", ceil |-> "Ceil", floor |-> "Floor", trunc |-> "Trunc",
              nearest |-> "Nearest", sqrt |-> "Sqrt", add |-> "Add", sub |-> "Sub", mul |-> "Mul",
              div |-> "Div", min |-> "Min", max |-> "Max", copysign |-> "Copysign"]
LowerFloatArithmetic == [i \in FloatUnary \cup FloatBinary |-> Op(FloatKind[i.n], IRType[i.t], "", "")]

(* b3 says whether a truncation traps.                                      *)
ITruncFromF(i, mode) == Op("ITruncFromF", IRType[i.x], SignedInt(i), mode)
LowerConversions ==
    [i \in Truncations |-> ITruncFromF(i, "")]
        @@ [i \in IntConversions |-> IF i.n = "wrap" THEN Kind("I32WrapFromI64") ELSE Op("Extend", i.s, "", "")]
        @@ [i \in FloatConversions |->
               CASE i.n = "convert" -> Op("FConvertFromI", SignedInt([i EXCEPT !.t = i.x]), IRType[i.t], "")
                 [] i.n = "demote" -> Kind("F32DemoteFromF64")
                 [] i.n = "promote" -> Kind("F64PromoteFromF32")]
        @@ [i \in Reinterpretations |-> Op("Reinterpret", IRType[i.t], "", "")]
        @@ [i \in SignExtensions |-> Op("SignExtend", IRType[i.t], i.x, "")]
(* A null reference is the constant 0 and the null test a 64-bit Eqz.       *)
LowerReferences ==
    [i \in References |->
        CASE i.n = "func" -> Kind("RefFunc")
          [] i.n = "null" -> Op("Const", "I64", "", "")
          [] i.n = "is_null" -> Op("Eqz", "I64", "", "")]
        @@ [i \in TableAccess |-> Kind(IF i.n = "get" THEN "TableGet" ELSE "TableSet")]
BulkKind == [init |-> "MemoryInit", drop |-> "DataDrop", copy |-> "MemoryCopy", fill |-> "MemoryFill"]
TableKind == [init |-> "TableInit", drop |-> "ElemDrop", copy |-> "TableCopy", size |-> "TableSize",
              grow |-> "TableGrow", fill |-> "TableFill"]
LowerMisc ==
    [i \in SatTruncations |-> ITruncFromF(i, "nontrapping")]
        @@ [i \in BulkMemory |-> Kind(BulkKind[i.n])]
        @@ [i \in BulkTable \cup TableSize |-> Kind(TableKind[i.n])]

(* Vectors: b1 is the shape, b2 the sign, b3 the half of a widening.        *)
VecOp(k, i) == Op(k, i.t, i.s, "")
VecFrom(k, i, half) == Op(k, i.x, i.s, half)
LowerVecLoads ==
    [i \in VecConst |-> Kind("V128Const")]
        @@ [i \in VecLoads |-> IF i.n = "load_lane" THEN Op("V128LoadLane", i.x, "", "")
                                                    ELSE Op("V128Load", i.x, i.s, i.n)]
LowerVecStores ==
    [i \in VecStores |-> IF i.n = "store" THEN Kind("V128Store") ELSE Op("V128StoreLane", i.x, "", "")]
LowerVecLanes ==
    [i \in VecLanes |-> VecOp(IF i.n = "extract_lane" THEN "V128ExtractLane" ELSE "V128ReplaceLane", i)]
        @@ [i \in VecSplats |-> VecOp("V128Splat", i)]
        @@ [i \in VecPermutes |-> Kind(IF i.n = "swizzle" THEN "V128Swizzle" ELSE "V128Shuffle")]
VecTestKind == [any_true |-> "V128AnyTrue", all_true |-> "V128AllTrue", bitmask |-> "V128BitMask"]
BitwiseKind == [not |-> "V128Not", and |-> "V128And", andnot |-> "V128AndNot", or |-> "V128Or",
                xor |-> "V128Xor", bitselect |-> "V128Bitselect"]
LowerVecBits ==
    [i \in VecTests |-> VecOp(VecTestKind[i.n], i)]
        @@ [i \in VecBitwise |-> Kind(BitwiseKind[i.n])]
        @@ [i \in VecShifts |-> VecOp(IF i.n = "shl" THEN "V128Shl" ELSE "V128Shr", i)]
VecCompare(i) == Op("V128Cmp", i.t, i.s, i.n)
LowerVecIntCompares == [i \in {c \in VecCompares : c.t \in IntShapes} |-> VecCompare(i)]
LowerVecFloatCompares == [i \in {c \in VecCompares : c.t \in FloatShapes} |-> VecCompare(i)]
VecKind == [add |-> "V128Add", sub |-> "V128Sub", mul |-> "V128Mul", div |-> "V128Div", neg |-> "V128Neg",
            sqrt |-> "V128Sqrt", abs |-> "V128Abs", popcnt |-> "V128Popcnt", add_sat |-> "V128AddSat",
            sub_sat |-> "V128SubSat", min |-> "V128Min", max |-> "V128Max", avgr |-> "V128AvgrU",
            pmin |-> "V128Pmin", pmax |-> "V128Pmax", ceil |-> "V128Ceil", floor |-> "V128Floor",
            trunc |-> "V128Trunc", nearest |-> "V128Nearest", q15mulr_sat |-> "V128Q15mulrSatS", dot |-> "V128Dot"]
LowerVecNamed(names) ==
    [i \in {a \in UNION {VecIntUnary, VecIntBinary, VecFloatUnary, VecFloatBinary} : a.n \in names}
        |-> VecOp(VecKind[i.n], i)]
LowerVecAdd == LowerVecNamed({"neg", "add", "sub", "add_sat", "sub_sat"})
LowerVecMul == LowerVecNamed({"mul", "sqrt", "div", "abs", "popcnt"})
LowerVecMinMax == LowerVecNamed({"min", "max", "avgr", "pmin", "pmax"})
LowerVecRounding == LowerVecNamed({"ceil", "floor", "trunc", "nearest"})
LowerVecWidens ==
    LowerVecNamed({"q15mulr_sat"})
        @@ [i \in VecWidens |->
               CASE i.n = "extend_low" -> VecFrom("V128Extend", i, "low")
                 [] i.n = "extend_high" -> VecFrom("V128Extend", i, "high")
                 [] i.n = "extmul_low" -> VecFrom("V128ExtMul", i, "low")
                 [] i.n = "extmul_high" -> VecFrom("V128ExtMul", i, "high")]
        @@ [i \in VecPairwise |-> VecFrom("V128ExtAddPairwise", i, "")]
LowerVecConversions ==
    LowerVecNamed({"dot"}) @@ [i \in VecNarrows |-> VecFrom("V128Narrow", i, "")]
        @@ [i \in VecConversions |->
               CASE i.n = "promote" -> Kind("V128FloatPromote")
                 [] i.n = "demote" -> Kind("V128FloatDemote")
                 [] i.n = "convert" -> VecOp("V128FConvertFromI", i)
                 [] i.n = "trunc_sat" -> VecFrom("V128ITruncSatFromF", i, "")]

(* Atomics: an access of its type's width and a 32-bit access of an i64 are *)
(* one kind, told apart by b1.                                              *)
WidthIR(i) == IF i.x = "32" THEN "I32" ELSE IRType[i.t]
Wide(i) == i.x \in {"full", "32"}
Sized(i, k, k8, k16, b2) ==
    CASE Wide(i) -> Op(k, WidthIR(i), b2, "")
      [] i.x = "8" -> Op(k8, IRType[i.t], b2, "")
      [] i.x = "16" -> Op(k16, IRType[i.t], b2, "")
LowerAtomicWaits ==
    [i \in AtomicWaits |->
        CASE i.n = "notify" -> Kind("AtomicMemoryNotify")
          [] i.n = "wait32" -> Op("AtomicMemoryWait", "I32", "", "")
          [] i.n = "wait64" -> Op("AtomicMemoryWait", "I64", "", "")
          [] i.n = "fence" -> Kind("AtomicFence")]
LowerAtomicLoads == [i \in AtomicLoads |-> Sized(i, "AtomicLoad", "AtomicLoad8", "AtomicLoad16", "")]
LowerAtomicStores == [i \in AtomicStores |-> Sized(i, "AtomicStore", "AtomicStore8", "AtomicStore16", "")]
LowerRmw(n) == [i \in AtomicWidths(n) |-> Sized(i, "AtomicRMW", "AtomicRMW8", "AtomicRMW16", n)]
LowerRmwAdd == LowerRmw("rmw_add")
LowerRmwSub == LowerRmw("rmw_sub")
LowerRmwAnd == LowerRmw("rmw_and")
LowerRmwOr == LowerRmw("rmw_or")
LowerRmwXor == LowerRmw("rmw_xor")
LowerRmwXchg == LowerRmw("rmw_xchg")
LowerCmpxchg ==
    [i \in AtomicCmpxchg |-> Sized(i, "AtomicRMWCmpxchg", "AtomicRMW8Cmpxchg", "AtomicRMW16Cmpxchg", "")]

(* The instructions whose operation does not depend on the compiler's stack *)
Lower ==
    LowerLoads @@ LowerStores @@ LowerMemorySize @@ LowerConsts @@ LowerIntCompares @@ LowerFloatCompares
        @@ LowerI32Arithmetic @@ LowerI64Arithmetic @@ LowerFloatArithmetic @@ LowerConversions
        @@ LowerReferences @@ LowerMisc @@ LowerVecLoads @@ LowerVecStores @@ LowerVecLanes @@ LowerVecBits
        @@ LowerVecIntCompares @@ LowerVecFloatCompares @@ LowerVecAdd @@ LowerVecMul @@ LowerVecMinMax
        @@ LowerVecRounding @@ LowerVecWidens @@ LowerVecConversions
        @@ LowerAtomicWaits @@ LowerAtomicLoads @@ LowerAtomicStores @@ LowerRmwAdd @@ LowerRmwSub
        @@ LowerRmwAnd @@ LowerRmwOr @@ LowerRmwXor @@ LowerRmwXchg @@ LowerCmpxchg

---------------------------------------------------------------------------
(***************************************************************************)
(* What one operation does to the interpreter's value stack: callNativeFunc *)
(* of internal/engine/interpreter/interpreter.go, without control flow.     *)
(*                                                                          *)
(* The stack is a sequence of 64-bit slots, a slot abstracted to what its   *)
(* upper half may hold: "lo" when it is known to be zero, "any" when not,   *)
(* and "vlo"/"vhi" for the two halves of a vector.  A 64-bit result is      *)
(* "any" even where the code pushes a zero-extended value, the weaker claim.*)
(* An effect is how many slots the operation pops, what it pushes, and      *)
(* whether it may trap instead.                                             *)
(***************************************************************************)

Vector == <<"vlo", "vhi">>
TagOfIR == [I32 |-> <<"lo">>, F32 |-> <<"lo">>, I64 |-> <<"any">>, F64 |-> <<"any">>, V128 |-> Vector]
TagOfSigned == [Int32 |-> <<"lo">>, Uint32 |-> <<"lo">>, Int64 |-> <<"any">>, Uint64 |-> <<"any">>,
                F32 |-> <<"lo">>, F64 |-> <<"any">>]
TagOfLane == [u \in {"i8x16", "i16x8", "i32x4", "f32x4"} |-> <<"lo">>] @@ [u \in {"i64x2", "f64x2"} |-> <<"any">>]

Operations == {Lower[i] : i \in DOMAIN Lower}
Of(kinds) == {o \in Operations : o.k \in kinds}
Effect(n, tags) == [pop |-> n, push |-> tags, trap |-> FALSE]
Trapping(n, tags) == [pop |-> n, push |-> tags, trap |-> TRUE]

(* Memory: popMemoryOffset and the access both trap when out of bounds.     *)
LoadEffects ==
    [o \in Of({"Load"}) |-> Trapping(1, TagOfIR[o.b1])]
        @@ [o \in Of({"Load8", "Load16"}) |-> Trapping(1, TagOfSigned[o.b1])]
        @@ [o \in Of({"Load32"}) |-> Trapping(1, <<"any">>)]
StoreEffects == [o \in Of({"Store", "Store8", "Store16", "Store32"}) |-> Trapping(2, <<>>)]
MemorySizeEffects ==
    [o \in Of({"MemorySize", "MemoryGrow"}) |-> Effect(IF o.k = "MemorySize" THEN 0 ELSE 1, <<"lo">>)]
ConstEffects == [o \in Of({"Const"}) |-> Effect(0, TagOfIR[o.b1])]

CompareEffects ==
    [o \in Of({"Eq", "Ne", "Lt", "Gt", "Le", "Ge"}) |-> Effect(2, <<"lo">>)]
        @@ [o \in Of({"Eqz"}) |-> Effect(1, <<"lo">>)]
AddEffects == [o \in Of({"Add", "Sub", "Mul"}) |-> Effect(2, TagOfIR[o.b1])]
CountEffects == [o \in Of({"Clz", "Ctz", "Popcnt"}) |-> Effect(1, TagOfIR[o.b1])]
DivEffects ==
    [o \in Of({"Div", "Rem"}) |->
        IF o.b1 \in {"F32", "F64"} THEN Effect(2, TagOfSigned[o.b1]) ELSE Trapping(2, TagOfSigned[o.b1])]
BitwiseEffects == [o \in Of({"And", "Or", "Shl", "Rotl", "Rotr"}) |-> Effect(2, TagOfIR[o.b1])]
                      @@ [o \in Of({"Shr"}) |-> Effect(2, TagOfSigned[o.b1])]
FloatUnaryEffects ==
    [o \in Of({"Abs", "Neg", "Ceil", "Floor", "Trunc", "Nearest", "Sqrt"}) |-> Effect(1, TagOfIR[o.b1])]
FloatBinaryEffects == [o \in Of({"Min", "Max", "Copysign"}) |-> Effect(2, TagOfIR[o.b1])]
TruncEffects ==
    [o \in Of({"ITruncFromF"}) |->
        IF o.b3 = "nontrapping" THEN Effect(1, TagOfSigned[o.b2]) ELSE Trapping(1, TagOfSigned[o.b2])]
(* The four reinterpretations have no case of their own: the default only   *)
(* advances the program counter and the slot keeps its bits.                *)
ConvertEffects ==
    [o \in Of({"FConvertFromI"}) |-> Effect(1, TagOfIR[o.b2])]
        @@ [o \in Of({"I32WrapFromI64", "F32DemoteFromF64"}) |-> Effect(1, <<"lo">>)]
        @@ [o \in Of({"F64PromoteFromF32", "Extend"}) |-> Effect(1, <<"any">>)]
        @@ [o \in Of({"SignExtend"}) |-> Effect(1, TagOfIR[o.b1])]
ReinterpretEffects == [o \in Of({"Reinterpret"}) |-> Effect(0, <<>>)]

BulkMemoryEffects ==
    [o \in Of({"MemoryInit", "MemoryCopy", "MemoryFill"}) |-> Trapping(3, <<>>)]
        @@ [o \in Of({"DataDrop"}) |-> Effect(0, <<>>)]
TableEffects ==
    [o \in Of({"TableInit", "TableCopy", "TableFill"}) |-> Trapping(3, <<>>)]
        @@ [o \in Of({"ElemDrop"}) |-> Effect(0, <<>>)]
        @@ [o \in Of({"RefFunc"}) |-> Effect(0, <<"any">>)]
        @@ [o \in Of({"TableGet"}) |-> Trapping(1, <<"any">>)]
        @@ [o \in Of({"TableSet"}) |-> Trapping(2, <<>>)]
        @@ [o \in Of({"TableSize"}) |-> Effect(0, <<"lo">>)]
        @@ [o \in Of({"TableGrow"}) |-> Effect(2, <<"lo">>)]

---------------------------------------------------------------------------
(* Vectors: the upper slot of an operand is popped first.                   *)

VecConstEffects == [o \in Of({"V128Const"}) |-> Effect(0, Vector)]
VecAddEffects == [o \in Of({"V128Add", "V128Sub"}) |-> Effect(4, Vector)]
VecLoadEffects == [o \in Of({"V128Load"}) |-> Trapping(1, Vector)]
VecLaneAccessEffects ==
    [o \in Of({"V128LoadLane"}) |-> Trapping(3, Vector)]
        @@ [o \in Of({"V128Store", "V128StoreLane"}) |-> Trapping(3, <<>>)]
VecLaneEffects ==
    [o \in Of({"V128ReplaceLane"}) |-> Effect(3, Vector)]
        @@ [o \in Of({"V128ExtractLane"}) |-> Effect(2, TagOfLane[o.b1])]
        @@ [o \in Of({"V128Splat"}) |-> Effect(1, Vector)]
VecPermuteEffects == [o \in Of({"V128Swizzle", "V128Shuffle"}) |-> Effect(4, Vector)]
VecTestEffects == [o \in Of({"V128AnyTrue", "V128AllTrue", "V128BitMask"}) |-> Effect(2, <<"lo">>)]
VecBitwiseEffects ==
    [o \in Of({"V128And", "V128Or", "V128Xor", "V128AndNot"}) |-> Effect(4, Vector)]
        @@ [o \in Of({"V128Not"}) |-> Effect(2, Vector)]
        @@ [o \in Of({"V128Bitselect"}) |-> Effect(6, Vector)]
VecShiftEffects == [o \in Of({"V128Shl", "V128Shr"}) |-> Effect(3, Vector)]
VecIntCompareEffects == [o \in {c \in Of({"V128Cmp"}) : c.b1 \in IntShapes} |-> Effect(4, Vector)]
VecFloatCompareEffects == [o \in {c \in Of({"V128Cmp"}) : c.b1 \in FloatShapes} |-> Effect(4, Vector)]
VecSatEffects == [o \in Of({"V128AddSat", "V128SubSat"}) |-> Effect(4, Vector)]
VecArithmeticEffects ==
    [o \in Of({"V128Mul", "V128Div"}) |-> Effect(4, Vector)]
        @@ [o \in Of({"V128Neg", "V128Sqrt", "V128Abs", "V128Popcnt"}) |-> Effect(2, Vector)]
VecMinMaxEffects == [o \in Of({"V128Min", "V128Max"}) |-> Effect(4, Vector)]
VecFloatEffects ==
    [o \in Of({"V128AvgrU", "V128Pmin", "V128Pmax"}) |-> Effect(4, Vector)]
        @@ [o \in Of({"V128Ceil", "V128Floor", "V128Trunc", "V128Nearest"}) |-> Effect(2, Vector)]
VecWidenEffects ==
    [o \in Of({"V128Extend", "V128ExtAddPairwise"}) |-> Effect(2, Vector)]
        @@ [o \in Of({"V128ExtMul", "V128Q15mulrSatS"}) |-> Effect(4, Vector)]
VecNarrowEffects ==
    [o \in Of({"V128FloatPromote", "V128FloatDemote", "V128FConvertFromI"}) |-> Effect(2, Vector)]
        @@ [o \in Of({"V128Narrow"}) |-> Effect(4, Vector)]
VecDotEffects == [o \in Of({"V128Dot"}) |-> Effect(4, Vector)]
                     @@ [o \in Of({"V128ITruncSatFromF"}) |-> Effect(2, Vector)]

---------------------------------------------------------------------------
(* Atomics trap on an unaligned or an out of bounds address, a wait also on *)
(* a memory that is not shared.                                             *)

AtomicWaitEffects ==
    [o \in Of({"AtomicMemoryWait"}) |-> Trapping(3, <<"lo">>)]
        @@ [o \in Of({"AtomicMemoryNotify"}) |-> Trapping(2, <<"lo">>)]
        @@ [o \in Of({"AtomicFence"}) |-> Effect(0, <<>>)]
AtomicLoadEffects ==
    [o \in Of({"AtomicLoad", "AtomicLoad8", "AtomicLoad16"}) |-> Trapping(1, TagOfIR[o.b1])]
AtomicStoreEffects == [o \in Of({"AtomicStore", "AtomicStore8", "AtomicStore16"}) |-> Trapping(2, <<>>)]
AtomicRmwEffects == [o \in Of({"AtomicRMW", "AtomicRMW8", "AtomicRMW16"}) |-> Trapping(2, TagOfIR[o.b1])]
AtomicCmpxchgEffects ==
    [o \in Of({"AtomicRMWCmpxchg", "AtomicRMW8Cmpxchg", "AtomicRMW16Cmpxchg"}) |-> Trapping(3, TagOfIR[o.b1])]

Effects ==
    LoadEffects @@ StoreEffects @@ MemorySizeEffects @@ ConstEffects @@ CompareEffects @@ AddEffects
        @@ CountEffects @@ DivEffects @@ BitwiseEffects @@ FloatUnaryEffects @@ FloatBinaryEffects
        @@ TruncEffects @@ ConvertEffects @@ ReinterpretEffects @@ BulkMemoryEffects @@ TableEffects
        @@ VecConstEffects @@ VecAddEffects @@ VecLoadEffects @@ VecLaneAccessEffects @@ VecLaneEffects
        @@ VecPermuteEffects @@ VecTestEffects @@ VecBitwiseEffects @@ VecShiftEffects
        @@ VecIntCompareEffects @@ VecFloatCompareEffects @@ VecSatEffects @@ VecArithmeticEffects
        @@ VecMinMaxEffects @@ VecFloatEffects @@ VecWidenEffects @@ VecNarrowEffects @@ VecDotEffects
        @@ AtomicWaitEffects @@ AtomicLoadEffects @@ AtomicStoreEffects @@ AtomicRmwEffects
        @@ AtomicCmpxchgEffects
=============================================================================
