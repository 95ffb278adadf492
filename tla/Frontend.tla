------------------------------ MODULE Frontend ------------------------------
(***************************************************************************)
(* How the optimising compiler (internal/engine/wazevo) turns an            *)
(* instruction into SSA: what lowerCurrentOpcode of frontend/lower.go pops  *)
(* and which SSA instruction produces the value it pushes, the type that    *)
(* instruction's As... constructor and the return type table of             *)
(* ssa/instructions.go give the value, and which SSA instructions dead code *)
(* elimination must keep.                                                   *)
(*                                                                          *)
(* A lowering is how many values it pops, the SSA opcode op that produces   *)
(* the result ("" for none), the destination type dst the frontend passes   *)
(* to the constructor ("" where it passes none) and the set also of the     *)
(* other opcodes with a side effect emitted on the way.                     *)
(***************************************************************************)
EXTENDS Opcodes

(* WasmTypeToSSAType.                                                       *)
SsaType == [i32 |-> "I32", i64 |-> "I64", f32 |-> "F32", f64 |-> "F64", v128 |-> "V128",
            funcref |-> "I64", externref |-> "I64"]
SsaSeq(ts) == [k \in DOMAIN ts |-> SsaType[ts[k]]]

---------------------------------------------------------------------------
(* ssa/instructions.go: the type field each As... constructor sets.  "x" is *)
(* the type of the first operand, "last" that of the last one, "dst" the    *)
(* type the caller asks for.                                                *)

AccessTyp == [o \in {"Load", "Sload8", "Uload8", "Sload16", "Uload16", "Sload32", "Uload32"} |-> "dst"]
                 @@ [o \in {"VZeroExtLoad", "LoadSplat"} |-> "V128"]
ConstTyp == ("Iconst" :> "dst")
VecIntTyp ==
    [o \in {"VIadd", "WideningPairwiseDotProductS", "ExtIaddPairwise", "VSaddSat", "VUaddSat", "VIsub", "VSsubSat",
            "VUsubSat", "VImin", "VUmin", "VImax", "VUmax", "VAvgRound", "VImul", "SqmulRoundSat"} |-> "V128"]
VecUnaryTyp == [o \in {"VIabs", "VIneg", "VIpopcnt", "VSqrt", "VFabs", "VFneg"} |-> "V128"]
VecFloatTyp == [o \in {"VFmax", "VFmin", "VFadd", "VFsub", "VFmul", "VFdiv"} |-> "V128"]
SumTyp == [o \in {"Iadd", "Imul", "Isub"} |-> "x"]
CompareTyp == [o \in {"Icmp", "Fcmp"} |-> "I32"] @@ [o \in {"VIcmp", "VFcmp"} |-> "V128"]
VecRoundTyp == [o \in {"VCeil", "VFloor", "VTrunc", "VNearest", "VMaxPseudo", "VMinPseudo"} |-> "x"]
DivTyp == [o \in {"Sdiv", "Udiv", "Srem", "Urem"} |-> "x"]
BitTyp == [o \in {"Band", "Bor", "Bxor", "Ishl", "VIshl", "Ushr", "VUshr", "Sshr", "VSshr"} |-> "x"]
LaneTyp == ("Extractlane" :> "dst") @@ [o \in {"Insertlane", "Shuffle", "Swizzle", "Splat"} |-> "V128"]
RotateTyp == [o \in {"Rotl", "Rotr"} |-> "x"]
FloatTyp == [o \in {"Fadd", "Fsub", "Fmul", "Fdiv", "Fmin", "Fmax"} |-> "x"]
FloatConstTyp == [o \in {"F32const", "F64const"} |-> "F64"] @@ ("Vconst" :> "V128")
VecBitTyp == [o \in {"Vbnot", "Vband", "Vbor", "Vbxor", "Vbandnot", "Vbitselect"} |-> "V128"]
                 @@ [o \in {"VanyTrue", "VallTrue", "VhighBits"} |-> "I32"]
ReduceTyp == ("Ireduce" :> "dst") @@ ("Widen" :> "")
AtomicTyp == ("AtomicLoad" :> "dst") @@ [o \in {"AtomicRmw", "AtomicCas"} |-> "last"]
CountTyp == [o \in {"Clz", "Ctz", "Popcnt"} |-> "x"]
FloatUnaryTyp == [o \in {"Fneg", "Sqrt", "Fabs", "Fcopysign", "Ceil", "Floor", "Trunc", "Nearest"} |-> "x"]
CastTyp == [o \in {"Bitcast", "FcvtFromInt", "FcvtToInt", "FcvtToIntSat"} |-> "dst"]
               @@ ("Fdemote" :> "F32") @@ ("Fpromote" :> "F64")
VecCastTyp == [o \in {"VFcvtToIntSat", "VFcvtFromInt", "Narrow", "FvpromoteLow", "Fvdemote"} |-> ""]
ExtendTyp == [o \in {"SExtend", "UExtend"} |-> "dst"]
SelectTyp == ("Select" :> "x")
Typ == AccessTyp @@ ConstTyp @@ VecIntTyp @@ VecUnaryTyp @@ VecFloatTyp @@ SumTyp @@ CompareTyp @@ VecRoundTyp
           @@ DivTyp @@ BitTyp @@ LaneTyp @@ RotateTyp @@ FloatTyp @@ FloatConstTyp @@ VecBitTyp @@ ReduceTyp @@ AtomicTyp
           @@ CountTyp @@ FloatUnaryTyp @@ CastTyp @@ VecCastTyp @@ ExtendTyp @@ SelectTyp

(* instructionReturnTypes: the opcodes whose return type is fixed; every    *)
(* other returns its type field.  F32const is typed F64 by its constructor  *)
(* and F32 by this table.                                                   *)
ReturnTypes ==
    [o \in {"ExtIaddPairwise", "Vbor", "Vbxor", "Vband", "Vbnot", "Vbandnot", "Vbitselect", "VIadd", "VSaddSat",
            "VUaddSat", "VIsub", "VSsubSat", "VUsubSat", "VIcmp", "VImin", "VUmin", "VImax", "VUmax", "VImul",
            "VAvgRound", "VIabs", "VIneg", "VIpopcnt", "VIshl", "VSshr", "VUshr", "Insertlane", "Widen", "Narrow",
            "Shuffle", "Splat", "VZeroExtLoad", "LoadSplat", "SqmulRoundSat", "VFcvtFromInt", "Fvdemote",
            "FvpromoteLow", "Vconst", "VFabs", "VSqrt", "VFmax", "VFmin", "VFneg", "VFadd", "VFsub", "VFmul",
            "VFdiv", "VFcmp", "VCeil", "VFloor", "VTrunc", "VNearest", "VMaxPseudo", "VMinPseudo",
            "VFcvtToIntSat", "WideningPairwiseDotProductS"} |-> "V128"]
        @@ [o \in {"VanyTrue", "VallTrue", "VhighBits", "Icmp", "Fcmp"} |-> "I32"]
        @@ [o \in {"F32const", "Fdemote"} |-> "F32"]
        @@ [o \in {"F64const", "Fpromote"} |-> "F64"]

(* instructionSideEffects.                                                  *)
StrictEffects == {"Call", "CallIndirect", "Store", "Istore8", "Istore16", "Istore32", "ExitWithCode",
                  "ExitIfTrueWithCode", "Brz", "Brnz", "BrTable", "Jump", "Return",
                  "AtomicRmw", "AtomicLoad", "AtomicStore", "AtomicCas", "Fence"}
\* Mutant of TrapEffects: the remainders are left out.
TrapEffectsOfDiv == {"FcvtToInt", "Sdiv", "Udiv"}
TrapEffects == {"FcvtToInt", "Sdiv", "Srem", "Udiv", "Urem"}
Exits == {"ExitWithCode", "ExitIfTrueWithCode"}

---------------------------------------------------------------------------
(* frontend/lower.go: lowerCurrentOpcode.                                   *)

F(pop, op, dst, also) == [pop |-> pop, op |-> op, dst |-> dst, also |-> also]

(* memOpSetup and the bounds checks of tables and bulk operations exit      *)
(* through ExitIfTrueWithCode, atomics also on a misaligned address.  An    *)
(* access whose bound an earlier check of the same base address covers      *)
(* emits none; that elision is not modelled.                                *)
Checked == {"ExitIfTrueWithCode"}

FrontConsts ==
    [i \in Consts |-> CASE i.t \in Ints -> F(0, "Iconst", SsaType[i.t], {})
                        [] i.t = "f32" -> F(0, "F32const", "", {})
                        [] i.t = "f64" -> F(0, "F64const", "", {})]
SumOpcode == [add |-> "Iadd", sub |-> "Isub", mul |-> "Imul"]
FloatOpcode == [add |-> "Fadd", sub |-> "Fsub", mul |-> "Fmul", div |-> "Fdiv", max |-> "Fmax", min |-> "Fmin"]
FrontArithmetic ==
    [i \in {a \in IntBinary : a.n \in DOMAIN SumOpcode} |-> F(2, SumOpcode[i.n], "", {})]
        @@ [i \in {a \in FloatBinary : a.n \in DOMAIN FloatOpcode} |-> F(2, FloatOpcode[i.n], "", {})]
(* insertIntegerExtend.                                                     *)
FrontExtends ==
    [i \in SignExtensions \cup {c \in IntConversions : c.n = "extend"} |->
        F(1, IF i.s = "s" THEN "SExtend" ELSE "UExtend", SsaType[i.t], {})]
FrontCompares ==
    [i \in IntTests |-> F(1, "Icmp", "", {})] @@ [i \in IntCompares |-> F(2, "Icmp", "", {})]
        @@ [i \in FloatCompares |-> F(2, "Fcmp", "", {})]
FloatUnaryOpcode == [neg |-> "Fneg", sqrt |-> "Sqrt", abs |-> "Fabs", ceil |-> "Ceil", floor |-> "Floor",
                     trunc |-> "Trunc", nearest |-> "Nearest"]
FrontFloatUnary ==
    [i \in FloatUnary |-> F(1, FloatUnaryOpcode[i.n], "", {})]
        @@ [i \in {b \in FloatBinary : b.n = "copysign"} |-> F(2, "Fcopysign", "", {})]
FrontTruncations == [i \in Truncations |-> F(1, "FcvtToInt", SsaType[i.t], {})]
FrontSatTruncations == [i \in SatTruncations |-> F(1, "FcvtToIntSat", SsaType[i.t], {})]
FrontTableSize ==
    [i \in {t \in TableSize : t.n = "size"} |-> F(0, "Load", "I32", {})]
        @@ [i \in {t \in TableSize : t.n = "grow"} |-> F(2, "CallIndirect", "", {"Store"})]
        @@ [i \in {t \in BulkTable : t.n = "copy"} |-> F(3, "", "", Checked \cup {"CallIndirect"})]
FrontMemoryCopy == [i \in {m \in BulkMemory : m.n = "copy"} |-> F(3, "", "", Checked \cup {"CallIndirect"})]
FrontTableFill ==
    [i \in {t \in TableSize : t.n = "fill"} |-> F(3, "", "", Checked \cup {"Brnz", "Jump", "Store", "CallIndirect"})]
FrontMemoryFill ==
    [i \in {m \in BulkMemory : m.n = "fill"} |-> F(3, "", "", Checked \cup {"Brnz", "Jump", "Istore8", "CallIndirect"})]
FrontInits ==
    [i \in {b \in BulkMemory \cup BulkTable : b.n = "init"} |-> F(3, "", "", Checked \cup {"CallIndirect"})]
        @@ [i \in {b \in BulkMemory \cup BulkTable : b.n = "drop"} |-> F(0, "", "", {"Store"})]
FrontReinterprets == [i \in Reinterpretations |-> F(1, "Bitcast", SsaType[i.t], {})]
DivOpcode(i) == IF i.n = "div" THEN (IF i.s = "s" THEN "Sdiv" ELSE "Udiv") ELSE (IF i.s = "s" THEN "Srem" ELSE "Urem")
FrontDivisions == [i \in {a \in IntBinary : a.n \in {"div", "rem"}} |-> F(2, DivOpcode(i), "", {})]
BitOpcode == [and |-> "Band", or |-> "Bor", xor |-> "Bxor", shl |-> "Ishl", rotl |-> "Rotl", rotr |-> "Rotr"]
FrontBits ==
    [i \in {a \in IntBinary : a.n \in DOMAIN BitOpcode} |-> F(2, BitOpcode[i.n], "", {})]
        @@ [i \in {a \in IntBinary : a.n = "shr"} |-> F(2, IF i.s = "s" THEN "Sshr" ELSE "Ushr", "", {})]
CountOpcode == [clz |-> "Clz", ctz |-> "Ctz", popcnt |-> "Popcnt"]
FrontCounts ==
    [i \in IntUnary |-> F(1, CountOpcode[i.n], "", {})]
        @@ [i \in {c \in IntConversions : c.n = "wrap"} |-> F(1, "Ireduce", "I32", {})]
(* A global is loaded or stored; a local is an SSA variable.  The variable  *)
(* "var" stands for the value the builder finds for it.                     *)
FrontVariables ==
    [i \in Variables |->
        CASE i.t = "global" /\ i.n = "get" -> F(0, "Load", SsaType[i.x], {})
          [] i.t = "global" /\ i.n = "set" -> F(1, "", "", {"Store"})
          [] i.t = "local" /\ i.n = "get" -> F(0, "var", SsaType[i.x], {})
          [] i.t = "local" /\ i.n = "set" -> F(1, "", "", {})
          [] i.t = "local" /\ i.n = "tee" -> F(1, "var", SsaType[i.x], {})]
FrontParametric == [i \in Parametric |-> IF i.n = "drop" THEN F(1, "", "", {}) ELSE F(3, "Select", "", {})]
(* memory.size shifts the byte size, loaded as a 32-bit value.              *)
FrontMemorySize ==
    [i \in MemorySize |-> IF i.n = "size" THEN F(0, "Load", "I32", {}) ELSE F(1, "CallIndirect", "", {"Store"})]
StoreOpcode(x) == CASE x = "8" -> "Istore8" [] x = "16" -> "Istore16" [] x = "32" -> "Istore32" [] OTHER -> "Store"
FrontStores == [i \in Stores |-> F(2, "", "", Checked \cup {StoreOpcode(i.x)})]
LoadOpcode(i) ==
    CASE i.x = "8" -> (IF i.s = "s" THEN "Sload8" ELSE "Uload8")
      [] i.x = "16" -> (IF i.s = "s" THEN "Sload16" ELSE "Uload16")
      [] i.x = "32" -> (IF i.s = "s" THEN "Sload32" ELSE "Uload32")
      [] OTHER -> "Load"
FrontLoads == [i \in Loads |-> F(1, LoadOpcode(i), SsaType[i.t], Checked)]
(* An indirect call checks the table bound, the null entry and the type ID. *)
FrontCalls ==
    [i \in Calls |-> IF i.n = "call" THEN F(Len(FuncTypes[i.x].params), "Call", "", {"Store"})
                                     ELSE F(Len(FuncTypes[i.x].params) + 1, "CallIndirect", "", Checked \cup {"Store"})]
FrontConversions ==
    [i \in FloatConversions |->
        CASE i.n = "convert" -> F(1, "FcvtFromInt", SsaType[i.t], {})
          [] i.n = "demote" -> F(1, "Fdemote", "", {})
          [] i.n = "promote" -> F(1, "Fpromote", "", {})]
FrontReferences ==
    [i \in References |->
        CASE i.n = "func" -> F(0, "CallIndirect", "", {"Store"})
          [] i.n = "null" -> F(0, "Iconst", "I64", {})
          [] i.n = "is_null" -> F(1, "Icmp", "", {})]
        @@ [i \in TableAccess |-> IF i.n = "get" THEN F(1, "Load", "I64", Checked)
                                                 ELSE F(2, "", "", Checked \cup {"Store"})]

(* The vector instructions.                                                 *)
\* Mutant of LaneType128: the lane of an i64x2 is extracted as an i32.
LaneType128Narrow == [i8x16 |-> "I32", i16x8 |-> "I32", i32x4 |-> "I32", i64x2 |-> "I32", f32x4 |-> "F32", f64x2 |-> "F64"]
LaneType128 == [i8x16 |-> "I32", i16x8 |-> "I32", i32x4 |-> "I32", i64x2 |-> "I64", f32x4 |-> "F32", f64x2 |-> "F64"]
FrontVecLoads ==
    [i \in VecConst |-> F(0, "Vconst", "", {})]
        @@ [i \in VecLoads |->
               CASE i.n = "load_lane" -> F(2, "Insertlane", "", Checked)
                 [] i.n = "load_splat" -> F(1, "LoadSplat", "", Checked)
                 [] i.x = "full" -> F(1, "Load", "V128", Checked)
                 [] i.x \in {"32zero", "64zero"} -> F(1, "VZeroExtLoad", "", Checked)
                 [] OTHER -> F(1, "Widen", "", Checked)]
FrontVecStores ==
    [i \in VecStores |-> F(2, "", "", Checked \cup {IF i.n = "store" THEN "Store" ELSE StoreOpcode(i.x)})]
VecBitOpcode == [not |-> "Vbnot", and |-> "Vband", andnot |-> "Vbandnot", or |-> "Vbor", xor |-> "Vbxor",
                 bitselect |-> "Vbitselect", any_true |-> "VanyTrue", all_true |-> "VallTrue",
                 bitmask |-> "VhighBits"]
FrontVecBits ==
    [i \in VecBitwise \cup VecTests |->
        F(CASE i.n = "bitselect" -> 3 [] i.n \in {"and", "andnot", "or", "xor"} -> 2 [] OTHER -> 1,
          VecBitOpcode[i.n], "", {})]
VecIntOpcode(i) ==
    CASE i.n = "abs" -> "VIabs" [] i.n = "neg" -> "VIneg" [] i.n = "popcnt" -> "VIpopcnt"
      [] i.n = "add" -> "VIadd" [] i.n = "sub" -> "VIsub" [] i.n = "mul" -> "VImul"
      [] i.n = "add_sat" -> (IF i.s = "s" THEN "VSaddSat" ELSE "VUaddSat")
      [] i.n = "sub_sat" -> (IF i.s = "s" THEN "VSsubSat" ELSE "VUsubSat")
      [] i.n = "min" -> (IF i.s = "s" THEN "VImin" ELSE "VUmin")
      [] i.n = "max" -> (IF i.s = "s" THEN "VImax" ELSE "VUmax")
      [] i.n = "avgr" -> "VAvgRound" [] i.n = "q15mulr_sat" -> "SqmulRoundSat"
      [] i.n = "dot" -> "WideningPairwiseDotProductS"
FrontVecUnary == [i \in VecIntUnary |-> F(1, VecIntOpcode(i), "", {})]
FrontVecInt(names) == [i \in {b \in VecIntBinary : b.n \in names} |-> F(2, VecIntOpcode(i), "", {})]
FrontVecAdds == FrontVecInt({"add", "add_sat", "sub_sat", "sub"})
FrontVecMinMax == FrontVecInt({"min", "max", "avgr", "mul", "q15mulr_sat"})
FrontVecIntCompares(names) ==
    [i \in {c \in VecCompares : c.t \in IntShapes /\ c.n \in names} |-> F(2, "VIcmp", "", {})]
FrontVecLess == FrontVecIntCompares({"eq", "ne", "lt", "le"})
FrontVecGreater == FrontVecIntCompares({"gt", "ge"})
VecFloatOpcode == [abs |-> "VFabs", neg |-> "VFneg", sqrt |-> "VSqrt", ceil |-> "VCeil", floor |-> "VFloor",
                   trunc |-> "VTrunc", nearest |-> "VNearest", add |-> "VFadd", sub |-> "VFsub", mul |-> "VFmul",
                   div |-> "VFdiv", min |-> "VFmin", max |-> "VFmax", pmin |-> "VMinPseudo", pmax |-> "VMaxPseudo"]
FrontVecFloat(names) ==
    [i \in {u \in VecFloatUnary : u.n \in names} |-> F(1, VecFloatOpcode[i.n], "", {})]
        @@ [i \in {b \in VecFloatBinary : b.n \in names} |-> F(2, VecFloatOpcode[i.n], "", {})]
FrontVecFloats == FrontVecFloat({"max", "abs", "min", "neg", "sqrt", "add", "sub", "mul", "div"})
(* lowerExtMul widens both operands and multiplies.                         *)
FrontVecWidens ==
    [i \in VecPairwise |-> F(1, "ExtIaddPairwise", "", {})]
        @@ [i \in {w \in VecWidens : w.n \in {"extmul_low", "extmul_high"}} |-> F(2, "VImul", "", {})]
        @@ FrontVecInt({"dot"})
FrontVecFloatCompares == [i \in {c \in VecCompares : c.t \in FloatShapes} |-> F(2, "VFcmp", "", {})]
FrontVecRounds == FrontVecFloat({"ceil", "floor", "trunc", "nearest", "pmin", "pmax"})
FrontVecConverts ==
    [i \in VecConversions |->
        F(1, CASE i.n = "trunc_sat" -> "VFcvtToIntSat" [] i.n = "convert" -> "VFcvtFromInt"
               [] i.n = "promote" -> "FvpromoteLow" [] i.n = "demote" -> "Fvdemote", "", {})]
        @@ [i \in VecNarrows |-> F(2, "Narrow", "", {})]
        @@ [i \in {w \in VecWidens : w.n \in {"extend_low", "extend_high"}} |-> F(1, "Widen", "", {})]
FrontVecShifts ==
    [i \in VecShifts |-> F(2, CASE i.n = "shl" -> "VIshl" [] i.s = "s" -> "VSshr" [] OTHER -> "VUshr", "", {})]
FrontVecLanes ==
    [i \in VecLanes |-> IF i.n = "extract_lane" THEN F(1, "Extractlane", LaneType128[i.t], {})
                                                ELSE F(2, "Insertlane", "", {})]
        @@ [i \in VecPermutes |-> F(2, IF i.n = "shuffle" THEN "Shuffle" ELSE "Swizzle", "", {})]
        @@ [i \in VecSplats |-> F(1, "Splat", "", {})]

(* The atomic instructions.                                                 *)
FrontAtomicWaits ==
    [i \in AtomicWaits |->
        CASE i.n \in {"wait32", "wait64"} -> F(3, "CallIndirect", "", Checked \cup {"Store"})
          [] i.n = "notify" -> F(2, "CallIndirect", "", Checked \cup {"Store"})
          [] i.n = "fence" -> F(0, "", "", {"Fence"})]
FrontAtomicAccesses ==
    [i \in AtomicLoads |-> F(1, "AtomicLoad", SsaType[i.t], Checked)]
        @@ [i \in AtomicStores |-> F(2, "", "", Checked \cup {"AtomicStore"})]
FrontAtomicRmw == [i \in AtomicRmw |-> F(2, "AtomicRmw", "", Checked)]
FrontAtomicCas == [i \in AtomicCmpxchg |-> F(3, "AtomicCas", "", Checked)]

Front ==
    FrontConsts @@ FrontArithmetic @@ FrontExtends @@ FrontCompares @@ FrontFloatUnary @@ FrontTruncations
        @@ FrontSatTruncations @@ FrontTableSize @@ FrontMemoryCopy @@ FrontTableFill @@ FrontMemoryFill
        @@ FrontInits @@ FrontReinterprets @@ FrontDivisions @@ FrontBits @@ FrontCounts @@ FrontVariables
        @@ FrontParametric @@ FrontMemorySize @@ FrontStores @@ FrontLoads @@ FrontCalls @@ FrontConversions
        @@ FrontReferences @@ FrontVecLoads @@ FrontVecStores @@ FrontVecBits @@ FrontVecUnary @@ FrontVecAdds
        @@ FrontVecMinMax @@ FrontVecLess @@ FrontVecGreater @@ FrontVecFloats @@ FrontVecWidens @@ FrontVecFloatCompares
        @@ FrontVecRounds @@ FrontVecConverts @@ FrontVecShifts @@ FrontVecLanes
        @@ FrontAtomicWaits @@ FrontAtomicAccesses @@ FrontAtomicRmw @@ FrontAtomicCas

---------------------------------------------------------------------------
(* declareSignatures: the routines reached through the execution context.   *)
Routine(i) == IF i.t = "table" THEN "table_grow" ELSE i.n
RoutineSigs ==
    [grow |-> [params |-> <<"I64", "I32">>, results |-> <<"I32">>],
     table_grow |-> [params |-> <<"I64", "I32", "I32", "I64">>, results |-> <<"I32">>],
     func |-> [params |-> <<"I64", "I32">>, results |-> <<"I64">>],
     wait32 |-> [params |-> <<"I64", "I64", "I32", "I64">>, results |-> <<"I32">>],
     wait64 |-> [params |-> <<"I64", "I64", "I64", "I64">>, results |-> <<"I32">>],
     notify |-> [params |-> <<"I64", "I32", "I64">>, results |-> <<"I32">>]]

(* SignatureForWasmFunctionType: the execution and the module context first *)
CalleeSig(x) == [params |-> <<"I64", "I64">> \o SsaSeq(FuncTypes[x].params), results |-> SsaSeq(FuncTypes[x].results)]
SignatureOf(i) == IF i \in Calls THEN CalleeSig(i.x) ELSE RoutineSigs[Routine(i)]

(* The types of the arguments of the call an instruction is lowered to,     *)
(* given the values on the stack; the contexts, a table or function index   *)
(* and an address the lowering computes have fixed types.                   *)
NthPopped(st, k) == st[Len(st) - k + 1]
\* Mutant of ArgumentsOf: a wait passes its operands in the order they were pushed.
ArgumentsOfPushed(i, st) ==
    CASE i \in Calls ->
             LET n == Len(FuncTypes[i.x].params)
                 over == IF i.n = "call" THEN 0 ELSE 1
             IN  <<"I64", "I64">> \o SubSeq(st, Len(st) - over - n + 1, Len(st) - over)
      [] i.n = "grow" /\ i.t = "memory" -> <<"I64", NthPopped(st, 1)>>
      [] i.n = "grow" /\ i.t = "table" -> <<"I64", "I32", NthPopped(st, 1), NthPopped(st, 2)>>
      [] i.n = "func" -> <<"I64", "I32">>
      [] i.n \in {"wait32", "wait64"} -> <<"I64", NthPopped(st, 2), NthPopped(st, 1), "I64">>
      [] i.n = "notify" -> <<"I64", NthPopped(st, 1), "I64">>
ArgumentsOf(i, st) ==
    CASE i \in Calls ->
             LET n == Len(FuncTypes[i.x].params)
                 over == IF i.n = "call" THEN 0 ELSE 1
             IN  <<"I64", "I64">> \o SubSeq(st, Len(st) - over - n + 1, Len(st) - over)
      [] i.n = "grow" /\ i.t = "memory" -> <<"I64", NthPopped(st, 1)>>
      [] i.n = "grow" /\ i.t = "table" -> <<"I64", "I32", NthPopped(st, 1), NthPopped(st, 2)>>
      [] i.n = "func" -> <<"I64", "I32">>
      [] i.n \in {"wait32", "wait64"} -> <<"I64", NthPopped(st, 1), NthPopped(st, 2), "I64">>
      [] i.n = "notify" -> <<"I64", NthPopped(st, 1), "I64">>
IsCall(i) == Front[i].op \in {"Call", "CallIndirect"}

(* What the lowering leaves on its stack of SSA values.                     *)
TypField(f, st) ==
    CASE Typ[f.op] = "x" -> st[Len(st) - f.pop + 1]
      [] Typ[f.op] = "last" -> st[Len(st)]
      [] Typ[f.op] = "dst" -> f.dst
      [] OTHER -> Typ[f.op]
ResultsOf(i, st) ==
    CASE Front[i].op = "" -> <<>>
      [] Front[i].op = "var" -> <<Front[i].dst>>
      [] IsCall(i) -> SignatureOf(i).results
      [] Front[i].op \in DOMAIN ReturnTypes -> <<ReturnTypes[Front[i].op]>>
      [] OTHER -> <<TypField(Front[i], st)>>
Translated(i, st) == SubSeq(st, 1, Len(st) - Front[i].pop) \o ResultsOf(i, st)

(* What passDeadCodeElimination cannot drop of an instruction.              *)
KeptOpcodes(i) == ({Front[i].op} \cup Front[i].also) \cap (StrictEffects \cup TrapEffects)

---------------------------------------------------------------------------
(***************************************************************************)
(* The instruction selection of the two backends: for each SSA opcode that  *)
(* machine.LowerInstr (amd64/machine.go, arm64/lower_instr.go) has a case   *)
(* for, the lane shapes it accepts without a panic ("" for an opcode that   *)
(* takes none; Ireduce takes its result type).  An opcode that is missing   *)
(* reaches the default, which panics.                                       *)
(***************************************************************************)

Lanes == IntShapes \cup FloatShapes
For(opcodes, lanes) == [o \in opcodes |-> lanes]
Plain(opcodes) == For(opcodes, {""})

(* Which lane the frontend passes with the opcode of an instruction.        *)
ByWidth == [x \in {"8", "8x8"} |-> "i8x16"] @@ [x \in {"16", "16x4"} |-> "i16x8"]
               @@ [x \in {"32", "32x2"} |-> "i32x4"] @@ ("64" :> "i64x2")
Unlaned == {"Load", "VZeroExtLoad", "Vconst", "Vbnot", "Vband", "Vbandnot", "Vbor", "Vbxor", "Vbitselect",
            "VanyTrue", "Shuffle", "WideningPairwiseDotProductS"}
LaneArg(i) ==
    CASE Front[i].op = "Ireduce" -> Front[i].dst
      [] Front[i].op \in Unlaned -> ""
      [] i.t = "v128" /\ i.x \in DOMAIN ByWidth -> ByWidth[i.x]
      [] i \in VecNarrows \cup VecPairwise -> i.x
      [] i.n \in {"extend_low", "extend_high", "trunc_sat", "demote", "promote"} /\ i.x \in Lanes -> i.x
      [] i.t \in Lanes -> i.t
      [] OTHER -> ""

(* Every SSA instruction emitted with a lane of its own on the way: a       *)
(* product of extended lanes widens first, and storing a lane extracts it.  *)
Emitted(i) ==
    {<<Front[i].op, LaneArg(i)>>} \cup {<<o, "">> : o \in Front[i].also}
        \cup (IF i \in VecWidens /\ Front[i].op = "VImul" THEN {<<"Widen", i.x>>} ELSE {})
        \cup (IF i.n = "store_lane" THEN {<<"Extractlane", ByWidth[i.x]>>} ELSE {})

---------------------------------------------------------------------------
(* amd64.                                                                   *)

Amd64Scalars ==
    Plain({"Brz", "Brnz", "Jump", "BrTable", "Return", "Iconst", "F32const", "F64const", "Call", "CallIndirect",
           "Store", "Istore8", "Istore16", "Istore32", "Iadd", "Isub", "Imul", "Sdiv", "Udiv", "Srem", "Urem",
           "Band", "Bor", "Bxor", "Ishl", "Sshr", "Ushr", "Rotl", "Rotr", "Clz", "Ctz", "Popcnt",
           "Fadd", "Fsub", "Fmul", "Fdiv", "Fabs", "Fneg", "Ceil", "Floor", "Trunc", "Nearest", "Fmin", "Fmax",
           "Fcopysign", "Bitcast", "Sqrt", "Fpromote", "Fdemote", "FcvtToInt", "FcvtToIntSat", "FcvtFromInt"})
Amd64Sums ==
    For({"VIadd", "VIsub", "VIneg"}, IntShapes) @@ ("VImul" :> IntShapes \ {"i8x16"})
        @@ For({"VSaddSat", "VUaddSat", "VSsubSat", "VUsubSat"}, {"i8x16", "i16x8"})
        @@ For({"VFadd", "VFsub", "VFdiv", "VFmul"}, FloatShapes)
Amd64VecBits ==
    Plain({"VanyTrue", "Vbnot", "Vband", "Vbor", "Vbxor", "Vbandnot", "Vbitselect"})
        @@ For({"VallTrue", "VhighBits"}, IntShapes)
Amd64MinMax ==
    For({"VFneg", "VSqrt"}, FloatShapes) @@ For({"VImin", "VUmin", "VImax", "VUmax"}, IntShapes \ {"i64x2"})
        @@ ("VAvgRound" :> {"i8x16", "i16x8"})
Amd64Moves ==
    ("VIcmp" :> IntShapes) @@ ("VFcmp" :> FloatShapes) @@ For({"Extractlane", "Insertlane", "Splat"}, Lanes)
        @@ ("Swizzle" :> {"i8x16"}) @@ ("SqmulRoundSat" :> {"i16x8"}) @@ Plain({"Shuffle", "VZeroExtLoad"})
        @@ For({"VMinPseudo", "VMaxPseudo", "VCeil", "VFloor", "VTrunc", "VNearest"}, FloatShapes)
        @@ For({"VIshl", "VSshr", "VUshr"}, IntShapes) @@ ("ExtIaddPairwise" :> {"i8x16", "i16x8"})
        @@ ("Widen" :> IntShapes \ {"i64x2"}) @@ ("LoadSplat" :> IntShapes)
        @@ For({"VFcvtFromInt", "VFcvtToIntSat"}, FloatShapes) @@ ("Narrow" :> {"i16x8", "i32x4"})
        @@ ("FvpromoteLow" :> Lanes) @@ ("Fvdemote" :> Lanes) @@ Plain({"WideningPairwiseDotProductS"})
        @@ ("VIabs" :> IntShapes) @@ ("VIpopcnt" :> {"i8x16"}) @@ For({"VFmin", "VFmax", "VFabs"}, FloatShapes)
Amd64Control ==
    Plain({"ExitWithCode", "ExitIfTrueWithCode", "Load", "Uload8", "Uload16", "Uload32", "Sload8", "Sload16",
           "Sload32", "Vconst", "SExtend", "UExtend", "Icmp", "Fcmp", "Select", "AtomicLoad", "Fence",
           "AtomicStore", "AtomicCas", "AtomicRmw"})
        @@ ("Ireduce" :> {"I32"})
Amd64 == Amd64Scalars @@ Amd64VecBits @@ Amd64Sums @@ Amd64MinMax @@ Amd64Moves @@ Amd64Control

---------------------------------------------------------------------------
(* arm64.                                                                   *)

Arm64Scalars ==
    Plain({"Brz", "Brnz", "Jump", "BrTable", "Return", "Iadd", "Isub", "Fadd", "Fsub", "Fmul", "Fdiv", "Fmax",
           "Fmin", "Iconst", "F32const", "F64const", "ExitWithCode", "ExitIfTrueWithCode", "Store", "Istore8",
           "Istore16", "Istore32", "Load", "VZeroExtLoad", "Uload8", "Uload16", "Uload32", "Sload8", "Sload16",
           "Sload32", "Call", "CallIndirect", "Icmp", "Band", "Bor", "Bxor", "Ishl", "Sshr", "Ushr", "Rotl",
           "Rotr", "SExtend", "UExtend", "Fcmp", "Imul", "Select", "Clz", "Ctz", "Popcnt", "FcvtToInt",
           "FcvtToIntSat", "FcvtFromInt"})
        @@ ("VIcmp" :> IntShapes) @@ ("VFcmp" :> FloatShapes)
        @@ For({"VCeil", "VFloor", "VTrunc", "VNearest", "VMaxPseudo", "VMinPseudo"}, FloatShapes)
Arm64Casts ==
    Plain({"Fdemote", "Fpromote", "Fneg", "Sqrt", "Ceil", "Floor", "Trunc", "Nearest", "Fabs", "Bitcast",
           "Fcopysign", "Sdiv", "Udiv", "Srem", "Urem"})
        @@ ("Ireduce" :> {"I32"})
Arm64VecBits ==
    Plain({"Vconst", "Vbnot", "Vbxor", "Vbor", "Vband", "Vbandnot", "Vbitselect", "VanyTrue"})
        @@ For({"VallTrue", "VhighBits"}, IntShapes)
Arm64VecInts ==
    For({"VIadd", "VSaddSat", "VUaddSat", "VIsub", "VSsubSat", "VUsubSat", "VImin", "VUmin", "VImax", "VUmax",
         "VAvgRound", "VImul", "VIabs", "VIneg", "VIpopcnt", "VIshl", "VSshr", "VUshr"}, IntShapes)
        @@ ("ExtIaddPairwise" :> IntShapes \ {"i64x2"})
Arm64VecFloats ==
    For({"VSqrt", "VFabs", "VFneg", "VFmin", "VFmax", "VFadd", "VFsub", "VFmul", "VFdiv", "VFcvtToIntSat",
         "VFcvtFromInt"}, FloatShapes)
        @@ ("SqmulRoundSat" :> IntShapes) @@ ("Widen" :> IntShapes \ {"i64x2"})
Arm64Moves ==
    ("Narrow" :> {"i16x8", "i32x4"}) @@ ("FvpromoteLow" :> {"f32x4"}) @@ ("Fvdemote" :> {"f64x2"})
        @@ For({"Extractlane", "Insertlane", "Swizzle"}, Lanes) @@ Plain({"Shuffle"})
Arm64Rest ==
    ("Splat" :> Lanes) @@ ("LoadSplat" :> Lanes)
        @@ Plain({"WideningPairwiseDotProductS", "AtomicRmw", "AtomicCas", "AtomicLoad", "AtomicStore", "Fence"})
Arm64 == Arm64Scalars @@ Arm64Casts @@ Arm64VecBits @@ Arm64VecInts @@ Arm64VecFloats @@ Arm64Moves @@ Arm64Rest

(* Nothing the frontend emits for an instruction makes a backend panic; "",  *)
(* and "var" for a read of an SSA variable, emit nothing.                    *)
SelectedBy(table, i) ==
    \A e \in Emitted(i) :
        e[1] \notin {"", "var"} => e[1] \in DOMAIN table /\ e[2] \in table[e[1]]
Selectable == {i \in AllInstructions : SelectedBy(Amd64, i) /\ SelectedBy(Arm64, i)}
=============================================================================
