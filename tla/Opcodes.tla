------------------------------ MODULE Opcodes ------------------------------
(***************************************************************************)
(* The WebAssembly instructions internal/wasm/instruction.go names, without *)
(* the structured control instructions, which module ControlFlow models.    *)
(*                                                                          *)
(* An instruction is a record: its type prefix t, its name n, its sign s    *)
(* and an extra part x (the width of an access, the source type of a        *)
(* conversion, the type of the variable or table an index names).  Indices  *)
(* are abstracted to what the engine tells apart about the thing they name: *)
(* a local, a global and a table are identified by their value type, a      *)
(* function by the name of its type.                                        *)
(***************************************************************************)
EXTENDS Naturals, Sequences, FiniteSets, TLC

CONSTANTS
    Locals,      \* the value types of the function's parameters and locals, no two alike
    FuncTypes    \* name of a function type -> [params, results], sequences of value types

Ints == {"i32", "i64"}
Floats == {"f32", "f64"}
RefTypes == {"funcref", "externref"}
ValueTypes == Ints \cup Floats \cup {"v128"} \cup RefTypes

ASSUME LocalsAssumption ==
    /\ Locals \in Seq(ValueTypes)
    /\ \A i, j \in DOMAIN Locals : Locals[i] = Locals[j] => i = j

ASSUME FuncTypesAssumption ==
    \A f \in DOMAIN FuncTypes :
        FuncTypes[f].params \in Seq(ValueTypes) /\ FuncTypes[f].results \in Seq(ValueTypes)

Ins(T, N, S, X) == [t : T, n : N, s : S, x : X]
No == {""}

---------------------------------------------------------------------------
(* Calls, variables, parametric instructions, tables and references.        *)

LocalTypes == {Locals[i] : i \in DOMAIN Locals}
Calls == Ins({"fn"}, {"call", "call_indirect"}, No, DOMAIN FuncTypes)
Parametric == Ins({"any"}, {"drop", "select"}, No, No) \cup Ins({"any"}, {"select_t"}, No, ValueTypes)
Variables == Ins({"local"}, {"get", "set", "tee"}, No, LocalTypes)
                 \cup Ins({"global"}, {"get", "set"}, No, ValueTypes)
TableAccess == Ins({"table"}, {"get", "set"}, No, RefTypes)
References == Ins({"ref"}, {"null"}, No, RefTypes) \cup Ins({"ref"}, {"is_null", "func"}, No, No)

(* Memory and the numeric instructions.                                     *)
Loads == Ins(Ints \cup Floats, {"load"}, No, {"full"})
             \cup Ins(Ints, {"load"}, {"s", "u"}, {"8", "16"})
             \cup Ins({"i64"}, {"load"}, {"s", "u"}, {"32"})
Stores == Ins(Ints \cup Floats, {"store"}, No, {"full"})
              \cup Ins(Ints, {"store"}, No, {"8", "16"})
              \cup Ins({"i64"}, {"store"}, No, {"32"})
MemorySize == Ins({"memory"}, {"size", "grow"}, No, No)
Consts == Ins(Ints \cup Floats, {"const"}, No, No)
IntTests == Ins(Ints, {"eqz"}, No, No)
IntCompares == Ins(Ints, {"eq", "ne"}, No, No) \cup Ins(Ints, {"lt", "gt", "le", "ge"}, {"s", "u"}, No)
FloatCompares == Ins(Floats, {"eq", "ne", "lt", "gt", "le", "ge"}, No, No)
IntUnary == Ins(Ints, {"clz", "ctz", "popcnt"}, No, No)
IntBinary == Ins(Ints, {"add", "sub", "mul", "and", "or", "xor", "shl", "rotl", "rotr"}, No, No)
                 \cup Ins(Ints, {"div", "rem", "shr"}, {"s", "u"}, No)
FloatUnary == Ins(Floats, {"abs", "neg", "ceil", "floor", "trunc", "nearest", "sqrt"}, No, No)
FloatBinary == Ins(Floats, {"add", "sub", "mul", "div", "min", "max", "copysign"}, No, No)
Truncations == Ins(Ints, {"trunc"}, {"s", "u"}, Floats)
IntConversions == Ins({"i32"}, {"wrap"}, No, {"i64"}) \cup Ins({"i64"}, {"extend"}, {"s", "u"}, {"i32"})
FloatConversions == Ins(Floats, {"convert"}, {"s", "u"}, Ints)
                        \cup Ins({"f32"}, {"demote"}, No, {"f64"})
                        \cup Ins({"f64"}, {"promote"}, No, {"f32"})
Reinterpretations == Ins({"i32"}, {"reinterpret"}, No, {"f32"}) \cup Ins({"i64"}, {"reinterpret"}, No, {"f64"})
                         \cup Ins({"f32"}, {"reinterpret"}, No, {"i32"})
                         \cup Ins({"f64"}, {"reinterpret"}, No, {"i64"})
SignExtensions == Ins(Ints, {"extend"}, {"s"}, {"8", "16"}) \cup Ins({"i64"}, {"extend"}, {"s"}, {"32"})

(* The instructions behind the misc prefix.                                 *)
SatTruncations == Ins(Ints, {"trunc_sat"}, {"s", "u"}, Floats)
BulkMemory == Ins({"memory"}, {"init", "copy", "fill"}, No, No) \cup Ins({"data"}, {"drop"}, No, No)
BulkTable == Ins({"table"}, {"init", "copy"}, No, RefTypes) \cup Ins({"elem"}, {"drop"}, No, No)
TableSize == Ins({"table"}, {"grow", "size", "fill"}, No, RefTypes)

---------------------------------------------------------------------------
(* The instructions behind the vector prefix; t is the shape.               *)

IntShapes == {"i8x16", "i16x8", "i32x4", "i64x2"}
FloatShapes == {"f32x4", "f64x2"}
VecLoads == Ins({"v128"}, {"load"}, No, {"full", "32zero", "64zero"})
                \cup Ins({"v128"}, {"load"}, {"s", "u"}, {"8x8", "16x4", "32x2"})
                \cup Ins({"v128"}, {"load_splat", "load_lane"}, No, {"8", "16", "32", "64"})
VecStores == Ins({"v128"}, {"store"}, No, {"full"}) \cup Ins({"v128"}, {"store_lane"}, No, {"8", "16", "32", "64"})
VecConst == Ins({"v128"}, {"const"}, No, No)
VecLanes == Ins({"i8x16", "i16x8"}, {"extract_lane"}, {"s", "u"}, No)
                \cup Ins({"i32x4", "i64x2"} \cup FloatShapes, {"extract_lane"}, No, No)
                \cup Ins(IntShapes \cup FloatShapes, {"replace_lane"}, No, No)
VecSplats == Ins(IntShapes \cup FloatShapes, {"splat"}, No, No)
VecPermutes == Ins({"i8x16"}, {"swizzle", "shuffle"}, No, No)
VecCompares == Ins(IntShapes, {"eq", "ne"}, No, No)
                   \cup Ins(IntShapes \ {"i64x2"}, {"lt", "gt", "le", "ge"}, {"s", "u"}, No)
                   \cup Ins({"i64x2"}, {"lt", "gt", "le", "ge"}, {"s"}, No)
                   \cup Ins(FloatShapes, {"eq", "ne", "lt", "gt", "le", "ge"}, No, No)
VecBitwise == Ins({"v128"}, {"not", "and", "andnot", "or", "xor", "bitselect"}, No, No)
VecTests == Ins({"v128"}, {"any_true"}, No, No) \cup Ins(IntShapes, {"all_true", "bitmask"}, No, No)
VecShifts == Ins(IntShapes, {"shl"}, No, No) \cup Ins(IntShapes, {"shr"}, {"s", "u"}, No)
VecIntUnary == Ins(IntShapes, {"abs", "neg"}, No, No) \cup Ins({"i8x16"}, {"popcnt"}, No, No)
VecIntBinary == Ins(IntShapes, {"add", "sub"}, No, No)
                    \cup Ins(IntShapes \ {"i8x16"}, {"mul"}, No, No)
                    \cup Ins({"i8x16", "i16x8"}, {"add_sat", "sub_sat"}, {"s", "u"}, No)
                    \cup Ins({"i8x16", "i16x8"}, {"avgr"}, {"u"}, No)
                    \cup Ins(IntShapes \ {"i64x2"}, {"min", "max"}, {"s", "u"}, No)
                    \cup Ins({"i16x8"}, {"q15mulr_sat"}, {"s"}, No)
                    \cup Ins({"i32x4"}, {"dot"}, {"s"}, {"i16x8"})
Wider == [i8x16 |-> "i16x8", i16x8 |-> "i32x4", i32x4 |-> "i64x2"]
VecNarrows == Ins({"i8x16"}, {"narrow"}, {"s", "u"}, {"i16x8"}) \cup Ins({"i16x8"}, {"narrow"}, {"s", "u"}, {"i32x4"})
VecWidens == UNION {Ins({Wider[h]}, {"extend_low", "extend_high", "extmul_low", "extmul_high"}, {"s", "u"}, {h})
                    : h \in DOMAIN Wider}
VecPairwise == Ins({"i16x8"}, {"extadd_pairwise"}, {"s", "u"}, {"i8x16"})
                   \cup Ins({"i32x4"}, {"extadd_pairwise"}, {"s", "u"}, {"i16x8"})
VecFloatUnary == Ins(FloatShapes, {"abs", "neg", "sqrt", "ceil", "floor", "trunc", "nearest"}, No, No)
VecFloatBinary == Ins(FloatShapes, {"add", "sub", "mul", "div", "min", "max", "pmin", "pmax"}, No, No)
VecConversions == Ins({"i32x4"}, {"trunc_sat"}, {"s", "u"}, FloatShapes)
                      \cup Ins(FloatShapes, {"convert"}, {"s", "u"}, {"i32x4"})
                      \cup Ins({"f32x4"}, {"demote"}, No, {"f64x2"})
                      \cup Ins({"f64x2"}, {"promote"}, No, {"f32x4"})

---------------------------------------------------------------------------
(* The instructions behind the atomic prefix.                               *)

AtomicWaits == Ins({"memory"}, {"notify", "wait32", "wait64", "fence"}, No, No)
AtomicWidths(n) == Ins(Ints, {n}, No, {"full", "8", "16"}) \cup Ins({"i64"}, {n}, No, {"32"})
AtomicLoads == AtomicWidths("atomic_load")
AtomicStores == AtomicWidths("atomic_store")
RmwOperators == {"rmw_add", "rmw_sub", "rmw_and", "rmw_or", "rmw_xor", "rmw_xchg"}
AtomicRmw == UNION {AtomicWidths(n) : n \in RmwOperators}
AtomicCmpxchg == AtomicWidths("rmw_cmpxchg")

AllInstructions ==
    UNION {Calls, Parametric, Variables, TableAccess, References,
           Loads, Stores, MemorySize, Consts, IntTests, IntCompares, FloatCompares,
           IntUnary, IntBinary, FloatUnary, FloatBinary, Truncations, IntConversions,
           FloatConversions, Reinterpretations, SignExtensions,
           SatTruncations, BulkMemory, BulkTable, TableSize,
           VecLoads, VecStores, VecConst, VecLanes, VecSplats, VecPermutes, VecCompares,
           VecBitwise, VecTests, VecShifts, VecIntUnary, VecIntBinary, VecNarrows, VecWidens,
           VecPairwise, VecFloatUnary, VecFloatBinary, VecConversions,
           AtomicWaits, AtomicLoads, AtomicStores, AtomicRmw, AtomicCmpxchg}
=============================================================================
