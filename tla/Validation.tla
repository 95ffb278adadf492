----------------------------- MODULE Validation -----------------------------
(***************************************************************************)
(* What internal/wasm/func_validation.go requires of one instruction: the   *)
(* value types it pops and pushes.                                          *)
(*                                                                          *)
(* A rule is [in, out]: the operand types from the deepest to the top of    *)
(* the stack, and the result types.  Features are all enabled, the module   *)
(* has a memory, one table and one global of each type (globals mutable),   *)
(* a data count section, and declares the functions ref.func names; the     *)
(* immediates (alignments, lanes, indices) are in range.                    *)
(***************************************************************************)
EXTENDS Opcodes

Rule(ins, outs) == [in |-> ins, out |-> outs]

(* Scalar loads and stores.                                                 *)
AccessRules == [i \in Loads |-> Rule(<<"i32">>, <<i.t>>)]
                   @@ [i \in Stores |-> Rule(<<"i32", i.t>>, <<>>)]
MemorySizeRules == [i \in MemorySize |-> Rule(IF i.n = "grow" THEN <<"i32">> ELSE <<>>, <<"i32">>)]
ConstRules == [i \in Consts |-> Rule(<<>>, <<i.t>>)]
VariableRules ==
    [i \in Variables |-> Rule(IF i.n = "get" THEN <<>> ELSE <<i.x>>,
                              IF i.n = "set" THEN <<>> ELSE <<i.x>>)]
CallRules ==
    [i \in Calls |-> Rule(FuncTypes[i.x].params \o (IF i.n = "call_indirect" THEN <<"i32">> ELSE <<>>),
                          FuncTypes[i.x].results)]

(* The numeric instructions.                                                *)
CompareRules == [i \in IntTests |-> Rule(<<i.t>>, <<"i32">>)]
                    @@ [i \in IntCompares \cup FloatCompares |-> Rule(<<i.t, i.t>>, <<"i32">>)]
ArithmeticRules == [i \in IntUnary \cup FloatUnary |-> Rule(<<i.t>>, <<i.t>>)]
                       @@ [i \in IntBinary \cup FloatBinary |-> Rule(<<i.t, i.t>>, <<i.t>>)]
ConversionRules ==
    [i \in Truncations \cup IntConversions \cup FloatConversions \cup Reinterpretations |-> Rule(<<i.x>>, <<i.t>>)]
SignExtensionRules == [i \in SignExtensions |-> Rule(<<i.t>>, <<i.t>>)]

(* References and tables; ref.is_null takes either reference type, see Pops *)
ReferenceRules ==
    [i \in References |->
        CASE i.n = "null" -> Rule(<<>>, <<i.x>>)
          [] i.n = "is_null" -> Rule(<<"ref">>, <<"i32">>)
          [] i.n = "func" -> Rule(<<>>, <<"funcref">>)]
TableAccessRules ==
    [i \in TableAccess |-> IF i.n = "get" THEN Rule(<<"i32">>, <<i.x>>) ELSE Rule(<<"i32", i.x>>, <<>>)]

(* The misc prefix.                                                         *)
SatTruncationRules == [i \in SatTruncations |-> Rule(<<i.x>>, <<i.t>>)]
BulkRules ==
    [i \in BulkMemory \cup BulkTable |-> Rule(IF i.n = "drop" THEN <<>> ELSE <<"i32", "i32", "i32">>, <<>>)]
TableSizeRules ==
    [i \in TableSize |->
        CASE i.n = "grow" -> Rule(<<i.x, "i32">>, <<"i32">>)
          [] i.n = "size" -> Rule(<<>>, <<"i32">>)
          [] i.n = "fill" -> Rule(<<"i32", i.x, "i32">>, <<>>)]

(* The vector prefix.                                                       *)
LaneType == [i8x16 |-> "i32", i16x8 |-> "i32", i32x4 |-> "i32", i64x2 |-> "i64", f32x4 |-> "f32", f64x2 |-> "f64"]
Unary128 == Rule(<<"v128">>, <<"v128">>)
Binary128 == Rule(<<"v128", "v128">>, <<"v128">>)
VecTestRules == [i \in VecConst |-> Rule(<<>>, <<"v128">>)] @@ [i \in VecTests |-> Rule(<<"v128">>, <<"i32">>)]
VecLoadRules ==
    [i \in VecLoads |-> Rule(IF i.n = "load_lane" THEN <<"i32", "v128">> ELSE <<"i32">>, <<"v128">>)]
VecStoreRules == [i \in VecStores |-> Rule(<<"i32", "v128">>, <<>>)]
VecLaneRules ==
    [i \in VecLanes |-> IF i.n = "extract_lane" THEN Rule(<<"v128">>, <<LaneType[i.t]>>)
                                                ELSE Rule(<<"v128", LaneType[i.t]>>, <<"v128">>)]
VecSplatRules == [i \in VecSplats |-> Rule(<<LaneType[i.t]>>, <<"v128">>)]
VecBitwiseRules ==
    [i \in VecPermutes |-> Binary128]
        @@ [i \in VecBitwise |-> CASE i.n = "not" -> Unary128
                                   [] i.n = "bitselect" -> Rule(<<"v128", "v128", "v128">>, <<"v128">>)
                                   [] OTHER -> Binary128]
VecShiftRules == [i \in VecShifts |-> Rule(<<"v128", "i32">>, <<"v128">>)]
VecCompareRules == [i \in VecCompares |-> Binary128]
IsExtend(i) == i.n \in {"extend_low", "extend_high"}
VecUnaryRules ==
    [i \in UNION {VecIntUnary, VecFloatUnary, VecPairwise, VecConversions, {w \in VecWidens : IsExtend(w)}}
        |-> Unary128]
VecBinaryRules ==
    [i \in UNION {VecIntBinary, VecFloatBinary, VecNarrows, {w \in VecWidens : ~IsExtend(w)}} |-> Binary128]

(* The atomic prefix.                                                       *)
AtomicWaitRules ==
    [i \in AtomicWaits |->
        CASE i.n = "notify" -> Rule(<<"i32", "i32">>, <<"i32">>)
          [] i.n = "wait32" -> Rule(<<"i32", "i32", "i64">>, <<"i32">>)
          [] i.n = "wait64" -> Rule(<<"i32", "i64", "i64">>, <<"i32">>)
          [] i.n = "fence" -> Rule(<<>>, <<>>)]
AtomicLoadRules == [i \in AtomicLoads |-> Rule(<<"i32">>, <<i.t>>)]
AtomicStoreRules == [i \in AtomicStores |-> Rule(<<"i32", i.t>>, <<>>)]
AtomicRmwRules == [i \in AtomicRmw |-> Rule(<<"i32", i.t>>, <<i.t>>)]
AtomicCmpxchgRules == [i \in AtomicCmpxchg |-> Rule(<<"i32", i.t, i.t>>, <<i.t>>)]

Rules ==
    AccessRules @@ MemorySizeRules @@ ConstRules @@ VariableRules @@ CallRules
        @@ CompareRules @@ ArithmeticRules @@ ConversionRules @@ SignExtensionRules
        @@ ReferenceRules @@ TableAccessRules @@ SatTruncationRules @@ BulkRules @@ TableSizeRules
        @@ VecTestRules @@ VecLoadRules @@ VecStoreRules @@ VecLaneRules @@ VecSplatRules
        @@ VecBitwiseRules @@ VecShiftRules @@ VecCompareRules @@ VecUnaryRules @@ VecBinaryRules
        @@ AtomicWaitRules @@ AtomicLoadRules @@ AtomicStoreRules @@ AtomicRmwRules @@ AtomicCmpxchgRules

---------------------------------------------------------------------------
(* valueTypeStack, on the reachable code this module is about.              *)

(* popAndVerifyType for every operand.                                      *)
Pops(st, ins) ==
    /\ Len(st) >= Len(ins)
    /\ \A k \in 1..Len(ins) :
           LET have == st[Len(st) - Len(ins) + k]
           IN  have = ins[k] \/ (ins[k] = "ref" /\ have \in RefTypes)
Below(st, n) == SubSeq(st, 1, Len(st) - n)

(* drop takes any value, select two of one type that is not a reference     *)
(* unless the instruction is typed; the type immediate of a typed select is *)
(* only checked to be a value type.                                         *)
SelectOK(i, st) ==
    /\ Len(st) >= 3 /\ st[Len(st)] = "i32"
    /\ st[Len(st) - 1] = st[Len(st) - 2]
    /\ i.n = "select" => st[Len(st) - 1] \notin RefTypes

Accepts(i, st) ==
    CASE i.n = "drop" /\ i.t = "any" -> st # <<>>
      [] i.n \in {"select", "select_t"} -> SelectOK(i, st)
      [] OTHER -> Pops(st, Rules[i].in)

Validated(i, st) ==
    CASE i.n = "drop" /\ i.t = "any" -> Below(st, 1)
      [] i.n \in {"select", "select_t"} -> Below(st, 3) \o <<st[Len(st) - 1]>>
      [] OTHER -> Below(st, Len(Rules[i].in)) \o Rules[i].out
=============================================================================
