---------------------------- MODULE Instructions ----------------------------
(***************************************************************************)
(* One function body, an instruction at a time, through everything that     *)
(* keeps a stack about it: the validator (value types), the interpreter's   *)
(* compiler (IR types, locals below the operands), the optimising           *)
(* compiler's frontend (SSA types) and the interpreter that runs the        *)
(* emitted operations (64-bit slots).                                       *)
(*                                                                          *)
(* popValue of the interpreter checks nothing: "we can assume that all the  *)
(* operations are valid thanks to validateFunction".  The five tables of    *)
(* some five hundred instructions, written by hand and in different files,  *)
(* must therefore agree, on every stack.                                    *)
(***************************************************************************)
EXTENDS Validation, Interpreter, Frontend

CONSTANTS
    Callees,     \* how the functions called are implemented: wasm, raw, reflect
    MaxStack     \* bound on the operand stack

ASSUME CalleesAssumption == Callees \subseteq {"wasm", "raw", "reflect"} /\ MaxStack \in Nat

VARIABLES
    vst,         \* valueTypeStack: the validator's operand types
    cst,         \* compiler.stack: the IR types of the locals and the operands
    fst,         \* loweringState.values: the SSA types of the operands
    slots,       \* callEngine.stack of the frame: the locals and the operands
    globals,     \* GlobalInstance.Val and ValHi, one global of each type
    trapped      \* the instruction whose trap ended the last call, if one did

vars == <<vst, cst, fst, slots, globals, trapped>>

---------------------------------------------------------------------------
(* The emitted operations that depend on the compiler's stack.              *)

SlotLen(irs) == Len(irs) + Cardinality({k \in DOMAIN irs : irs[k] = "V128"})
LocalIndex(x) == CHOOSE k \in DOMAIN Locals : Locals[k] = x

(* localIndexToStackHeightInUint64 and localDepth.                          *)
LocalHeight(x) == SlotLen(IRSeq(SubSeq(Locals, 1, LocalIndex(x) - 1)))
LocalDepth(x, st) == SlotLen(st) - 1 - LocalHeight(x)

StackOp(k, depth, vec) == [k |-> k, depth |-> depth, vec |-> vec]
Width(x) == SlotCount(IRType[x])

EmitLocal(i, st) ==
    LET set == StackOp("Set", LocalDepth(i.x, st) + Width(i.x), i.x = "v128")
    IN  CASE i.n = "get" -> <<StackOp("Pick", LocalDepth(i.x, st) - Width(i.x), i.x = "v128")>>
          [] i.n = "set" -> <<set>>
          [] i.n = "tee" -> <<StackOp("Pick", Width(i.x) - 1, i.x = "v128"), set>>
\* Mutant of EmitDrop: a vector is dropped as one slot.
EmitDropNarrow(before) == <<StackOp("Drop", 0, FALSE)>>
EmitDrop(before) == <<StackOp("Drop", SlotCount(TopOf(before)) - 1, FALSE)>>
EmitSelect(after) == <<StackOp("Select", 0, TopOf(after) = "V128")>>

---------------------------------------------------------------------------
(* The interpreter, on those operations.                                    *)

Pushed(st, tags) == st \o tags
Cut(st, n) == SubSeq(st, 1, Len(st) - n)
(* The slot op.depth below the top; a depth outside of the stack is an      *)
(* index out of range panic.                                                *)
At(st, depth) == Len(st) - depth

Pick(o, st) == Pushed(st, IF o.vec THEN SubSeq(st, At(st, o.depth), At(st, o.depth) + 1) ELSE <<st[At(st, o.depth)]>>)
SetSlot(o, st) ==
    IF o.vec THEN Cut([st EXCEPT ![At(st, o.depth)] = st[Len(st) - 1], ![At(st, o.depth) + 1] = st[Len(st)]], 2)
             ELSE Cut([st EXCEPT ![At(st, o.depth)] = st[Len(st)]], 1)
DropSlots(o, st) == Cut(st, o.depth + 1)
(* A zero condition keeps the upper value, any other the lower one.         *)
SelectSlots(o, st) ==
    LET w == IF o.vec THEN 2 ELSE 1
        upper == SubSeq(st, Len(st) - w, Len(st) - 1)
    IN  {Cut(st, w + 1), Pushed(Cut(st, 2 * w + 1), upper)}
Ran(o, st) == CASE o.k = "Pick" -> Pick(o, st) [] o.k = "Set" -> SetSlot(o, st) [] o.k = "Drop" -> DropSlots(o, st)

(* Xor is the one 32-bit operation emitted as a 64-bit one: the result has  *)
(* an upper half of zero only if both operands have.                        *)
XorTags(o, st) ==
    IF o.b1 = "I32" \/ (st[Len(st)] = "lo" /\ st[Len(st) - 1] = "lo") THEN <<"lo">> ELSE <<"any">>
Executed(o, st) ==
    IF o.k = "Xor" THEN Pushed(Cut(st, 2), XorTags(o, st))
                   ELSE Pushed(Cut(st, Effects[o].pop), Effects[o].push)
MayTrap(o) == o.k # "Xor" /\ Effects[o].trap

(* The slots of a value of a type, as the engine's own code encodes it.     *)
TagsOfType(t) == TagOfIR[IRType[t]]
RECURSIVE TagsOf(_)
TagsOf(ts) == IF ts = <<>> THEN <<>> ELSE TagsOfType(Head(ts)) \o TagsOf(Tail(ts))

(* A function in WebAssembly leaves the slots of its own result types, and  *)
(* a Go function over the raw stack is told to encode them likewise.        *)
(* callGoFunc encodes the result of a reflected function by its Go kind:    *)
(* an int32, like an int64, is converted through reflect.Value.Int.  It has *)
(* no vectors.                                                              *)
ReflectTags(t) == IF t = "i32" THEN {"lo", "any"} ELSE {TagsOfType(t)[1]}
CalleeResults(callee, ts) ==
    IF callee # "reflect" THEN {TagsOf(ts)}
    ELSE IF \E k \in DOMAIN ts : ts[k] = "v128" THEN {}
    ELSE {tags \in [DOMAIN ts -> {"lo", "any"}] : \A k \in DOMAIN ts : tags[k] \in ReflectTags(ts[k])}
CallSlots(i, st) ==
    LET callee == Cut(st, SlotLen(Signatures[i].in))
    IN  {Pushed(callee, tags) : tags \in UNION {CalleeResults(c, FuncTypes[i.x].results) : c \in Callees}}

---------------------------------------------------------------------------
Init ==
    /\ vst = <<>> /\ cst = IRSeq(Locals) /\ fst = <<>>
    /\ slots = TagsOf(Locals)
    /\ globals = [t \in ValueTypes |-> TagsOfType(t)]
    /\ trapped = {}

(* The compilers follow the validator on stacks of their own.  applyToStack *)
(* refuses an instruction whose operands are not on its stack.              *)
Compilable(i) ==
    /\ SignatureFits(Signatures[i], cst)
    /\ Len(fst) >= Front[i].pop
    /\ IsCall(i) => ArgumentsOf(i, fst) = SignatureOf(i).params
    /\ i \in Selectable
Compile(i) ==
    /\ vst' = Validated(i, vst)
    /\ cst' = AppliedToStack(Signatures[i], cst)
    /\ fst' = Translated(i, fst)

(* An instruction a body can have next, within the bound.                   *)
InBody(i) == trapped = {} /\ Accepts(i, vst) /\ Len(Validated(i, vst)) <= MaxStack

DoLocal(i) ==
    /\ i.t = "local" /\ InBody(i) /\ Compilable(i) /\ Compile(i)
    /\ \E ops \in {EmitLocal(i, cst')} :
           slots' = IF Len(ops) = 1 THEN Ran(ops[1], slots) ELSE Ran(ops[2], Ran(ops[1], slots))
    /\ UNCHANGED <<globals, trapped>>

DoDrop(i) ==
    /\ i.n = "drop" /\ InBody(i) /\ Compilable(i) /\ Compile(i)
    /\ slots' = Ran(EmitDrop(cst)[1], slots)
    /\ UNCHANGED <<globals, trapped>>

DoSelect(i) ==
    /\ i.n # "drop" /\ InBody(i) /\ Compilable(i) /\ Compile(i)
    /\ slots' \in SelectSlots(EmitSelect(cst')[1], slots)
    /\ UNCHANGED <<globals, trapped>>

DoGlobalGet(i) ==
    /\ i.n = "get" /\ InBody(i) /\ Compilable(i) /\ Compile(i)
    /\ slots' = Pushed(slots, globals[i.x])
    /\ UNCHANGED <<globals, trapped>>

DoGlobalSet(i) ==
    /\ i.n = "set" /\ InBody(i) /\ Compilable(i) /\ Compile(i)
    /\ slots' = Cut(slots, Width(i.x))
    /\ globals' = [globals EXCEPT ![i.x] = SubSeq(slots, Len(slots) - Width(i.x) + 1, Len(slots))]
    /\ UNCHANGED trapped

DoCall(i) ==
    /\ InBody(i) /\ Compilable(i) /\ Compile(i)
    /\ slots' \in CallSlots(i, slots)
    /\ UNCHANGED <<globals, trapped>>

Execute(i) ==
    /\ InBody(i) /\ Compilable(i) /\ Compile(i)
    /\ slots' = Executed(Lower[i], slots)
    /\ UNCHANGED <<globals, trapped>>

(* A trap ends the call.  The globals it has set keep their values.         *)
Trap(i) ==
    /\ InBody(i) /\ Compilable(i) /\ MayTrap(Lower[i])
    /\ vst' = <<>> /\ cst' = IRSeq(Locals) /\ fst' = <<>> /\ slots' = TagsOf(Locals)
    /\ trapped' = {i}
    /\ UNCHANGED globals

(* The next call of the function, after a trap.                             *)
CallAgain ==
    /\ trapped # {}
    /\ trapped' = {}
    /\ UNCHANGED <<vst, cst, fst, slots, globals>>

Next ==
    \/ \E i \in Variables : DoLocal(i)
    \/ \E i \in {v \in Variables : v.t = "global"} : DoGlobalGet(i) \/ DoGlobalSet(i)
    \/ \E i \in Parametric : DoDrop(i) \/ DoSelect(i)
    \/ \E i \in Calls : DoCall(i)
    \/ \E i \in DOMAIN Lower : Execute(i) \/ Trap(i)
    \/ CallAgain

Spec == Init /\ [][Next]_vars

---------------------------------------------------------------------------
(* Whatever the validator of func_validation.go accepts, both compilers can *)
(* compile: applyToStack finds the signature's operands on its stack, and   *)
(* the frontend has the values it pops and calls every function and         *)
(* trampoline with arguments of the declared types; and each backend has a  *)
(* case, for that lane shape, for every SSA instruction emitted.            *)
AcceptedCodeCompiles == \A i \in AllInstructions : InBody(i) => Compilable(i)

(* The three static stacks stay images of one another: the interpreter's    *)
(* compiler has the IR types of the locals and of the validator's operands, *)
(* the frontend the SSA types, and no instruction makes them drift apart.   *)
StaticStacksAgree == cst = IRSeq(Locals \o vst) /\ fst = SsaSeq(vst)

(* The slots popValue takes unchecked are laid out as the validator's types *)
(* say, two for a vector and low half first, and a 32-bit value has a zero  *)
(* upper half: the interpreter compares, tests and branches on all 64 bits. *)
Holds(tags, t) == IF IRType[t] \in {"I64", "F64"} THEN tags \in {<<"lo">>, <<"any">>} ELSE tags = TagsOfType(t)
RECURSIVE LaidOut(_, _)
LaidOut(st, ts) ==
    IF ts = <<>> THEN st = <<>>
    ELSE /\ Len(st) >= Width(Head(ts))
         /\ Holds(SubSeq(st, 1, Width(Head(ts))), Head(ts))
         /\ LaidOut(SubSeq(st, Width(Head(ts)) + 1, Len(st)), Tail(ts))
SlotsMatchTypes == LaidOut(slots, Locals \o vst) /\ \A t \in ValueTypes : Holds(globals[t], t)

(* An instruction that can trap in the interpreter leaves the frontend an   *)
(* SSA instruction that can trap or exit too, and that dead code            *)
(* elimination keeps, also when its result is dropped: the two engines trap *)
(* on the same programs.  A store itself does not count, its check does.    *)
TrapsSurviveOptimisation == \A i \in trapped : KeptOpcodes(i) \cap (Exits \cup TrapEffects) # {}
=============================================================================
