------------------------- MODULE ControlInterpreter -------------------------
(***************************************************************************)
(* Control flow in internal/engine/interpreter: compiler.go turns the       *)
(* structured instructions into branches to labels, with the range of slots *)
(* each branch drops; lowerIR resolves the labels; callNativeFunc runs the  *)
(* result.                                                                  *)
(*                                                                          *)
(* The compiler is c = [st, frames, next, on, depth, ops]: its type stack,  *)
(* control frames, last frame ID, unreachableState and the operations       *)
(* emitted.  Its stack starts with the function's one local.                *)
(***************************************************************************)
EXTENDS ControlValidation

WidthOf(t) == IF t = "v128" THEN 2 ELSE 1
RECURSIVE Slots(_)
Slots(ts) == IF ts = <<>> THEN 0 ELSE WidthOf(Head(ts)) + Slots(Tail(ts))

---------------------------------------------------------------------------
(* Operations and labels.                                                   *)

LabelAt(kind, id) == [kind |-> kind, id |-> id]
ReturnLabel == LabelAt("return", 0)
NopRange == [s |-> -1, e |-> -1]
Operation(k) == [k |-> k, to |-> <<>>, drops |-> <<>>, depth |-> 0, val |-> <<>>]
OpLabel(l) == [Operation("Label") EXCEPT !.to = <<l>>]
OpBr(l) == [Operation("Br") EXCEPT !.to = <<l>>]
OpBrIf(then, else, drop) == [Operation("BrIf") EXCEPT !.to = <<then, else>>, !.drops = <<drop>>]
OpBrTable(labels, drops) == [Operation("BrTable") EXCEPT !.to = labels, !.drops = drops]
OpDrop(r) == [Operation("Drop") EXCEPT !.drops = <<r>>]
OpConst(slots) == [Operation("Const") EXCEPT !.val = slots]
OpPick(depth) == [Operation("Pick") EXCEPT !.depth = depth]
OpSet(depth) == [Operation("Set") EXCEPT !.depth = depth]

(* emit drops everything while the code is unreachable, and nop drops.      *)
Emit(c, ops) ==
    IF c.on THEN c
    ELSE [c EXCEPT !.ops = @ \o SelectSeq(ops, LAMBDA o : o.k # "Drop" \/ o.drops[1] # NopRange)]

---------------------------------------------------------------------------
(* Control frames.                                                          *)

Frame(id, kind, bt, len) == [id |-> id, kind |-> kind, bt |-> bt, len |-> len]
TopFrame(c) == Last(c.frames)
FrameAt(c, k) == c.frames[Len(c.frames) - k]
AsLabel(f) ==
    CASE f.kind = "Loop" -> LabelAt("header", f.id)
      [] f.kind = "Function" -> ReturnLabel
      [] OTHER -> LabelAt("continuation", f.id)
\* Mutant of EnsureContinuation: the target of a branch is not marked.
EnsureContinuationLate(c, k) == c
EnsureContinuation(c, k) ==
    [c EXCEPT !.frames[Len(c.frames) - k].kind = IF @ = "BlockWithoutContinuation" THEN "BlockWithContinuation" ELSE @]

(* getFrameDropRange, in slots: originalStackLenWithoutParamUint64 is the   *)
(* slots of the values below the frame.                                     *)
\* Mutant of FrameDropRange: the lowest slot of the range is left out.
FrameDropRangeShort(c, f, isEnd) ==
    LET start == Slots(IF ~isEnd /\ f.kind = "Loop" THEN Params(f.bt) ELSE Results(f.bt))
        end == Slots(c.st) - 2 - Slots(SubSeq(c.st, 1, f.len))
    IN  IF start <= end THEN [s |-> start, e |-> end] ELSE NopRange
FrameDropRange(c, f, isEnd) ==
    LET start == Slots(IF ~isEnd /\ f.kind = "Loop" THEN Params(f.bt) ELSE Results(f.bt))
        end == Slots(c.st) - 1 - Slots(SubSeq(c.st, 1, f.len))
    IN  IF start <= end THEN [s |-> start, e |-> end] ELSE NopRange

(* stackSwitchAt, and the types pushed after it.                            *)
\* Mutant of StackSwitchAt: what the block left is not dropped.
StackSwitchAtTop(c, f, ts) == [c EXCEPT !.st = @ \o ts]
StackSwitchAt(c, f, ts) == [c EXCEPT !.st = SubSeq(@, 1, f.len) \o ts]
MarkDead(c) == [c EXCEPT !.on = TRUE]
PopType(c) == [c EXCEPT !.st = Front(@)]
PushFrame(c, kind, bt) ==
    [c EXCEPT !.next = @ + 1,
              !.frames = Append(@, Frame(c.next + 1, kind, bt, Len(c.st) - Len(Params(bt))))]

(* compile: the local's default value, then the function's frame.           *)
CompilerStart ==
    [st |-> <<"i32">>, frames |-> <<Frame(1, "Function", "fn", 0)>>, next |-> 1, on |-> FALSE, depth |-> 0,
     ops |-> <<OpConst(<<0>>)>>]

---------------------------------------------------------------------------
(* handleInstruction.                                                       *)

(* A block in unreachable code is only counted.                             *)
Skip(c) == [c EXCEPT !.depth = @ + 1]
CompileBlock(c, i) == IF c.on THEN Skip(c) ELSE PushFrame(c, "BlockWithoutContinuation", i.bt)
CompileLoop(c, i) ==
    IF c.on THEN Skip(c)
    ELSE LET d == PushFrame(c, "Loop", i.bt)
             header == LabelAt("header", d.next)
         IN  Emit(d, <<OpBr(header), OpLabel(header)>>)
CompileIf(c, i) ==
    IF c.on THEN Skip(c)
    ELSE LET d == PushFrame(PopType(c), "IfWithoutElse", i.bt)
         IN  Emit(d, <<OpBrIf(LabelAt("header", d.next), LabelAt("else", d.next), NopRange),
                       OpLabel(LabelAt("header", d.next))>>)

CompileElse(c) ==
    LET f == TopFrame(c)
        else == OpLabel(LabelAt("else", f.id))
        inElse(d) == [StackSwitchAt(d, f, Params(f.bt)) EXCEPT !.frames = Append(Front(@), [f EXCEPT !.kind = "IfWithElse"])]
    IN  IF c.on /\ c.depth > 0 THEN c
        ELSE IF c.on THEN Emit([inElse(c) EXCEPT !.on = FALSE], <<else>>)
        ELSE Emit(inElse(c), <<OpDrop(FrameDropRange(c, f, FALSE)), OpBr(LabelAt("continuation", f.id)), else>>)

CompileEnd(c) ==
    LET f == TopFrame(c)
        popped == [c EXCEPT !.on = FALSE, !.frames = Front(@)]
        after == StackSwitchAt(popped, f, Results(f.bt))
        drop == OpDrop(FrameDropRange(c, f, TRUE))
        cont == LabelAt("continuation", f.id)
        emptyElse == <<OpLabel(LabelAt("else", f.id)), OpBr(cont), OpLabel(cont)>>
    IN  IF c.on /\ c.depth > 0 THEN [c EXCEPT !.depth = @ - 1]
        ELSE IF c.on /\ f.kind = "Function" THEN popped
        ELSE IF c.on THEN Emit(after, IF f.kind = "IfWithoutElse" THEN emptyElse ELSE <<OpLabel(cont)>>)
        ELSE Emit(after,
                  CASE f.kind = "Function" -> <<drop, OpBr(ReturnLabel)>>
                    [] f.kind = "IfWithoutElse" -> <<drop, OpBr(cont)>> \o emptyElse
                    [] f.kind \in {"BlockWithContinuation", "IfWithElse"} -> <<drop, OpBr(cont), OpLabel(cont)>>
                    [] f.kind \in {"Loop", "BlockWithoutContinuation"} -> <<drop>>)

CompileBr(c, i) ==
    IF c.on THEN c
    ELSE LET d == EnsureContinuation(c, i.k)
             f == FrameAt(d, i.k)
         IN  MarkDead(Emit(d, <<OpDrop(FrameDropRange(d, f, FALSE)), OpBr(AsLabel(f))>>))
(* The label after a br_if has a frame ID of its own.                       *)
CompileBrIf(c, i) ==
    IF c.on THEN c
    ELSE LET d == [EnsureContinuation(PopType(c), i.k) EXCEPT !.next = @ + 1]
             f == FrameAt(d, i.k)
             else == LabelAt("header", d.next)
         IN  Emit(d, <<OpBrIf(AsLabel(f), else, FrameDropRange(d, f, FALSE)), OpLabel(else)>>)
CompileBrTable(c, i) ==
    IF c.on THEN c
    ELSE LET ks == LabelsOf(i)
             d == FoldLeft(LAMBDA e, k : EnsureContinuation(e, k), PopType(c), ks)
         IN  MarkDead(Emit(d, <<OpBrTable([j \in DOMAIN ks |-> AsLabel(FrameAt(d, ks[j]))],
                                          [j \in DOMAIN ks |-> FrameDropRange(d, FrameAt(d, ks[j]), FALSE)])>>))
CompileReturn(c) ==
    MarkDead(Emit(c, <<OpDrop(FrameDropRange(c, c.frames[1], FALSE)), OpBr(AsLabel(c.frames[1]))>>))
CompileUnreachable(c) == MarkDead(Emit(c, <<Operation("Unreachable")>>))

(* applyToStack leaves the stack alone in unreachable code.  The one local  *)
(* is the lowest slot.                                                      *)
CompilePlain(c, i, slots) ==
    IF c.on THEN c
    ELSE CASE i.op \in {"i32.const", "v128.const"} -> Emit([c EXCEPT !.st = Append(@, ConstType(i))], <<OpConst(slots)>>)
           [] i.op = "drop" -> Emit(PopType(c), <<OpDrop([s |-> 0, e |-> WidthOf(Last(c.st)) - 1])>>)
           [] i.op = "local.get" -> Emit([c EXCEPT !.st = Append(@, "i32")], <<OpPick(Slots(c.st) - 1)>>)
           [] i.op = "local.set" -> Emit(PopType(c), <<OpSet(Slots(c.st) - 1)>>)

---------------------------------------------------------------------------
(* lowerIR: a label is the address of its Label operation.                  *)
Addresses(ops, l) == {j \in 1..Len(ops) : ops[j].k = "Label" /\ ops[j].to = <<l>>}
Address(ops, l) == IF l = ReturnLabel THEN Len(ops) + 1 ELSE CHOOSE j \in Addresses(ops, l) : TRUE
Targets(ops) == UNION {ToSet(ops[j].to) : j \in {x \in 1..Len(ops) : ops[x].k # "Label"}}

(* drop.                                                                    *)
DropRange(st, r) ==
    IF r.s = -1 THEN st ELSE SubSeq(st, 1, Len(st) - 1 - r.e) \o SubSeq(st, Len(st) - r.s + 1, Len(st))

(* callNativeFunc.  The condition of a branch is the next of the choices;   *)
(* a run is cut when they or its steps are used up.  m is the machine: the  *)
(* next operation, the stack, the choices left and the outcome.             *)
Machine(at, st, choices) == [at |-> at, st |-> st, choices |-> choices, out |-> "running"]
Halted(m, out) == [m EXCEPT !.out = out]
StepOp(ops, m) ==
    LET o == ops[m.at]
        st == m.st
        next(s) == [m EXCEPT !.at = @ + 1, !.st = s]
        decided(l, s) == [m EXCEPT !.at = Address(ops, l), !.st = s, !.choices = Tail(@)]
        default == Len(o.to)
        j == IF o.k = "BrIf" THEN (IF Head(m.choices) > 0 THEN 1 ELSE 2)
             ELSE IF Head(m.choices) >= default THEN default ELSE Head(m.choices) + 1
    IN  IF m.at > Len(ops) THEN Halted(m, "returned")
        ELSE CASE o.k = "Label" -> next(st)
               [] o.k = "Unreachable" -> Halted(m, "trap")
               [] o.k = "Const" -> next(st \o o.val)
               [] o.k = "Drop" -> next(DropRange(st, o.drops[1]))
               [] o.k = "Pick" -> next(Append(st, st[Len(st) - o.depth]))
               [] o.k = "Set" -> next(Front([st EXCEPT ![Len(st) - o.depth] = Last(st)]))
               [] o.k = "Br" -> [m EXCEPT !.at = Address(ops, o.to[1])]
               [] o.k = "BrTable" /\ default = 1 ->
                      [m EXCEPT !.at = Address(ops, o.to[1]), !.st = DropRange(Front(st), o.drops[1])]
               [] o.k \in {"BrIf", "BrTable"} /\ default > 1 ->
                      IF m.choices = <<>> THEN Halted(m, "cut")
                      ELSE decided(o.to[j], IF j \in DOMAIN o.drops THEN DropRange(Front(st), o.drops[j]) ELSE Front(st))
RECURSIVE RunOps(_, _, _)
RunOps(ops, m, steps) ==
    IF m.out # "running" THEN <<m.out, IF m.out = "returned" THEN m.st ELSE <<>>>>
    ELSE IF steps = 0 THEN <<"cut", <<>>>> ELSE RunOps(ops, StepOp(ops, m), steps - 1)
=============================================================================
