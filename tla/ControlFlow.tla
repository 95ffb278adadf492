---------------------------- MODULE ControlFlow ----------------------------
(***************************************************************************)
(* A function body read instruction by instruction, as validateFunction,    *)
(* the interpreter's compiler and the optimizing compiler's frontend read   *)
(* it, and what the three make of the body once its last end is read.       *)
(*                                                                          *)
(* The constant an instruction pushes is its position in the body; a v128   *)
(* is two slots, the position and its negative.                             *)
(***************************************************************************)
EXTENDS ControlInterpreter, ControlFrontend, FiniteSets

CONSTANTS
    Alphabets,     \* sets of instructions, one of which a body is written in
    MaxLen,        \* bound on the length of a body
    MaxHeight,     \* bound on its operand stack
    Conditions,       \* the sequences of branch conditions its runs meet
    Fuel           \* bound on the steps of a run

VARIABLES
    alphabet,
    body,          \* the instructions read
    val, com, fro  \* validator, interpreter's compiler, frontend

vars == <<alphabet, body, val, com, fro>>

Init ==
    /\ alphabet \in Alphabets
    /\ body = <<>>
    /\ val = ValidatorStart /\ com = CompilerStart /\ fro \in {FrontendStart(listen) : listen \in BOOLEAN}

Here == Len(body) + 1
SlotsOf(i) == IF i.op = "v128.const" THEN <<Here, -Here>> ELSE <<Here>>

(* An instruction the validator accepts is compiled by both; the body keeps *)
(* room for the ends it needs.                                              *)
Step(i, checked, compiled, lowered) ==
    /\ Len(val.ctl) > 0
    /\ checked.ok
    /\ Here + Len(checked.s.ctl) <= MaxLen
    /\ Len(checked.s.vs) <= MaxHeight
    /\ body' = Append(body, i)
    /\ val' = checked.s /\ com' = compiled /\ fro' = lowered
    /\ UNCHANGED alphabet

DoBlock == \E i \in {x \in alphabet : x.op = "block"} : Step(i, EnterBlock(val, i), CompileBlock(com, i), LowerBlock(fro, i))
DoLoop == \E i \in {x \in alphabet : x.op = "loop"} : Step(i, EnterBlock(val, i), CompileLoop(com, i), LowerLoop(fro, i))
DoIf == \E i \in {x \in alphabet : x.op = "if"} : Step(i, ValidateIf(val, i), CompileIf(com, i), LowerIf(fro, i))
DoElse == \E i \in {x \in alphabet : x.op = "else"} : Step(i, ValidateElse(val), CompileElse(com), LowerElse(fro))
DoEnd == Step(Code("end"), ValidateEnd(val), CompileEnd(com), LowerEnd(fro))
DoBr == \E i \in {x \in alphabet : x.op = "br"} : Step(i, ValidateBr(val, i), CompileBr(com, i), LowerBr(fro, i))
DoBrIf == \E i \in {x \in alphabet : x.op = "br_if"} : Step(i, ValidateBrIf(val, i), CompileBrIf(com, i), LowerBrIf(fro, i))
DoBrTable == \E i \in {x \in alphabet : x.op = "br_table"} :
                 Step(i, ValidateBrTable(val, i), CompileBrTable(com, i), LowerBrTable(fro, i))
DoReturn == \E i \in {x \in alphabet : x.op = "return"} : Step(i, ValidateReturn(val), CompileReturn(com), LowerReturn(fro))
DoUnreachable == \E i \in {x \in alphabet : x.op = "unreachable"} :
                     Step(i, Accepted(MarkUnreachable(val)), CompileUnreachable(com), LowerUnreachable(fro))
DoPlain == \E i \in {x \in alphabet : x.op \in {"i32.const", "v128.const", "drop", "local.get", "local.set"}} :
               Step(i, ValidatePlain(val, i), CompilePlain(com, i, SlotsOf(i)), LowerPlain(fro, i, Here))

Next == DoBlock \/ DoLoop \/ DoIf \/ DoElse \/ DoEnd \/ DoBr \/ DoBrIf \/ DoBrTable \/ DoReturn \/ DoUnreachable \/ DoPlain
Spec == Init /\ [][Next]_vars

Complete == val.ctl = <<>>

---------------------------------------------------------------------------
(* The structured semantics of the WebAssembly specification, against which *)
(* both are measured: a label is [at, n, h], where a branch to it goes on,  *)
(* the values it carries and the height below them.                         *)

Opens(i) == i.op \in {"block", "loop", "if"}
RECURSIVE EndOf(_, _, _)
EndOf(text, j, depth) ==
    IF text[j].op = "end" /\ depth = 0 THEN j
    ELSE EndOf(text, j + 1, depth + (IF Opens(text[j]) THEN 1 ELSE IF text[j].op = "end" THEN -1 ELSE 0))
ElsesOf(text, j) == {x \in (j + 1)..(EndOf(text, j + 1, 0) - 1) : text[x].op = "else" /\ EndOf(text, x + 1, 0) = EndOf(text, j + 1, 0)}
LabelOf(text, j, st) ==
    LET loop == text[j].op = "loop"
    IN  [at |-> IF loop THEN j ELSE EndOf(text, j + 1, 0) + 1,
         n |-> Len(IF loop THEN Params(text[j].bt) ELSE Results(text[j].bt)),
         h |-> Len(st) - Len(Params(text[j].bt))]
TopOf(st, n) == SubSeq(st, Len(st) - n + 1, Len(st))

StepText(text, m) ==
    LET i == text[m.at]
        st == m.st
        choosing == i.op \in {"if", "br_if"} \/ (i.op = "br_table" /\ i.ks # <<>>)
        go(next, s, ls) == [m EXCEPT !.at = next, !.st = s, !.labels = ls, !.choices = IF choosing THEN Tail(@) ELSE @]
        target(k) == m.labels[Len(m.labels) - k]
        branch(s, k) == go(target(k).at, SubSeq(s, 1, target(k).h) \o TopOf(s, target(k).n), SubSeq(m.labels, 1, Len(m.labels) - k - 1))
        inside(s) == Append(m.labels, LabelOf(text, m.at, s))
        condition == Head(m.choices) > 0
        next(s) == [m EXCEPT !.at = @ + 1, !.st = s]
    IN  IF m.at > Len(text) THEN Halted(m, "returned")
        ELSE IF choosing /\ m.choices = <<>> THEN Halted(m, "cut")
        ELSE CASE i.op \in {"block", "loop"} -> go(m.at + 1, st, inside(st))
               [] i.op = "if" -> go(IF condition THEN m.at + 1
                                    ELSE IF ElsesOf(text, m.at) = {} THEN EndOf(text, m.at + 1, 0)
                                    ELSE (CHOOSE x \in ElsesOf(text, m.at) : TRUE) + 1, Front(st), inside(Front(st)))
               [] i.op = "else" -> go(EndOf(text, m.at + 1, 0), st, m.labels)
               [] i.op = "end" -> go(m.at + 1, st, Front(m.labels))
               [] i.op = "br" -> branch(st, i.k)
               [] i.op = "br_if" -> IF condition THEN branch(Front(st), i.k) ELSE go(m.at + 1, Front(st), m.labels)
               [] i.op = "br_table" -> branch(Front(st), IF i.ks = <<>> THEN i.k ELSE LabelsOf(i)[Picked(i, Head(m.choices))])
               [] i.op = "return" -> [m EXCEPT !.out = "returned", !.st = TopOf(st, Len(Results("fn")))]
               [] i.op = "unreachable" -> Halted(m, "trap")
               [] i.op \in {"i32.const", "v128.const"} -> next(Append(st, m.at))
               [] i.op = "drop" -> next(Front(st))
               [] i.op = "local.get" -> next(Append(st, m.local))
               [] i.op = "local.set" -> [next(Front(st)) EXCEPT !.local = Last(st)]
RECURSIVE RunText(_, _, _)
RunText(text, m, steps) ==
    IF m.out # "running" THEN <<m.out, IF m.out = "returned" THEN m.st ELSE <<>>>>
    ELSE IF steps = 0 THEN <<"cut", <<>>>> ELSE RunText(text, StepText(text, m), steps - 1)

FunctionLabel == [at |-> Len(body) + 1, n |-> Len(Results("fn")), h |-> 0]
TextMachine(choices) ==
    [at |-> 1, st |-> <<>>, labels |-> <<FunctionLabel>>, local |-> 0, choices |-> choices, out |-> "running"]
BlockMachine(ssa, choices) ==
    [blk |-> Entry, at |-> 1, env |-> [v \in 1..ssa.next |-> 0], st |-> <<>>, choices |-> choices, out |-> "running", heard |-> <<>>]
Flattened(values) ==
    FlattenSeq([j \in DOMAIN values |-> IF values[j] # 0 /\ body[values[j]].op = "v128.const" THEN <<values[j], -values[j]>>
                                                                                              ELSE <<values[j]>>])
InSlots(outcome) == <<outcome[1], Flattened(outcome[2])>>

---------------------------------------------------------------------------
(* Properties.                                                              *)

(* A body that validates does the same, whatever its branch conditions are, *)
(* by its own structure, as the operations of the interpreter with the      *)
(* slots each branch drops, and as the blocks of the optimizing compiler    *)
(* after its passes: it returns the same values, traps in the same place or *)
(* is still running.  With a listener, the blocks call it as the            *)
(* interpreter's callNativeFuncWithListener does: once before, and once     *)
(* after with the values returned, on whatever path the function returns.   *)
HeardOf(outcome) ==
    IF ~fro.listen THEN <<>>
    ELSE <<Heard("before", <<>>)>> \o (IF outcome[1] = "returned" THEN <<Heard("after", outcome[2])>> ELSE <<>>)
EnginesAgree ==
    Complete =>
        \E ssa \in {RunPasses(fro.b)} : \A choices \in Conditions :
            \E meant \in {RunText(body, TextMachine(choices), Fuel)} :
                /\ RunOps(com.ops, Machine(1, <<>>, choices), Fuel) = InSlots(meant)
                /\ \E run \in {RunBlocks(ssa, BlockMachine(ssa, choices), Fuel)} :
                       InSlots(run) = InSlots(meant) /\ run[3] = HeardOf(meant)

(* Every label a branch of the interpreter's code names is the label of     *)
(* exactly one place in it, so lowerIR leaves no branch unresolved.         *)
LabelsResolve == Complete => \A l \in Targets(com.ops) \ {ReturnLabel} : Cardinality(Addresses(com.ops, l)) = 1

(* The frontend meets none of the conditions at which the builder and the   *)
(* passes panic: a branch into a sealed block, two branches of a block to   *)
(* one target, a variable without definition, a reachable block that was    *)
(* never sealed, a parameter only it passes to itself.                      *)
BuilderNeverPanics == ~fro.b.bug /\ (Complete => ~RunPasses(fro.b).bug)

(* In code either compiler takes to be reachable, its stack has the types   *)
(* the validator has; what the interpreter drops as unreachable, the        *)
(* frontend drops too.                                                      *)
StacksFollowValidation ==
    ~Complete =>
        /\ com.on => fro.dead
        /\ ~com.on => Tail(com.st) = val.vs
        /\ ~fro.dead => Len(fro.vals) = Len(val.vs)
=============================================================================
