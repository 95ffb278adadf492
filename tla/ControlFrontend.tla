-------------------------- MODULE ControlFrontend ---------------------------
(***************************************************************************)
(* Structured control in the optimising compiler: the builder of SSA form,  *)
(* and the translation that uses it.                                        *)
(***************************************************************************)
EXTENDS ControlValidation

(***************************************************************************)
(* internal/engine/wazevo/ssa: the builder of basic blocks in SSA form for  *)
(* a function of one variable (builder.go, basic_block.go), and the passes  *)
(* that rewrite what it built (pass.go).                                    *)
(*                                                                          *)
(* The builder is b = [blocks, cur, next, alias, bug].  A block has params, *)
(* instructions, preds, sealed, singlePred (0: none), the unknown values    *)
(* and the last definition of the variable, each of these last two a        *)
(* sequence of at most one value.  Values are numbers, 1 the zero value.    *)
(* bug is set where the code panics.                                        *)
(***************************************************************************)

Entry == 1
ReturnBlk == 2
Zero == 1

EmptyBlock == [params |-> <<>>, insts |-> <<>>, preds |-> <<>>, sealed |-> FALSE, single |-> 0,
               unknown |-> <<>>, def |-> <<>>, valid |-> TRUE]
Inst(k) == [k |-> k, rv |-> 0, tok |-> 0, v |-> 0, vs |-> <<>>, to |-> <<>>]

---------------------------------------------------------------------------
(* Blocks, values, instructions.                                            *)

AllocateBasicBlock(b) == [b EXCEPT !.blocks = Append(@, EmptyBlock)]
AllocateValue(b) == [b EXCEPT !.next = @ + 1]
SetCurrentBlock(b, blk) == [b EXCEPT !.cur = blk]
AddParams(b, blk, n) ==
    [b EXCEPT !.blocks[blk].params = @ \o [j \in 1..n |-> b.next + j - 1], !.next = @ + n]

(* addPred: a sealed block takes no predecessor, and two branches of a      *)
(* block have different targets.                                            *)
AddPred(b, blk, pred, at) ==
    LET t == b.blocks[blk]
    IN  [b EXCEPT !.blocks[blk].preds = Append(@, [blk |-> pred, at |-> at]),
                  !.bug = @ \/ t.sealed \/ \E p \in ToSet(t.preds) : p.blk = pred /\ p.at # at]

InsertInstruction(b, i) ==
    LET at == Len(b.blocks[b.cur].insts) + 1
        inserted == [b EXCEPT !.blocks[b.cur].insts = Append(@, i)]
    IN  FoldLeft(LAMBDA d, t : AddPred(d, t, b.cur, at), inserted, i.to)
InsertJump(b, vs, blk) == InsertInstruction(b, [Inst("Jump") EXCEPT !.vs = vs, !.to = <<blk>>])
InsertConst(b, tok) == AllocateValue(InsertInstruction(b, [Inst("Const") EXCEPT !.rv = b.next, !.tok = tok]))

AddArgument(b, p, v) == [b EXCEPT !.blocks[p.blk].insts[p.at].vs = Append(@, v)]

(* Init, and declareWasmLocals's InsertZeroValue.                           *)
BuilderStart ==
    InsertConst([blocks |-> <<EmptyBlock, EmptyBlock>>, cur |-> Entry, next |-> Zero, alias |-> <<>>, bug |-> FALSE], 0)

---------------------------------------------------------------------------
(* The variable.                                                            *)

DefineVariable(b, v, blk) == [b EXCEPT !.blocks[blk].def = <<v>>]
Alias(b, dst, src) == [b EXCEPT !.alias = Append(@, <<dst, src>>)]
RECURSIVE ResolveAlias(_, _)
ResolveAlias(b, v) ==
    LET known == {p \in ToSet(b.alias) : p[1] = v}
    IN  IF known = {} THEN v ELSE ResolveAlias(b, (CHOOSE p \in known : TRUE)[2])

(* findValue, giving [b, v]: the definition of the variable that reaches    *)
(* the end of blk.  Uniquely is its scan of the predecessors for a common   *)
(* definition; v = 0 when there is none.                                    *)
RECURSIVE FindValue(_, _), Uniquely(_, _, _, _), PassToPreds(_, _, _)
FindValue(b, blk) ==
    LET t == b.blocks[blk]
    IN  IF t.def # <<>> THEN [b |-> b, v |-> t.def[1]]
        ELSE IF ~t.sealed
             THEN [b |-> [DefineVariable(AllocateValue(b), b.next, blk) EXCEPT !.blocks[blk].unknown = <<b.next>>],
                   v |-> b.next]
        ELSE IF blk = Entry THEN [b |-> b, v |-> Zero]
        ELSE IF t.single # 0 THEN FindValue(b, t.single)
        ELSE IF t.preds = <<>> THEN [b |-> [b EXCEPT !.bug = TRUE], v |-> Zero]
        ELSE LET tmp == b.next
                 u == Uniquely(DefineVariable(AllocateValue(b), tmp, blk), t.preds, 1, 0)
             IN  IF u.v # 0 THEN [b |-> Alias(u.b, tmp, u.v), v |-> u.v]
                 ELSE [b |-> PassToPreds([u.b EXCEPT !.blocks[blk].params = Append(@, tmp)], t.preds, 1), v |-> tmp]
Uniquely(b, preds, j, unique) ==
    IF j > Len(preds) THEN [b |-> b, v |-> unique]
    ELSE LET p == FindValue(b, preds[j].blk)
         IN  IF unique \in {0, p.v} THEN Uniquely(p.b, preds, j + 1, p.v) ELSE [b |-> p.b, v |-> 0]
PassToPreds(b, preds, j) ==
    IF j > Len(preds) THEN b
    ELSE LET p == FindValue(b, preds[j].blk) IN PassToPreds(AddArgument(p.b, preds[j], p.v), preds, j + 1)

(* Seal turns the placeholder of an unknown value into a parameter.         *)
Seal(b, blk) ==
    LET t == b.blocks[blk]
        sealed == [b EXCEPT !.blocks[blk].sealed = TRUE, !.blocks[blk].single = IF Len(t.preds) = 1 THEN t.preds[1].blk ELSE @]
    IN  IF t.unknown = <<>> THEN sealed
        ELSE PassToPreds([sealed EXCEPT !.blocks[blk].params = @ \o t.unknown], t.preds, 1)

---------------------------------------------------------------------------
(* Passes.                                                                  *)

Successors(b, blk) == UNION {ToSet(i.to) : i \in ToSet(b.blocks[blk].insts)}
RECURSIVE ReachableFrom(_, _)
ReachableFrom(b, seen) ==
    LET more == seen \cup UNION {Successors(b, x) : x \in seen} IN IF more = seen THEN seen ELSE ReachableFrom(b, more)

(* passDeadBlockEliminationOpt panics on a reachable block not sealed.      *)
DeadBlockElimination(b) ==
    LET live == ReachableFrom(b, {Entry})
    IN  [b EXCEPT !.blocks = [x \in DOMAIN @ |-> [@[x] EXCEPT !.valid = x \in live]],
                  !.bug = @ \/ \E x \in live \ {ReturnBlk} : ~b.blocks[x].sealed]

(* passRedundantPhiEliminationOpt: the values other than itself that the    *)
(* predecessors pass for a parameter; one alone makes it an alias of that.  *)
Passed(b, blk, j) ==
    {ResolveAlias(b, b.blocks[p.blk].insts[p.at].vs[j]) : p \in ToSet(b.blocks[blk].preds)} \ {b.blocks[blk].params[j]}
Without(s, gone) == LET kept == SetToSortSeq(DOMAIN s \ gone, <) IN [j \in 1..Len(kept) |-> s[kept[j]]]
RemoveParams(b, blk, gone) ==
    LET t == b.blocks[blk]
        aliased == FoldLeft(LAMBDA d, j : Alias(d, t.params[j], CHOOSE v \in Passed(b, blk, j) : TRUE), b, SetToSortSeq(gone, <))
        cut == FoldLeft(LAMBDA d, p : [d EXCEPT !.blocks[p.blk].insts[p.at].vs = Without(@, gone)], aliased, t.preds)
    IN  [cut EXCEPT !.blocks[blk].params = Without(@, gone)]
PhisOf(b, blk) ==
    LET passed == [j \in DOMAIN b.blocks[blk].params |-> Passed(b, blk, j)]
        redundant == {j \in DOMAIN passed : \E v \in passed[j] : passed[j] = {v}}
    IN  [b |-> [RemoveParams(b, blk, redundant) EXCEPT !.bug = @ \/ \E j \in DOMAIN passed : passed[j] = {}],
         changed |-> redundant # {}]
RECURSIVE RedundantPhiElimination(_)
RedundantPhiElimination(b) ==
    LET blks == SelectSeq([x \in 1..(Len(b.blocks) - 1) |-> x + 1], LAMBDA x : b.blocks[x].valid)
        once == FoldLeft(LAMBDA a, x : LET p == PhisOf(a.b, x) IN [b |-> p.b, changed |-> a.changed \/ p.changed],
                         [b |-> b, changed |-> FALSE], blks)
    IN  IF once.changed /\ ~once.b.bug THEN RedundantPhiElimination(once.b) ELSE once.b

(* passDeadCodeEliminationOpt: aliases are resolved in what has an effect,  *)
(* and an instruction nothing of it uses is removed.                        *)
DeadCodeElimination(b) ==
    LET resolved(i) == [i EXCEPT !.v = ResolveAlias(b, @), !.vs = [j \in DOMAIN @ |-> ResolveAlias(b, @[j])]]
        blocks == [x \in DOMAIN b.blocks |->
                       [b.blocks[x] EXCEPT !.insts = [n \in DOMAIN @ |-> IF @[n].k = "Const" THEN @[n] ELSE resolved(@[n])]]]
        used == UNION {UNION {{i.v} \cup ToSet(i.vs) : i \in {y \in ToSet(blocks[x].insts) : y.k # "Const"}}
                          : x \in {z \in DOMAIN blocks : blocks[z].valid}}
    IN  [b EXCEPT !.blocks = [x \in DOMAIN blocks |->
                                 [blocks[x] EXCEPT !.insts = SelectSeq(@, LAMBDA i : i.k # "Const" \/ i.rv \in used)]]]

RunPasses(b) == DeadCodeElimination(RedundantPhiElimination(DeadBlockElimination(b)))

---------------------------------------------------------------------------
(* What the blocks mean: a branch assigns its arguments to the parameters   *)
(* of its target, and one to the return block returns them.  env gives      *)
(* values their tokens; the condition of a branch is the next choice.       *)
Heard(event, values) == [event |-> event, values |-> values]
Entered(b, env, i, j) ==
    LET ps == b.blocks[i.to[j]].params
    IN  [x \in DOMAIN env |-> IF x \in ToSet(ps) THEN env[i.vs[CHOOSE n \in DOMAIN ps : ps[n] = x]] ELSE env[x]]
StepBlock(b, m) ==
    LET i == b.blocks[m.blk].insts[m.at]
        return == [m EXCEPT !.out = "returned", !.st = [n \in DOMAIN i.vs |-> m.env[i.vs[n]]]]
        on(cs) == [m EXCEPT !.at = @ + 1, !.choices = cs]
        jump(j, cs) == IF i.to[j] = ReturnBlk THEN return
                       ELSE [m EXCEPT !.blk = i.to[j], !.at = 1, !.env = Entered(b, m.env, i, j), !.choices = cs]
        first == Head(m.choices)
        hear(e) == [m EXCEPT !.at = @ + 1, !.heard = Append(@, e)]
        branch(taken) == IF taken THEN jump(1, Tail(m.choices)) ELSE on(Tail(m.choices))
    IN  CASE i.k = "Const" -> [m EXCEPT !.at = @ + 1, !.env[i.rv] = i.tok]
          [] i.k = "Before" -> hear(Heard("before", <<>>))
          [] i.k = "After" -> hear(Heard("after", [n \in DOMAIN i.vs |-> m.env[i.vs[n]]]))
          [] i.k = "Exit" -> [m EXCEPT !.out = "trap"]
          [] i.k = "Return" -> return
          [] i.k = "Jump" -> jump(1, m.choices)
          [] i.k \in {"Brz", "Brnz", "BrTable"} ->
                 IF m.choices = <<>> THEN [m EXCEPT !.out = "cut"]
                 ELSE IF i.k = "BrTable" THEN jump(IF first >= Len(i.to) THEN Len(i.to) ELSE first + 1, Tail(m.choices))
                 ELSE branch(IF i.k = "Brz" THEN first = 0 ELSE first > 0)
RECURSIVE RunBlocks(_, _, _)
RunBlocks(b, m, steps) ==
    IF m.out # "running" THEN <<m.out, IF m.out = "returned" THEN m.st ELSE <<>>, m.heard>>
    ELSE IF steps = 0 THEN <<"cut", <<>>, m.heard>> ELSE RunBlocks(b, StepBlock(b, m), steps - 1)

---------------------------------------------------------------------------
(***************************************************************************)
(* internal/engine/wazevo/frontend/lower.go on the structured control       *)
(* instructions: the control frames and the value stack of the translation  *)
(* into basic blocks.                                                       *)
(*                                                                          *)
(* The translation is f = [b, vals, frames, dead, depth, listen]: the       *)
(* builder, the values, the frames (with clonedArgs in args), unreachable,  *)
(* unreachableDepth and needListener.                                       *)
(***************************************************************************)

SsaFrame(kind, len, blk, following, bt, args) ==
    [kind |-> kind, len |-> len, blk |-> blk, following |-> following, bt |-> bt, args |-> args]

PeekDup(f, n) == SubSeq(f.vals, Len(f.vals) - n + 1, Len(f.vals))

(* callListenerBefore, of a function without parameters, and                *)
(* callListenerAfter, with the values on top of the stack.                  *)
CallListener(f, b, event, ts) ==
    IF f.listen THEN InsertInstruction(b, [Inst(event) EXCEPT !.vs = PeekDup(f, Len(ts))]) ELSE b

(* lowerBody.                                                               *)
FrontendStart(listen) ==
    LET f == [b |-> Seal(BuilderStart, Entry), vals |-> <<>>, dead |-> FALSE, depth |-> 0, listen |-> listen,
              frames |-> <<SsaFrame("Function", 0, 0, ReturnBlk, "fn", <<>>)>>]
    IN  [f EXCEPT !.b = CallListener(f, @, "Before", Params("fn"))]

(* insertJumpToBlock: only a block that is not new can be the return block. *)
InsertJumpToBlock(f, b, vs, blk) == InsertJump(IF blk = ReturnBlk THEN CallListener(f, b, "After", Results("fn")) ELSE b, vs, blk)
CtrlPeekAt(f, k) == f.frames[Len(f.frames) - k]
PushSsaFrame(f, frame) == [f EXCEPT !.frames = Append(@, frame)]
Nested(f) == [f EXCEPT !.depth = @ + 1]

(* switchTo: a block without predecessor is unreachable.                    *)
SwitchTo(f, len, blk) ==
    [f EXCEPT !.dead = @ \/ f.b.blocks[blk].preds = <<>>,
              !.vals = SubSeq(@, 1, len) \o f.b.blocks[blk].params,
              !.b = SetCurrentBlock(@, blk)]

(* A new block is the last one; AllocateFollowing gives it the parameters   *)
(* of a frame's results or of a loop's parameters.                          *)
NewBlock(b) == Len(b.blocks)
AllocateFollowing(b, ts) == LET d == AllocateBasicBlock(b) IN AddParams(d, NewBlock(d), Len(ts))

LowerBlock(f, i) ==
    IF f.dead THEN Nested(f)
    ELSE LET b == AllocateFollowing(f.b, Results(i.bt))
         IN  PushSsaFrame([f EXCEPT !.b = b],
                          SsaFrame("Block", Len(f.vals) - Len(Params(i.bt)), 0, NewBlock(b), i.bt, <<>>))

\* Mutant of LowerLoop: the header is sealed before its branches are seen.
LowerLoopSealed(f, i) ==
    IF f.dead THEN Nested(f)
    ELSE LET b == AllocateFollowing(AllocateFollowing(f.b, Params(i.bt)), Results(i.bt))
             header == NewBlock(b) - 1
             len == Len(f.vals) - Len(Params(i.bt))
             framed == PushSsaFrame([f EXCEPT !.b = Seal(InsertJump(b, PeekDup(f, Len(Params(i.bt))), header), header)],
                                    SsaFrame("Loop", len, header, NewBlock(b), i.bt, <<>>))
         IN  SwitchTo(framed, len, header)
LowerLoop(f, i) ==
    IF f.dead THEN Nested(f)
    ELSE LET b == AllocateFollowing(AllocateFollowing(f.b, Params(i.bt)), Results(i.bt))
             header == NewBlock(b) - 1
             len == Len(f.vals) - Len(Params(i.bt))
             framed == PushSsaFrame([f EXCEPT !.b = InsertJump(b, PeekDup(f, Len(Params(i.bt))), header)],
                                    SsaFrame("Loop", len, header, NewBlock(b), i.bt, <<>>))
         IN  SwitchTo(framed, len, header)

LowerIf(f, i) ==
    IF f.dead THEN Nested(f)
    ELSE LET b == AllocateFollowing(AllocateBasicBlock(AllocateBasicBlock(f.b)), Results(i.bt))
             following == NewBlock(b)
             then == following - 2
             else == following - 1
             cond == Last(f.vals)
             brz == InsertInstruction(b, [Inst("Brz") EXCEPT !.v = cond, !.to = <<else>>])
             jumped == SetCurrentBlock(InsertJump(brz, <<>>, then), then)
             popped == [f EXCEPT !.vals = Front(@), !.b = Seal(Seal(jumped, then), else)]
             n == Len(Params(i.bt))
         IN  PushSsaFrame(popped,
                 SsaFrame("IfWithoutElse", Len(popped.vals) - n, else, following, i.bt, PeekDup(popped, n)))

LowerElse(f) ==
    LET c == Last(f.frames)
        b == IF f.dead THEN f.b ELSE InsertJumpToBlock(f, f.b, PeekDup(f, Len(Results(c.bt))), c.following)
    IN  IF f.dead /\ f.depth > 0 THEN f
        ELSE [f EXCEPT !.dead = FALSE,
                       !.frames = Append(Front(@), [c EXCEPT !.kind = "IfWithElse"]),
                       !.vals = SubSeq(@, 1, c.len) \o c.args,
                       !.b = SetCurrentBlock(b, c.blk)]

LowerEnd(f) ==
    LET c == Last(f.frames)
        ended == IF f.dead THEN f.b ELSE InsertJumpToBlock(f, f.b, PeekDup(f, Len(Results(c.bt))), c.following)
        closed == CASE c.kind = "Loop" -> Seal(ended, c.blk)
                    [] c.kind = "IfWithoutElse" -> InsertJump(SetCurrentBlock(ended, c.blk), c.args, c.following)
                    [] OTHER -> ended
    IN  IF f.depth > 0 THEN [f EXCEPT !.depth = @ - 1]
        ELSE SwitchTo([f EXCEPT !.dead = FALSE, !.frames = Front(@), !.b = Seal(closed, c.following)], c.len, c.following)

(* brTargetArgNumFor.                                                       *)
IsLoop(c) == c.kind = "Loop"
BrTarget(c) == IF IsLoop(c) THEN c.blk ELSE c.following
BrArgNum(c) == Len(IF IsLoop(c) THEN Params(c.bt) ELSE Results(c.bt))

Dead(f, b) == [f EXCEPT !.dead = TRUE, !.b = b]
LowerBr(f, i) ==
    IF f.dead THEN f
    ELSE LET c == CtrlPeekAt(f, i.k) IN Dead(f, InsertJumpToBlock(f, f.b, PeekDup(f, BrArgNum(c)), BrTarget(c)))

(* A br_if that returns goes through a block that calls the listener.       *)
LowerBrIf(f, i) ==
    IF f.dead THEN f
    ELSE LET c == CtrlPeekAt(f, i.k)
             popped == [f EXCEPT !.vals = Front(@)]
             args == PeekDup(popped, BrArgNum(c))
             brnz(d, vs, blk) == InsertInstruction(d, [Inst("Brnz") EXCEPT !.v = Last(f.vals), !.vs = vs, !.to = <<blk>>])
             t == AllocateBasicBlock(f.b)
             returning == InsertInstruction(CallListener(popped, SetCurrentBlock(t, NewBlock(t)), "After", Results("fn")),
                                            [Inst("Return") EXCEPT !.vs = args])
             branched == IF f.listen /\ BrTarget(c) = ReturnBlk
                         THEN Seal(brnz(SetCurrentBlock(returning, f.b.cur), <<>>, NewBlock(t)), NewBlock(t))
                         ELSE brnz(f.b, args, BrTarget(c))
             b == AllocateBasicBlock(branched)
             else == NewBlock(b)
         IN  [popped EXCEPT !.b = SetCurrentBlock(Seal(InsertJump(b, <<>>, else), else), else)]

(* lowerBrTable: a trampoline block for each label, all with the number of  *)
(* arguments of the first.  A table with the default label only is a jump.  *)
Trampoline(f, b, args, blk) ==
    LET d == AllocateBasicBlock(b) IN InsertJumpToBlock(f, SetCurrentBlock(d, NewBlock(d)), args, blk)
LowerBrTable(f, i) ==
    IF f.dead THEN f
    ELSE LET popped == [f EXCEPT !.vals = Front(@)]
             ks == LabelsOf(i)
             args == PeekDup(popped, BrArgNum(CtrlPeekAt(f, ks[1])))
             b == FoldLeft(LAMBDA d, k : Trampoline(popped, d, args, BrTarget(CtrlPeekAt(f, k))), f.b, ks)
             blks == [j \in DOMAIN ks |-> NewBlock(f.b) + j]
             table == InsertInstruction(SetCurrentBlock(b, f.b.cur), [Inst("BrTable") EXCEPT !.v = Last(f.vals), !.to = blks])
         IN  IF i.ks = <<>> THEN LowerBr(popped, i)
             ELSE Dead(popped, FoldLeft(LAMBDA d, blk : Seal(d, blk), table, blks))

LowerReturn(f) ==
    IF f.dead THEN f
    ELSE Dead(f, InsertInstruction(CallListener(f, f.b, "After", Results("fn")), [Inst("Return") EXCEPT !.vs = PeekDup(f, Len(Results("fn")))]))
LowerUnreachable(f) == IF f.dead THEN f ELSE Dead(f, InsertInstruction(f.b, Inst("Exit")))

LowerPlain(f, i, tok) ==
    IF f.dead THEN f
    ELSE CASE i.op \in {"i32.const", "v128.const"} -> [f EXCEPT !.vals = Append(@, f.b.next), !.b = InsertConst(@, tok)]
           [] i.op = "drop" -> [f EXCEPT !.vals = Front(@)]
           [] i.op = "local.get" -> LET found == FindValue(f.b, f.b.cur) IN [f EXCEPT !.vals = Append(@, found.v), !.b = found.b]
           [] i.op = "local.set" -> [f EXCEPT !.vals = Front(@), !.b = DefineVariable(@, Last(f.vals), f.b.cur)]
=============================================================================
