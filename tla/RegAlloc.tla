------------------------------ MODULE RegAlloc ------------------------------
(***************************************************************************)
(* The compiler's back end from the laid out SSA function to machine code:   *)
(* the lowering of parameters, block arguments and returns to copies, the   *)
(* liveness analysis, the register allocation block by block, the repair of *)
(* the edges where the states of two predecessors meet, the spills, and the *)
(* run of the code that comes out along every path.                         *)
(*                                                                          *)
(* The real registers are 1..Len(allocatable), in order of preference; 0 is  *)
(* RealRegInvalid.  A virtual register is a number: a real register itself   *)
(* (pre-colored) or one above them; 0 is VRegInvalid.  One register type at  *)
(* a time; `target' says which, and which machine.                          *)
(*                                                                          *)
(* An instruction is [kind, uses, defs].  A "modify" changes its last use    *)
(* in place and defines nothing, as the two-operand instructions of amd64.  *)
(***************************************************************************)
EXTENDS BlockLayout

CONSTANTS
    NumRegs,         \* the allocatable registers of the type, most preferred first
    ArgRegs,         \* those that carry arguments and results, in order
    CalleeSaved,     \* CalleeSavedRegisters; the others are CallerSavedRegisters
    Texts,           \* the functions compiled
    Machines         \* the [isa, typ] the code is emitted for

Regs == 1..NumRegs
IsRealReg(v) == v \in Regs
Allocatable == [i \in Regs |-> i]
CallerSaved == Regs \ CalleeSaved

ASSUME RegAllocAssumption ==
    /\ NumRegs \in Nat \ {0} /\ CalleeSaved \subseteq Regs
    /\ ToSet(ArgRegs) \subseteq Regs

(* What passRedundantPhiEliminationOpt leaves: a parameter of a block other   *)
(* than the entry is passed two values besides itself.                       *)
ASSUME ParamsAssumption ==
    \A t \in Texts : \A b \in 2..Len(t), i \in 1..10 :
        i \in DOMAIN t[b].params =>
            \E c, d \in 1..Len(t), x, y \in {"cond", "jump"} :
                /\ t[c][x].to = b /\ t[d][y].to = b
                /\ Cardinality({t[c][x].args[i], t[d][y].args[i], t[b].params[i]}) = 3

VARIABLES
    text,       \* the function
    phase,      \* the step of the compilation
    cfg,        \* its blocks after the passes
    pc,         \* the instruction of the block being allocated
    todo,       \* the blocks, loops or registers the phase has left
    a,          \* the Allocator and the code it edits
    target,     \* what the code is emitted for
    at,         \* the block the run is at
    held,       \* what every register and stack slot holds: the virtual registers of that value
    misread     \* the uses that did not read their register's value

vars == <<text, phase, cfg, pc, todo, a, target, at, held, misread>>

---------------------------------------------------------------------------
(* Lowering. *)

Instr(kind, uses, defs) == [kind |-> kind, uses |-> uses, defs |-> defs]
Nop == Instr("nop", <<>>, <<>>)
Move(dst, src) == Instr("copy", <<src>>, <<dst>>)
Const(dst) == Instr("op", <<>>, <<dst>>)
IsCopy(i) == i.kind = "copy"
IsCall(i) == i.kind \in {"call", "callIndirect", "memmove"}

(* The convention: the first arguments and results in registers, the others   *)
(* on the stack, where a parameter is loaded from and a result stored to.    *)
(* The moves are in the order of amd64.                                      *)
InReg(i) == i <= Len(ArgRegs)
LowerParam(p, i) == IF InReg(i) THEN Move(p, ArgRegs[i]) ELSE Instr("op", <<>>, <<p>>)
LowerReturn(r, i) == IF InReg(i) THEN Move(ArgRegs[i], r) ELSE Instr("use", <<r>>, <<>>)
RegsOf(vs) == SubSeq(ArgRegs, 1, IF InReg(Len(vs)) THEN Len(vs) ELSE Len(ArgRegs))

(* A parameter that is not used keeps its place and is not moved.            *)
LowerParams(params, used) ==
    LET moved == SelectSeq([i \in DOMAIN params |-> i], LAMBDA i : params[i] \in used)
    IN  [j \in DOMAIN moved |-> LowerParam(params[moved[j]], moved[j])]
lowerFunctionArguments(g) ==
    LET refs(blk) == UNION {ToSet(i.uses) : i \in ToSet(blk.body)} \cup {blk.on} \cup ToSet(blk.cond.args) \cup ToSet(blk.jump.args)
    IN  LowerParams(g.blocks[Entry].params, UNION {refs(g.blocks[b]) : b \in DOMAIN g.blocks \ {Ret}})
LowerReturns(rets) == [i \in DOMAIN rets |-> LowerReturn(rets[i], i)] \o <<Instr("ret", RegsOf(rets), <<>>)>>

(* The caller's side, the arguments as results and the results as parameters. *)
(* Go's memmove keeps no register: those a callee would save are defined      *)
(* before it and used after it.                                              *)
callerGenVRegToFunctionArg(args) == [i \in DOMAIN args |-> LowerReturn(args[i], i)]
callerGenFunctionReturnVReg(rets) == [i \in DOMAIN rets |-> LowerParam(rets[i], i)]
AsDefined(kind) == IF kind # "memmove" THEN <<>> ELSE [i \in 1..Cardinality(CalleeSaved) |-> Instr("op", <<>>, <<Ascending(CalleeSaved)[i]>>)]
AsUsed(kind) == IF kind # "memmove" THEN <<>> ELSE [i \in 1..Cardinality(CalleeSaved) |-> Instr("use", <<Ascending(CalleeSaved)[i]>>, <<>>)]
lowerCall(kind, ptr, args, rets) ==
    callerGenVRegToFunctionArg(args) \o AsDefined(kind)
    \o <<Instr(kind, ptr \o RegsOf(args), RegsOf(rets))>>
    \o AsUsed(kind) \o callerGenFunctionReturnVReg(rets)

(* Mutant of lowerBlockArguments: the moves are made one after the other.     *)
lowerBlockArgumentsInOrder(args, params, fresh) ==
    [i \in DOMAIN args |-> IF args[i] = 0 THEN Const(params[i]) ELSE Move(params[i], args[i])]

(* lowerBlockArguments: the moves of a parallel assignment, through fresh    *)
(* registers when a destination is also a source; constants (0) come last.  *)
lowerBlockArguments(args, params, fresh) ==
    LET edges == SelectSeq([i \in DOMAIN args |-> <<args[i], params[i]>>], LAMBDA e : e[1] # 0)
        consts == SelectSeq([i \in DOMAIN args |-> <<args[i], params[i]>>], LAMBDA e : e[1] = 0)
        separated == {edges[i][1] : i \in DOMAIN edges} \cap {edges[i][2] : i \in DOMAIN edges} = {}
        moves == IF separated THEN [i \in DOMAIN edges |-> Move(edges[i][2], edges[i][1])]
                 ELSE [i \in DOMAIN edges |-> Move(fresh + i, edges[i][1])]
                      \o [i \in DOMAIN edges |-> Move(edges[i][2], fresh + i)]
    IN  moves \o [i \in DOMAIN consts |-> Const(consts[i][2])]

lowerBranches(g, b, fresh) ==
    LET blk == g.blocks[b]
    IN  IF HasCond(blk) THEN <<Instr("use", <<blk.on>>, <<>>)>>
        ELSE IF blk.jump.to = Ret THEN LowerReturns(blk.jump.args)
        ELSE lowerBlockArguments(blk.jump.args, g.blocks[blk.jump.to].params, fresh)

(* lowerBlock: the instructions of a block between the two nops that bound   *)
(* it, each with what is inserted around it and the registers it is given.   *)
lowerBlock(g, b, fresh) ==
    LET code == <<Nop>> \o (IF b = Entry THEN lowerFunctionArguments(g) ELSE <<>>)
                \o g.blocks[b].body \o lowerBranches(g, b, fresh) \o <<Nop>>
    IN  [i \in DOMAIN code |-> code[i] @@ [before |-> <<>>, after |-> <<>>, ruses |-> code[i].uses, rdefs |-> code[i].defs]]

(* AllocateVReg: the temporaries of a block are named after it.              *)
FreshFor(b) == 100 * b

lowerBlocks(g) == [b \in DOMAIN g.blocks \ {Ret} |-> lowerBlock(g, b, FreshFor(b))]

---------------------------------------------------------------------------
(* The state of the allocator. *)

LiveIn == -1000      \* programCounterLiveIn
LiveOut == 1000      \* programCounterLiveOut

(* A desired location is its kind and its register, packed.                  *)
DesiredUnspecified == 0
DesiredStack == 1
newDesiredLocReg(r) == 2 + 4 * r
DesiredReg(d) == d \div 4
WantsStack(d) == d % 4 = 1

vrState == [r |-> 0, def |-> 0, defBlk |-> 0, lca |-> 0, lastUse |-> -1, lastUseAt |-> 0, spilled |-> FALSE, isPhi |-> FALSE,
            desired |-> DesiredUnspecified, phiDefs |-> <<>>]
NoRegs == [r \in Regs |-> 0]
blockState == [liveIns |-> <<>>, seen |-> FALSE, visited |-> FALSE, from |-> 0, startRegs |-> NoRegs, endRegs |-> NoRegs]

VRegsOf(code) == Regs \cup UNION {ToSet(i.uses) \cup ToSet(i.defs) : i \in UNION {ToSet(code[b]) : b \in DOMAIN code}}

NewAllocator(g, code) ==
    [code |-> code, vs |-> [v \in VRegsOf(code) |-> vrState], blocks |-> [b \in DOMAIN code |-> blockState],
     regs |-> NoRegs, args |-> <<>>, current |-> 0, allocated |-> {}]

useRealReg(s, r, v) == [s EXCEPT !.regs[r] = v, !.vs[v].r = r, !.allocated = @ \cup {r}]
releaseRealReg(s, r) == IF s.regs[r] = 0 THEN s ELSE [s EXCEPT !.vs[s.regs[r]].r = 0, !.regs[r] = 0]

(* The virtual registers in registers, in the order of the registers.        *)
InUse(regs) == SelectSeq(Allocatable, LAMBDA r : regs[r] # 0)

StoreBefore(s, b, i, v, r) == [s EXCEPT !.code[b][i].before = Append(@, [op |-> "store", v |-> v, r |-> r])]
StoreAfter(s, b, i, v, r) == [s EXCEPT !.code[b][i].after = <<[op |-> "store", v |-> v, r |-> r]>> \o @]
ReloadBefore(s, b, i, v, r) == [s EXCEPT !.code[b][i].before = Append(@, [op |-> "reload", v |-> v, r |-> r])]
InsertMoveBefore(s, b, i, dst, src) == [s EXCEPT !.code[b][i].before = Append(@, [op |-> "move", dst |-> dst, src |-> src])]
SwapBefore(s, b, i, v, x1, x2, tmp) ==
    [s EXCEPT !.code[b][i].before = Append(@, [op |-> "swap", v |-> v, x1 |-> x1, x2 |-> x2, tmp |-> tmp])]
LastInstrForInsertion(s, b) == Len(s.code[b])

phiBlk(s, v) == IF s.vs[v].isPhi THEN s.vs[v].defBlk ELSE 0
Succs(b) == SelectSeq(cfg.blocks[b].success, LAMBDA x : x # Ret)
LastSucc(b) == Last(cfg.blocks[b].success)
Pred(b, i) == cfg.blocks[b].preds[i].blk
Preds(b) == Len(cfg.blocks[b].preds)

recordReload(s, v, b) ==
    [s EXCEPT !.vs[v].spilled = TRUE,
              !.vs[v].lca = IF @ = 0 \/ @ = b THEN b ELSE findLCA(cfg.tree, @, b)]

---------------------------------------------------------------------------
(* livenessAnalysis *)

(* Backward through a block: a definition ends a life, a use begins one.      *)
(* `ss' lists the registers in the order they were first found live.         *)
ScanInstr(s, i) ==
    LET virtual == SelectSeq(i.uses, LAMBDA u : ~IsRealReg(u))
        killed == [s EXCEPT !.live = @ \ ToSet(i.defs)]
        phis == {d \in ToSet(i.defs) : ~IsRealReg(d) /\ s.a.vs[d].isPhi}
        used == FoldLeft(LAMBDA t, u : IF u \in t.live THEN t ELSE [t EXCEPT !.live = @ \cup {u}, !.ss = Append(@, u)], killed, virtual)
    IN  IF phis # {} /\ i.uses # <<>> /\ IsRealReg(Last(i.uses)) THEN [used EXCEPT !.a.args = Append(@, Last(i.uses))] ELSE used

(* The values live into a successor already seen are live out of the block.  *)
LiveOuts(s, b) ==
    FoldLeft(LAMBDA ss, v : IF v \in ToSet(ss) THEN ss ELSE Append(ss, v), <<>>,
             FlattenSeq([k \in DOMAIN Succs(b) |->
                 LET succ == Succs(b)[k]
                 IN  IF s.blocks[succ].seen THEN SelectSeq(s.blocks[succ].liveIns, LAMBDA v : phiBlk(s, v) # succ) ELSE <<>>]))

Deduplicated(ss) == FoldLeft(LAMBDA t, v : IF v \in ToSet(t) THEN t ELSE Append(t, v), <<>>, ss)

LivenessOfBlock(s, b) ==
    LET params == ToSet(cfg.blocks[b].params)
        s0 == [s EXCEPT !.vs = [v \in DOMAIN @ |-> IF v \in params THEN [@[v] EXCEPT !.isPhi = TRUE, !.defBlk = b] ELSE @[v]]]
        outs == LiveOuts(s0, b)
        scan == FoldLeft(ScanInstr, [a |-> s0, live |-> ToSet(outs), ss |-> outs], Reverse(s.code[b]))
    IN  [scan.a EXCEPT !.blocks[b].liveIns = Deduplicated(SelectSeq(scan.ss, LAMBDA v : v \in scan.live)), !.blocks[b].seen = TRUE]

(* One turn of loopTreeDFS: what is live into the loop, but for its own       *)
(* parameters, is live into every block of its body.                         *)
PropagateLoop(s, loop) ==
    LET ins == Deduplicated(SelectSeq(s.blocks[loop].liveIns, LAMBDA v : phiBlk(s, v) # loop))
    IN  FoldLeft(LAMBDA t, child : [t EXCEPT !.blocks[child].liveIns = @ \o ins], s, loopNestingForestChildren(cfg, loop))
InnerLoops(loop) == SelectSeq(loopNestingForestChildren(cfg, loop), LAMBDA b : b \in cfg.headers)

---------------------------------------------------------------------------
(* alloc *)

(* resetAt: the registers as the end of a block leaves them, restricted to    *)
(* what is live into the current block.                                      *)
Emptied(s) == [s EXCEPT !.vs = [v \in DOMAIN @ |-> IF \E r \in Regs : s.regs[r] = v THEN [@[v] EXCEPT !.r = 0] ELSE @[v]], !.regs = NoRegs]
resetAt(s, bs) ==
    FoldLeft(LAMBDA t, r : LET v == bs.endRegs[r] IN
                 IF t.vs[v].lastUseAt = t.current /\ t.vs[v].lastUse = LiveIn THEN [t EXCEPT !.regs[r] = v, !.vs[v].r = r] ELSE t,
             Emptied(s), InUse(bs.endRegs))

updateLiveInVRState(s, b) ==
    [s EXCEPT !.vs = [v \in DOMAIN @ |-> IF v \in ToSet(s.blocks[b].liveIns)
                                         THEN [@[v] EXCEPT !.lastUse = LiveIn, !.lastUseAt = s.current] ELSE @[v]]]

(* The predecessor a block starts from: the first that is already allocated. *)
StartsFrom(s, b) ==
    IF Preds(b) < 2 THEN Preds(b) ELSE SelectInSeq([i \in 1..Preds(b) |-> Pred(b, i)], LAMBDA p : s.blocks[p].visited)

finalizeStartReg(s, b) ==
    IF s.blocks[b].from > 0 THEN s
    ELSE LET i == StartsFrom(s, b)
             s1 == updateLiveInVRState([s EXCEPT !.current = b], b)
             s2 == IF i = 0 THEN FoldLeft(LAMBDA t, u : useRealReg(t, u, u), s1, s1.args) ELSE resetAt(s1, s1.blocks[Pred(b, i)])
         IN  [s2 EXCEPT !.blocks[b].startRegs = s2.regs, !.blocks[b].from = IF i = 0 THEN 1 ELSE i]

(* findOrSpillAllocatable: the preferred register if it is free, else the     *)
(* first free one, else the one whose value is used last.                    *)
Victim(s, forbidden, preferred) ==
    FoldLeft(LAMBDA best, r :
                 LET v == s.regs[r]
                     last == s.vs[v].lastUse
                 IN  IF best.done \/ r \in forbidden THEN best
                     ELSE IF v = 0 THEN [r |-> r, last |-> 0, done |-> TRUE]
                     ELSE IF IsRealReg(v) THEN best
                     ELSE IF best.r = 0 \/ r = preferred \/ last = -1 \/ (best.last # -1 /\ last > best.last)
                     THEN [r |-> r, last |-> last, done |-> r = preferred] ELSE best,
             [r |-> 0, last |-> 0, done |-> FALSE], Allocatable).r

findOrSpillAllocatable(s, forbidden, preferred) ==
    IF preferred # 0 /\ preferred \notin forbidden /\ s.regs[preferred] = 0 THEN preferred ELSE Victim(s, forbidden, preferred)

findAllocatable(s, forbidden) ==
    LET free == SelectSeq(Allocatable, LAMBDA r : s.regs[r] = 0 /\ r \notin forbidden) IN IF free = <<>> THEN 0 ELSE Head(free)

SetDesired(s, v, d) == [s EXCEPT !.vs[v].desired = d]

(* The first reading of a block: where each value is last used, and the       *)
(* register the last copy into a pre-colored one asks for.                   *)
LastUses(s, b) ==
    FoldLeft(LAMBDA t, i :
                 LET instr == t.code[b][i]
                     used == FoldLeft(LAMBDA u, v : IF IsRealReg(v) THEN u ELSE [u EXCEPT !.vs[v].lastUse = i], t, instr.uses)
                 IN  IF IsCopy(instr) /\ IsRealReg(instr.defs[1]) /\ ~t.vs[instr.uses[1]].isPhi
                     THEN SetDesired(used, instr.uses[1], newDesiredLocReg(instr.defs[1])) ELSE used,
             s, [i \in DOMAIN s.code[b] |-> i])

(* Values live into a successor are live out; the registers a successor that  *)
(* has its start state wants them in, and the stack for the parameters it    *)
(* has in no register.                                                       *)
WantedBy(s, succ) ==
    LET outs == [s EXCEPT !.vs = [v \in DOMAIN @ |-> IF v \in ToSet(s.blocks[succ].liveIns) /\ phiBlk(s, v) # succ
                                                     THEN [@[v] EXCEPT !.lastUse = LiveOut] ELSE @[v]]]
        st == s.blocks[succ]
        inRegs == FoldLeft(LAMBDA t, r : SetDesired(t, st.startRegs[r], newDesiredLocReg(r)), outs, InUse(st.startRegs))
    IN  IF st.from = 0 THEN outs
        ELSE FoldLeft(LAMBDA t, p : IF DesiredReg(t.vs[p].desired) = 0 THEN SetDesired(t, p, DesiredStack) ELSE t, inRegs, cfg.blocks[succ].params)

(* The wishes of destinations pass to the sources of copies.                 *)
PropagateDesired(s, b, succ) ==
    FoldLeft(LAMBDA t, i : LET src == i.uses[1] IN
                 IF phiBlk(t, src) # succ /\ t.vs[src].desired = DesiredUnspecified
                 THEN SetDesired(t, src, newDesiredLocReg(DesiredReg(t.vs[i.defs[1]].desired))) ELSE t,
             s, SelectSeq(s.code[b], IsCopy))

(* The registers an instruction reads: a value in no register is reloaded     *)
(* into one the instruction does not read.                                   *)
AllocUse(s, b, i, k) ==
    LET v == s.a.code[b][i].uses[k]
        held0 == s.a.vs[v].r
        r == IF held0 # 0 THEN held0 ELSE findOrSpillAllocatable(s.a, s.used, DesiredReg(s.a.vs[v].desired))
        a1 == IF held0 # 0 THEN s.a
              ELSE useRealReg(ReloadBefore(recordReload(releaseRealReg(s.a, r), v, b), b, i, v, r), r, v)
    IN  IF IsRealReg(v) THEN s
        ELSE [a |-> [a1 EXCEPT !.code[b][i].ruses[k] = r], used |-> s.used \cup {r},
              kill |-> IF s.a.vs[v].lastUse = i THEN Append(s.kill, r) ELSE s.kill]

AllocUses(s, b, i) ==
    LET uses == s.code[b][i].uses
        reals == SelectSeq(uses, IsRealReg)
    IN  FoldLeft(LAMBDA t, k : AllocUse(t, b, i, k),
                 [a |-> s, kill |-> reals,
                  used |-> ToSet(reals) \cup {s.vs[u].r : u \in {x \in ToSet(uses) : ~IsRealReg(x) /\ s.vs[x].r # 0}}],
                 [k \in DOMAIN uses |-> k])

releaseCallerSavedRegs(s) ==
    FoldLeft(LAMBDA t, r : IF IsRealReg(t.regs[r]) \/ r \notin CallerSaved THEN t ELSE releaseRealReg(t, r), s, InUse(s.regs))

(* A definition on a pre-colored register takes it from whatever it held.     *)
DefineReal(s, r) == useRealReg(releaseRealReg(s, r), r, r)

(* A virtual definition keeps its register, or is forced into the one the     *)
(* successor wants its parameter in, or takes the desired one when free.     *)
Desires(s, v, succ) ==
    LET st == s.vs[v]
        d == DesiredReg(st.desired)
    IN  /\ d # 0 /\ st.r # d
        /\ (st.isPhi /\ st.defBlk = succ) \/ (s.regs[d] = 0 /\ st.r = 0)

PlaceDef(s, v, instr, succ) ==
    LET st == s.vs[v]
        d == DesiredReg(st.desired)
        freed == IF st.r # 0 THEN releaseRealReg(s, st.r) ELSE s
        src == IF IsCopy(instr) THEN instr.ruses[1] ELSE 0
        r == IF src # 0 /\ s.regs[src] = 0 THEN src ELSE findOrSpillAllocatable(s, {}, 0)
    IN  IF Desires(s, v, succ) THEN useRealReg(releaseRealReg(freed, d), d, v)
        ELSE IF st.r # 0 THEN s
        ELSE useRealReg(releaseRealReg(s, r), r, v)

DefineVirtual(s, b, i, succ) ==
    LET v == s.code[b][i].defs[1]
        s1 == PlaceDef(s, v, s.code[b][i], succ)
        r == s1.vs[v].r
        s2 == [s1 EXCEPT !.code[b][i].rdefs[1] = r]
    IN  IF ~s.vs[v].isPhi THEN [s2 EXCEPT !.vs[v].def = i, !.vs[v].defBlk = b]
        ELSE IF WantsStack(s.vs[v].desired) THEN releaseRealReg(StoreAfter(s2, b, i, v, r), r)
        ELSE [s2 EXCEPT !.vs[v].phiDefs = <<[blk |-> b, i |-> i, r |-> r]>> \o @]

AllocDefs(s, b, i, succ) ==
    LET defs == s.code[b][i].defs
    IN  IF Len(defs) = 1 /\ ~IsRealReg(defs[1]) THEN DefineVirtual(s, b, i, succ)
        ELSE FoldLeft(DefineReal, s, defs)

AllocInstr(s, b, i, succ) ==
    LET read == AllocUses(s, b, i)
        called == IF IsCall(s.code[b][i]) THEN releaseCallerSavedRegs(read.a) ELSE read.a
        killed == FoldLeft(releaseRealReg, called, read.kill)
    IN  AllocDefs(killed, b, i, succ)

(* allocBlock before its instructions: the start state, the last uses and the *)
(* desired registers; and after them: the end state, and the start states of *)
(* the successors that have none.                                            *)
BeginBlock(s, b) ==
    LET st == s.blocks[b].startRegs
        started == FoldLeft(LAMBDA t, r : useRealReg(t, r, st[r]), Emptied([s EXCEPT !.current = b]), InUse(st))
    IN  PropagateDesired(FoldLeft(WantedBy, LastUses(started, b), Succs(b)), b, LastSucc(b))

EndBlock(s, b) ==
    FoldLeft(finalizeStartReg,
             [s EXCEPT !.blocks[b].endRegs = s.regs, !.blocks[b].visited = TRUE,
                       !.vs = [v \in DOMAIN @ |-> [@[v] EXCEPT !.desired = DesiredUnspecified]]],
             Succs(b))

---------------------------------------------------------------------------
(* fixMergeState: an edge into a block that starts from another predecessor   *)
(* brings every value to the register the block expects it in.               *)

(* Mutant of reconcileEdge: the register a swap goes through is not recorded  *)
(* as allocated.                                                             *)
reconcileEdgeUnrecorded(s, pred, r, free) ==
    LET end == LastInstrForInsertion(s.a, pred)
        want == s.startRegs[r]
        have == s.a.regs[r]
        er == s.a.vs[want].r
        reloaded(t) == ReloadBefore(recordReload(t, want, pred), pred, end, want, r)
        fixed ==
            IF have # 0 /\ er = 0
            THEN useRealReg(reloaded(releaseRealReg(StoreBefore(s.a, pred, end, have, r), r)), r, want)
            ELSE IF have # 0
            THEN LET swapped == SwapBefore(s.a, pred, end, have, r, er, free)
                 IN  useRealReg(useRealReg(releaseRealReg(releaseRealReg(swapped, r), er), r, want), er, have)
            ELSE IF er # 0
            THEN useRealReg(releaseRealReg(InsertMoveBefore(s.a, pred, end, r, er), er), r, want)
            ELSE useRealReg(reloaded(s.a), r, want)
    IN  IF have = want THEN s ELSE [s EXCEPT !.a = fixed]

reconcileEdge(s, pred, r, free) ==
    LET end == LastInstrForInsertion(s.a, pred)
        want == s.startRegs[r]
        have == s.a.regs[r]
        er == s.a.vs[want].r
        reloaded(t) == ReloadBefore(recordReload(t, want, pred), pred, end, want, r)
        fixed ==
            IF have # 0 /\ er = 0
            THEN useRealReg(reloaded(releaseRealReg(StoreBefore(s.a, pred, end, have, r), r)), r, want)
            ELSE IF have # 0
            THEN LET swapped == SwapBefore([s.a EXCEPT !.allocated = @ \cup ({free} \ {0})], pred, end, have, r, er, free)
                 IN  useRealReg(useRealReg(releaseRealReg(releaseRealReg(swapped, r), er), r, want), er, have)
            ELSE IF er # 0
            THEN useRealReg(releaseRealReg(InsertMoveBefore(s.a, pred, end, r, er), er), r, want)
            ELSE useRealReg(reloaded(s.a), r, want)
    IN  IF have = want THEN s ELSE [s EXCEPT !.a = fixed]

FixEdge(s, b, i) ==
    LET start == s.blocks[b].startRegs
        at0 == resetAt(s, s.blocks[Pred(b, i)])
        free == findAllocatable(at0, ToSet(InUse(start)))
    IN  FoldLeft(LAMBDA t, r : reconcileEdge(t, Pred(b, i), r, free), [a |-> at0, startRegs |-> start], InUse(start)).a

fixMergeState(s, b) ==
    IF Preds(b) < 2 THEN s
    ELSE FoldLeft(LAMBDA t, i : IF i = s.blocks[b].from THEN t ELSE FixEdge(t, b, i),
                  updateLiveInVRState([s EXCEPT !.current = b], b), [i \in 1..Preds(b) |-> i])

---------------------------------------------------------------------------
(* scheduleSpill: after every definition of a parameter; otherwise up the     *)
(* dominator tree from the common ancestor of the reloads, at the start of   *)
(* the first block that has the value in a register, else after the          *)
(* definition.                                                               *)

RegAtStart(s, b, v) == LET rs == SelectSeq(InUse(s.blocks[b].startRegs), LAMBDA r : s.blocks[b].startRegs[r] = v)
                       IN  IF rs = <<>> THEN 0 ELSE Head(rs)

RECURSIVE SpillBlock(_, _, _)
SpillBlock(s, v, pos) ==
    IF pos = s.vs[v].defBlk \/ RegAtStart(s, pos, v) # 0 THEN pos ELSE SpillBlock(s, v, cfg.doms[pos])

(* Mutant of scheduleSpill: a parameter is stored after one of its            *)
(* definitions.                                                              *)
scheduleSpillOnce(s, v) ==
    LET st == s.vs[v]
        pos == SpillBlock(s, v, st.lca)
    IN  IF st.isPhi THEN StoreAfter(s, Last(st.phiDefs).blk, Last(st.phiDefs).i, v, Last(st.phiDefs).r)
        ELSE IF pos = st.defBlk THEN StoreAfter(s, pos, st.def, v, s.code[pos][st.def].rdefs[1])
        ELSE StoreAfter(s, pos, 1, v, RegAtStart(s, pos, v))

scheduleSpill(s, v) ==
    LET st == s.vs[v]
        pos == SpillBlock(s, v, st.lca)
    IN  IF st.isPhi THEN FoldLeft(LAMBDA t, d : StoreAfter(t, d.blk, d.i, v, d.r), s, st.phiDefs)
        ELSE IF pos = st.defBlk THEN StoreAfter(s, pos, st.def, v, s.code[pos][st.def].rdefs[1])
        ELSE StoreAfter(s, pos, 1, v, RegAtStart(s, pos, v))

Spilled(s) == Ascending({v \in DOMAIN s.vs : s.vs[v].spilled})

(* determineCalleeSavedRealRegs: what the prologue saves.                     *)
Clobbered(s) == s.allocated \cap CalleeSaved

---------------------------------------------------------------------------
(* The code. *)

Scratch == NumRegs + 1      \* arm64's tmpRegVReg, never allocated

swap(m, i) ==
    LET via(t) == <<[op |-> "move", dst |-> t, src |-> i.x1], [op |-> "move", dst |-> i.x1, src |-> i.x2], [op |-> "move", dst |-> i.x2, src |-> t]>>
    IN  IF m.typ = "int"
        THEN IF m.isa = "amd64" THEN <<[op |-> "xchg", x1 |-> i.x1, x2 |-> i.x2]>> ELSE via(IF i.tmp = 0 THEN Scratch ELSE i.tmp)
        ELSE IF i.tmp # 0 THEN via(i.tmp)
        ELSE <<[op |-> "store", v |-> i.v, r |-> i.x1], [op |-> "move", dst |-> i.x1, src |-> i.x2], [op |-> "reload", v |-> i.v, r |-> i.x2]>>

Emit(m, inserted) == FlattenSeq([k \in DOMAIN inserted |-> IF inserted[k].op = "swap" THEN swap(m, inserted[k]) ELSE <<inserted[k]>>])
Emitted(s, m, b) ==
    FlattenSeq([i \in DOMAIN s.code[b] |-> Emit(m, s.code[b][i].before) \o <<[op |-> "instr", b |-> b, i |-> i]>> \o Emit(m, s.code[b][i].after)])

(* What a step of the machine leaves where.  A location holds the virtual     *)
(* registers whose value it has: registers by number, the slot of v at -v.   *)
Forget(h, vs) == [l \in DOMAIN h |-> h[l] \ vs]
Holding(h, l, vs) == [h EXCEPT ![l] = vs]
Written(h, r, v) == Holding(Forget(h, {v}), r, {v})

Execute(h, i) ==
    CASE i.kind = "copy" ->
           LET u == i.uses[1]
               v == i.defs[1]
               same == [l \in DOMAIN h |-> IF u \in h[l] THEN h[l] \cup {v} ELSE h[l] \ {v}]
           IN  Holding(same, i.rdefs[1], same[i.ruses[1]])
      [] i.kind = "modify" -> Written(h, Last(i.ruses), Last(i.uses))
      [] IsCall(i) ->
           LET lost == IF i.kind = "memmove" THEN Regs ELSE CallerSaved
               after == [l \in DOMAIN h |-> IF l \in lost THEN {l} \cap (Regs \ CallerSaved) ELSE h[l] \ Regs]
           IN  FoldLeft(LAMBDA t, r : Written(t, r, r), after, i.defs)
      [] OTHER -> FoldLeft(LAMBDA t, k : Written(t, i.rdefs[k], i.defs[k]), h, [k \in DOMAIN i.defs |-> k])

StepOf(s, st, e) ==
    CASE e.op = "store" -> [st EXCEPT !.held = Holding(@, -e.v, @[e.r])]
      [] e.op = "reload" -> [st EXCEPT !.held = Holding(@, e.r, @[-e.v])]
      [] e.op = "move" -> [st EXCEPT !.held = Holding(@, e.dst, @[e.src])]
      [] e.op = "xchg" -> [st EXCEPT !.held = [@ EXCEPT ![e.x1] = st.held[e.x2], ![e.x2] = st.held[e.x1]]]
      [] OTHER ->
           LET i == s.code[e.b][e.i]
               wrong == {k \in DOMAIN i.uses : i.uses[k] \notin st.held[i.ruses[k]]}
           IN  [held |-> Execute(st.held, i), misread |-> st.misread \cup {<<e.b, e.i, k>> : k \in wrong}]

RunBlock(b) == FoldLeft(LAMBDA st, e : StepOf(a, st, e), [held |-> held, misread |-> misread], Emitted(a, target, b))

---------------------------------------------------------------------------
NotRunning == UNCHANGED <<target, at, held, misread>>
NoMachine == [isa |-> "none", typ |-> "none"]

Init ==
    /\ text \in Texts
    /\ phase = "ssa" /\ cfg = [blocks |-> <<>>] /\ pc = 0 /\ todo = <<>> /\ a = [code |-> <<>>]
    /\ target = NoMachine /\ at = 0 /\ held = <<>> /\ misread = {}

Compile ==
    /\ phase = "ssa" /\ phase' = "liveness"
    /\ \E g \in {RunPasses(text)} :
         /\ cfg' = g
         /\ a' = NewAllocator(g, lowerBlocks(g))
         /\ todo' = Reverse(g.order)
    /\ UNCHANGED <<pc, text>> /\ NotRunning

AnalyseBlock ==
    /\ phase = "liveness" /\ todo # <<>>
    /\ a' = LivenessOfBlock(a, Head(todo))
    /\ IF Len(todo) > 1 THEN todo' = Tail(todo) /\ phase' = phase
       ELSE todo' = Reverse(loopNestingForestRoots(cfg)) /\ phase' = "loops"
    /\ UNCHANGED <<pc, text, cfg>> /\ NotRunning

AnalyseLoop ==
    /\ phase = "loops" /\ todo # <<>>
    /\ a' = PropagateLoop(a, Last(todo))
    /\ todo' = Front(todo) \o InnerLoops(Last(todo))
    /\ UNCHANGED <<pc, text, phase, cfg>> /\ NotRunning

StartAllocation ==
    /\ phase = "loops" /\ todo = <<>>
    /\ a' = finalizeStartReg(a, Entry)
    /\ todo' = cfg.order /\ phase' = "alloc"
    /\ UNCHANGED <<pc, text, cfg>> /\ NotRunning

(* allocBlock, an instruction at a time; pc is the last one done.             *)
AllocateBlock ==
    /\ phase = "alloc" /\ pc = 0
    /\ a' = BeginBlock(a, Head(todo)) /\ pc' = 1
    /\ UNCHANGED <<text, phase, cfg, todo>> /\ NotRunning

AllocateInstr ==
    /\ phase = "alloc" /\ pc \in 1..Len(a.code[Head(todo)])
    /\ a' = AllocInstr(a, Head(todo), pc, LastSucc(Head(todo))) /\ pc' = pc + 1
    /\ UNCHANGED <<text, phase, cfg, todo>> /\ NotRunning

FinishBlock ==
    /\ phase = "alloc" /\ pc > Len(a.code[Head(todo)])
    /\ a' = EndBlock(a, Head(todo)) /\ pc' = 0
    /\ IF Len(todo) > 1 THEN todo' = Tail(todo) /\ phase' = phase ELSE todo' = cfg.order /\ phase' = "merge"
    /\ UNCHANGED <<text, cfg>> /\ NotRunning

MergeBlock ==
    /\ phase = "merge"
    /\ \E s \in {fixMergeState(a, Head(todo))} :
         /\ a' = s
         /\ IF Len(todo) > 1 THEN todo' = Tail(todo) /\ phase' = phase ELSE todo' = Spilled(s) /\ phase' = "spill"
    /\ UNCHANGED <<pc, text, cfg>> /\ NotRunning

SpillRegister ==
    /\ phase = "spill" /\ todo # <<>>
    /\ a' = scheduleSpill(a, Head(todo)) /\ todo' = Tail(todo)
    /\ UNCHANGED <<pc, text, phase, cfg>> /\ NotRunning

(* The compiled function is called: its arguments are in their registers.     *)
Start ==
    /\ phase = "spill" /\ todo = <<>> /\ phase' = "run"
    /\ target' \in Machines
    /\ at' = Entry
    /\ held' = [l \in (1..Scratch) \cup {-v : v \in DOMAIN a.vs} |->
                   IF l \in ToSet(RegsOf(text[Entry].params)) THEN {l} ELSE {}]
    /\ UNCHANGED <<pc, text, cfg, todo, a, misread>>

(* A block is run and one of its successors follows.                          *)
Run ==
    /\ phase = "run" /\ at # Ret
    /\ \E st \in {RunBlock(at)} : held' = st.held /\ misread' = st.misread
    /\ at' \in ToSet(cfg.blocks[at].success)
    /\ UNCHANGED <<pc, text, phase, cfg, todo, a, target>>

Next == Compile \/ AnalyseBlock \/ AnalyseLoop \/ StartAllocation \/ AllocateBlock \/ AllocateInstr \/ FinishBlock \/ MergeBlock \/ SpillRegister \/ Start \/ Run
Spec == Init /\ [][Next]_vars

---------------------------------------------------------------------------
(* Every use of every instruction, along every path, reads the value of the   *)
(* virtual register it names: no register is reused while its value is       *)
(* needed, no call loses one, no edge delivers one to the wrong place and no *)
(* slot is reloaded before it is stored.                                     *)
UsesReadTheirValues == misread = {}

(* The registers the code writes that its caller expects back are the ones    *)
(* the prologue saves.                                                       *)
WrittenRegs(b) ==
    LET code == a.code[b]
        Dst(e) == IF e.op \in {"reload"} THEN {e.r} ELSE IF e.op = "move" THEN {e.dst} ELSE IF e.op = "xchg" THEN {e.x1, e.x2} ELSE {}
    IN  UNION {ToSet(code[i].rdefs) \cup (IF code[i].kind = "modify" THEN {Last(code[i].ruses)} ELSE {}) : i \in DOMAIN code}
        \cup UNION {Dst(e) : e \in ToSet(Emitted(a, target, b))}
WrittenRegistersSaved ==
    (phase = "run" /\ at = Entry) =>
        \A b \in DOMAIN a.code : WrittenRegs(b) \cap CalleeSaved \subseteq Clobbered(a)

(* The moves at the end of a block pass its arguments together: each          *)
(* parameter ends with what its argument was before the first of them, also  *)
(* where the branch permutes the parameters of a loop.                       *)
Env(moves, const) ==
    FoldLeft(LAMBDA env, i : [env EXCEPT ![i.defs[1]] = IF i.uses = <<>> THEN const ELSE env[i.uses[1]]],
             [v \in DOMAIN a.vs |-> v], moves)
ArgumentsMoveTogether ==
    (phase = "liveness" /\ Len(todo) = Len(cfg.order)) =>
        \A b \in ToSet(cfg.order) :
            LET jump == cfg.blocks[b].jump
                params == cfg.blocks[jump.to].params
                env == Env(lowerBlockArguments(jump.args, params, FreshFor(b)), 0)
            IN  jump.args # <<>> /\ jump.to # Ret => \A i \in DOMAIN params : env[params[i]] = jump.args[i]

(* The dominator tree built block by block is the one the paths define, for   *)
(* the blocks the split edges added as well: the immediate dominator of each *)
(* block, and the lowest common ancestor of each two.                        *)
DominatorTreeExact ==
    (phase = "liveness" /\ Len(todo) = Len(cfg.order)) =>
        LET blocks == cfg.blocks
            all == ToSet(cfg.order)
        IN  /\ all = DOMAIN blocks \ {Ret}
            /\ \A b \in all \ {Entry} : cfg.doms[b] = Lowest(blocks, Dominators(blocks, b) \ {b})
            /\ \A u, v \in all : findLCA(cfg.tree, u, v) = Lowest(blocks, Dominators(blocks, u) \cap Dominators(blocks, v))
==============================================================================
