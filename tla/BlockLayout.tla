---------------------------- MODULE BlockLayout ----------------------------
(***************************************************************************)
(* The passes of the SSA builder over the blocks of a function: the reverse  *)
(* post-order, the immediate dominators and the loop headers, the layout    *)
(* that splits the critical edges, the loop nesting forest and the          *)
(* dominator tree the register allocator asks for common ancestors.         *)
(*                                                                          *)
(* A function's blocks are numbered in program order, 1 the entry; Ret is    *)
(* the return block.  A block has its parameters, its body, the successors  *)
(* and predecessors its branches make, and the branches that end it: "cond" *)
(* if it has one, and "jump".  A predecessor is [blk, br], the block and     *)
(* which of its branches comes here.                                        *)
(***************************************************************************)
EXTENDS Integers, Sequences, FiniteSets, SequencesExt

Ret == 0
Entry == 1
NoBranch == [to |-> -1, args |-> <<>>]

HasCond(blk) == blk.cond # NoBranch
Targets(blk) == {blk.jump.to} \cup (IF HasCond(blk) THEN {blk.cond.to} ELSE {})

Ascending(S) == [i \in 1..Cardinality(S) |-> CHOOSE x \in S : Cardinality({y \in S : y < x}) = i - 1]

(* passSortSuccessors: the return block first, then in program order.        *)
passSortSuccessors(targets) == Ascending(targets)

(* The blocks the frontend built from the text of a function: a predecessor  *)
(* is added when the branch is inserted.                                    *)
Built(text) ==
    LET Edges(b) == SelectSeq(<<[blk |-> b, br |-> "cond"], [blk |-> b, br |-> "jump"]>>,
                              LAMBDA e : text[b][e.br] # NoBranch)
        All == FlattenSeq([b \in 1..Len(text) |-> Edges(b)])
    IN  [b \in 0..Len(text) |->
            [params |-> IF b = Ret THEN <<>> ELSE text[b].params,
             body |-> IF b = Ret THEN <<>> ELSE text[b].body,
             on |-> IF b = Ret THEN 0 ELSE text[b].on,
             cond |-> IF b = Ret THEN NoBranch ELSE text[b].cond,
             jump |-> IF b = Ret THEN NoBranch ELSE text[b].jump,
             success |-> IF b = Ret THEN <<>> ELSE passSortSuccessors(Targets(text[b])),
             preds |-> SelectSeq(All, LAMBDA e : text[e.blk][e.br].to = b)]]

---------------------------------------------------------------------------
(* passCalculateImmediateDominators: an explicit stack on which a block is   *)
(* pushed when first seen and popped for good once its successors are.      *)

RECURSIVE Explore(_, _, _, _)
Explore(blocks, stack, visited, order) ==
    IF stack = <<>> THEN order
    ELSE LET blk == Last(stack)
             unseen == SelectSeq(blocks[blk].success, LAMBDA s : s # Ret /\ visited[s] = "unseen")
         IN  IF visited[blk] = "done"
             THEN Explore(blocks, Front(stack), visited, Append(order, blk))
             ELSE Explore(blocks, stack \o unseen,
                          [b \in DOMAIN visited |-> IF b = blk THEN "done"
                                                    ELSE IF b \in ToSet(unseen) THEN "seen" ELSE visited[b]],
                          order)

reversePostOrder(blocks) ==
    Reverse(Explore(blocks, <<Entry>>, [b \in DOMAIN blocks |-> IF b = Entry THEN "seen" ELSE "unseen"], <<>>))

(* The position of every block; that of the return block is never set.      *)
Positions(blocks, order) == [b \in DOMAIN blocks |-> IF b = Ret THEN 0 ELSE SelectInSeq(order, LAMBDA x : x = b) - 1]

RECURSIVE intersect(_, _, _, _)
intersect(doms, rpo, finger1, finger2) ==
    IF finger1 = finger2 THEN finger1
    ELSE IF rpo[finger1] > rpo[finger2] THEN intersect(doms, rpo, doms[finger1], finger2)
    ELSE intersect(doms, rpo, finger1, doms[finger2])

DominatorOf(blocks, rpo, doms, blk) ==
    FoldLeft(LAMBDA u, p : IF doms[p.blk] = 0 THEN u ELSE IF u = 0 THEN p.blk ELSE intersect(doms, rpo, u, p.blk),
             0, blocks[blk].preds)

RECURSIVE calculateDominators(_, _, _, _)
calculateDominators(blocks, order, rpo, doms) ==
    LET round == FoldLeft(LAMBDA d, blk : [d EXCEPT ![blk] = DominatorOf(blocks, rpo, d, blk)], doms, Tail(order))
    IN  IF round = doms THEN doms ELSE calculateDominators(blocks, order, rpo, round)

RECURSIVE isDominatedBy(_, _, _)
isDominatedBy(doms, n, d) == IF n = d \/ n = Entry THEN n = d ELSE isDominatedBy(doms, doms[n], d)

(* subPassLoopDetection *)
LoopHeaders(blocks, doms) ==
    {b \in DOMAIN blocks \ {Ret} : \E i \in DOMAIN blocks[b].preds : isDominatedBy(doms, blocks[b].preds[i].blk, b)}

passCalculateImmediateDominators(blocks) ==
    LET order == reversePostOrder(blocks)
        rpo == Positions(blocks, order)
        doms == calculateDominators(blocks, order, rpo, [b \in DOMAIN blocks |-> IF b = Entry THEN Entry ELSE 0])
    IN  [blocks |-> blocks, order |-> order, rpo |-> rpo, doms |-> doms, headers |-> LoopHeaders(blocks, doms),
         inserted |-> {}]

---------------------------------------------------------------------------
(* passLayoutBlocks *)

(* The branches of a block change targets when that makes the next block, or *)
(* the way to a loop header, the fall-through; those with arguments stay.   *)
Inverts(g, blk, next) ==
    LET b == g.blocks[blk]
    IN  /\ HasCond(b) /\ b.cond.args = <<>> /\ b.jump.args = <<>>
        /\ b.jump.to \notin g.headers
        /\ b.cond.to \in g.headers \/ (b.jump.to # next /\ b.cond.to = next)

Renamed(preds, blk, from, to) == [i \in DOMAIN preds |-> IF preds[i] = [blk |-> blk, br |-> from] THEN [blk |-> blk, br |-> to] ELSE preds[i]]

maybeInvertBranches(g, blk, next) ==
    IF ~Inverts(g, blk, next) THEN g
    ELSE LET b == g.blocks[blk]
         IN  [g EXCEPT !.blocks[b.jump.to].preds = Renamed(@, blk, "jump", "cond"),
                       !.blocks[b.cond.to].preds = Renamed(@, blk, "cond", "jump"),
                       !.blocks[blk].cond = b.jump, !.blocks[blk].jump = b.cond]

(* The branch that was the edge becomes the only one of a new block, which   *)
(* takes the position of the edge's source.                                 *)
splitCriticalEdge(g, pred, succ) ==
    LET i == SelectInSeq(g.blocks[succ].preds, LAMBDA e : e.blk = pred)
        br == g.blocks[succ].preds[i].br
        t == Cardinality(DOMAIN g.blocks)
        trampoline == [params |-> <<>>, body |-> <<>>, on |-> 0, cond |-> NoBranch, jump |-> g.blocks[pred][br],
                       success |-> <<succ>>, preds |-> <<[blk |-> pred, br |-> br]>>]
        kept == [g.blocks EXCEPT ![pred][br] = [to |-> t, args |-> <<>>],
                                 ![pred].success = [k \in DOMAIN @ |-> IF @[k] = succ THEN t ELSE @[k]],
                                 ![succ].preds[i] = [blk |-> t, br |-> "jump"]]
    IN  [g EXCEPT !.blocks = [b \in 0..t |-> IF b = t THEN trampoline ELSE kept[b]],
                  !.rpo = [b \in 0..t |-> IF b = t THEN g.rpo[pred] ELSE g.rpo[b]],
                  !.doms = [b \in 0..t |-> IF b = t THEN pred ELSE g.doms[b]]]

Place(g, blk) == [g EXCEPT !.order = Append(@, blk), !.inserted = @ \cup {blk}]

(* Trampolines towards this block come before it.                            *)
PlaceWaiting(g, blk) ==
    FoldLeft(LAMBDA h, e : IF e.blk \in h.inserted \/ h.rpo[e.blk] >= h.rpo[blk] THEN h ELSE Place(h, e.blk),
             g, g.blocks[blk].preds)

Critical(g, succ) == succ = Ret \/ Len(g.blocks[succ].preds) > 1

(* Every critical edge of blk is split; a trampoline that is the fall-through *)
(* or goes backward is placed at once, the others wait for their target.     *)
SplitEdges(g, blk) ==
    LET split == FoldLeft(LAMBDA h, succ :
                     IF ~Critical(h.g, succ) THEN h
                     ELSE LET s == splitCriticalEdge(h.g, blk, succ)
                              t == Cardinality(DOMAIN h.g.blocks)
                          IN  IF s.blocks[blk].jump.to = t THEN [h EXCEPT !.g = Place(s, t)]
                              ELSE [h EXCEPT !.g = s, !.waiting = Append(@, t)],
                     [g |-> g, waiting |-> <<>>], g.blocks[blk].success)
    IN  FoldLeft(LAMBDA h, t : IF h.rpo[h.blocks[t].success[1]] <= h.rpo[t] THEN Place(h, t) ELSE h, split.g, split.waiting)

LayBlock(g, blk) ==
    LET placed == Place(PlaceWaiting(g, blk), blk)
    IN  IF Len(g.blocks[blk].success) < 2 THEN placed ELSE SplitEdges(placed, blk)

passLayoutBlocks(g) ==
    LET inverted == FoldLeft(LAMBDA h, i : maybeInvertBranches(h, g.order[i], g.order[i + 1]), g, [i \in 1..(Len(g.order) - 1) |-> i])
    IN  FoldLeft(LayBlock, [inverted EXCEPT !.order = <<>>], g.order)

---------------------------------------------------------------------------
(* passBuildLoopNestingForest *)

RECURSIVE EnclosingLoop(_, _)
EnclosingLoop(g, n) == IF n \in g.headers \/ n = Entry THEN n ELSE EnclosingLoop(g, g.doms[n])
InForest(g, parent) == SelectSeq(g.order, LAMBDA b : b # Entry /\ EnclosingLoop(g, g.doms[b]) = parent)
loopNestingForestRoots(g) == SelectSeq(InForest(g, Entry), LAMBDA b : b \in g.headers)
loopNestingForestChildren(g, header) == InForest(g, header)

(* passBuildDominatorTree: the children of a block, the last one linked      *)
(* first; the Euler tour of the tree; and the table of range minima.         *)
DominatorChildren(g, blk) == Reverse(SelectSeq(g.order, LAMBDA b : b # Entry /\ g.doms[b] = blk))

RECURSIVE eulerTour(_, _, _)
eulerTour(g, node, height) ==
    FoldLeft(LAMBDA tour, child : tour \o eulerTour(g, child, height + 1) \o <<[node |-> node, depth |-> height]>>,
             <<[node |-> node, depth |-> height]>>, DominatorChildren(g, node))

Shallower(tour, x, y, ties) == IF tour[x].depth < tour[y].depth \/ (ties /\ tour[x].depth = tour[y].depth) THEN x ELSE y

(* Row j of the table: at i, the shallowest of the 2^j visits from i on.      *)
buildSparseTable(tour) ==
    LET rows[j \in 0..6] ==
            IF j = 0 THEN [i \in DOMAIN tour |-> i]
            ELSE [i \in {k \in DOMAIN tour : k + 2^j - 1 <= Len(tour)} |->
                     Shallower(tour, rows[j - 1][i], rows[j - 1][i + 2^(j - 1)], FALSE)]
    IN  [j \in {k \in 0..6 : 2^k <= Len(tour)} |-> rows[j]]

passBuildDominatorTree(g) == LET tour == eulerTour(g, Entry, 0) IN [tour |-> tour, table |-> buildSparseTable(tour)]

(* Mutant of rmq: only the first of the two overlapping ranges is asked.      *)
rmqFirstRange(tree, l, r) ==
    LET j == CHOOSE k \in 0..6 : 2^k <= r - l + 1 /\ r - l + 1 < 2^(k + 1)
    IN  tree.table[j][l]

rmq(tree, l, r) ==
    LET j == CHOOSE k \in 0..6 : 2^k <= r - l + 1 /\ r - l + 1 < 2^(k + 1)
    IN  Shallower(tree.tour, tree.table[j][l], tree.table[j][r - 2^j + 1], TRUE)

findLCA(tree, u, v) ==
    LET First(b) == SelectInSeq(tree.tour, LAMBDA x : x.node = b)
        Low(x, y) == IF x < y THEN x ELSE y
        High(x, y) == IF x < y THEN y ELSE x
    IN  tree.tour[rmq(tree, Low(First(u), First(v)), High(First(u), First(v)))].node

RunPasses(text) ==
    LET g == passLayoutBlocks(passCalculateImmediateDominators(Built(text)))
    IN  [blocks |-> g.blocks, order |-> g.order, doms |-> g.doms, headers |-> g.headers, tree |-> passBuildDominatorTree(g)]

---------------------------------------------------------------------------
(* What the passes compute, by definition.                                   *)

RECURSIVE ReachableFrom(_, _, _)
ReachableFrom(blocks, seen, without) ==
    LET next == (seen \cup UNION {ToSet(blocks[b].success) : b \in seen \ {Ret}}) \ {without, Ret}
    IN  IF next = seen THEN seen ELSE ReachableFrom(blocks, next, without)

(* d dominates b: every path from the entry to b goes through d.             *)
Dominates(blocks, d, b) == d = b \/ d = Entry \/ b \notin ReachableFrom(blocks, {Entry}, d)
Dominators(blocks, b) == {d \in DOMAIN blocks \ {Ret} : Dominates(blocks, d, b)}

(* The one of a set of dominators that all the others dominate.              *)
Lowest(blocks, ds) == CHOOSE d \in ds : \A e \in ds : Dominates(blocks, e, d)
==============================================================================
