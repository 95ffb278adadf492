------------------------------ MODULE Namespace ------------------------------
(***************************************************************************)
(* The NSB1 namespace of internal/wasmsnapshot/nsb1.go: a B-tree packed    *)
(* bottom-up in one pass (nsBulkLoad) and read back by a validating walk   *)
(* (nsCollect).  A page image is a header and a sequence of nodes; page    *)
(* numbers are positions in that sequence, page 0 is the header.           *)
(*                                                                         *)
(* What is abstracted: a node is a record instead of 4096 bytes, so the    *)
(* checks that the two arrays of a node fit in its page (which follow from *)
(* count <= order) have no counterpart.                                    *)
(***************************************************************************)
EXTENDS Integers, Sequences, SequencesExt, FiniteSetsExt

CONSTANT Fanout     \* nsOrder: keys per node, 170 in the code

ASSUME FanoutAssumption == Fanout \in Nat \ {0}

nsMaxDepth == 16

\* Consecutive runs of at most n elements of s.
Runs(s, n) ==
    [i \in 1..((Len(s) + n - 1) \div n) |->
        SubSeq(s, (i - 1) * n + 1, Min({i * n, Len(s)}))]

Ascending(keys) == \A i \in 1..(Len(keys) - 1) : keys[i] < keys[i + 1]

Leaf(run) ==
    [leaf |-> TRUE, keys |-> [i \in DOMAIN run |-> run[i].key],
     descs |-> [i \in DOMAIN run |-> run[i].desc]]

\* Mutant of Internal: the smallest key of the child before instead.
InternalOfPrevious(group) ==
    [leaf |-> FALSE, keys |-> [i \in 1..(Len(group) - 1) |-> group[i].minKey],
     children |-> [i \in DOMAIN group |-> group[i].page]]

\* An internal node: every child but the first is preceded by the smallest
\* key reachable through it.
Internal(group) ==
    [leaf |-> FALSE, keys |-> [i \in 1..(Len(group) - 1) |-> group[i + 1].minKey],
     children |-> [i \in DOMAIN group |-> group[i].page]]

\* The levels above `level`, until one node remains.
RECURSIVE Raise(_, _)
Raise(level, pages) ==
    IF Len(level) <= 1 THEN [level |-> level, pages |-> pages]
    ELSE LET groups == Runs(level, Fanout + 1)
         IN  Raise([i \in DOMAIN groups |->
                       [page |-> Len(pages) + i, minKey |-> groups[i][1].minKey]],
                   pages \o [i \in DOMAIN groups |-> Internal(groups[i])])

\* The image of a batch; ok is FALSE for the batch the code refuses, one whose
\* keys are not strictly ascending.
nsBulkLoad(entries) ==
    LET leaves == Runs(entries, Fanout)
        tree   == Raise([i \in DOMAIN leaves |->
                            [page |-> i, minKey |-> leaves[i][1].key]],
                        [i \in DOMAIN leaves |-> Leaf(leaves[i])])
        rooted == Len(tree.level) = 1
    IN  [ok |-> Ascending([i \in DOMAIN entries |-> entries[i].key]),
         magic |-> "NSB1", roots |-> <<IF rooted THEN tree.level[1].page ELSE 0, 0>>,
         commits |-> <<IF rooted THEN 1 ELSE 0, 0>>,
         pageCount |-> Len(tree.pages) + 1, pages |-> tree.pages]

\* The committed root: the slot with the higher commit id, 0 when both are empty.
nsReadHeader(image) ==
    IF image.commits = <<0, 0>> THEN 0
    ELSE IF image.commits[2] > image.commits[1] THEN image.roots[2]
    ELSE image.roots[1]

\* A walk's state: what it has collected, the pages it has read, and whether
\* it has refused the image.
Refuse(walk) == [walk EXCEPT !.ok = FALSE]

Readable(image, page, seen) ==
    /\ page # 0
    /\ page < image.pageCount
    /\ page \notin seen
    /\ Len(image.pages[page].keys) <= Fanout

RECURSIVE Walk(_, _, _, _), WalkChildren(_, _, _, _)
Walk(image, page, depth, walk) ==
    IF \/ ~walk.ok
       \/ depth > nsMaxDepth
       \/ ~Readable(image, page, walk.seen)
       \/ ~Ascending(image.pages[page].keys)
    THEN Refuse(walk)
    ELSE LET node == image.pages[page]
             read == [walk EXCEPT !.seen = @ \cup {page}]
         IN  IF ~node.leaf
             THEN WalkChildren(image, node.children, depth + 1, read)
             ELSE IF /\ walk.out # << >>
                     /\ node.keys[1] <= Last(walk.out).key
             THEN Refuse(read)
             ELSE [read EXCEPT !.out = @ \o [i \in DOMAIN node.keys |->
                      [key |-> node.keys[i], desc |-> node.descs[i]]]]

WalkChildren(image, children, depth, walk) ==
    IF children = << >> THEN walk
    ELSE WalkChildren(image, Tail(children), depth, Walk(image, Head(children), depth, walk))

nsCollect(image) ==
    LET root  == nsReadHeader(image)
        start == [ok |-> image.magic = "NSB1" /\ image.pageCount <= Len(image.pages) + 1,
                  out |-> << >>, seen |-> {}]
    IN  IF ~start.ok \/ root = 0 THEN start ELSE Walk(image, root, 1, start)

\* The lookup any namespace reader performs (the reader itself is not part of
\* this repository): descend to child i + 1 when keys[i] <= key < keys[i + 1].
RECURSIVE LookupIn(_, _, _)
LookupIn(image, page, key) ==
    LET node == image.pages[page]
        upto == {i \in DOMAIN node.keys : node.keys[i] <= key}
    IN  IF node.leaf
        THEN {node.descs[i] : i \in {j \in DOMAIN node.keys : node.keys[j] = key}}
        ELSE LookupIn(image, node.children[Cardinality(upto) + 1], key)

nsLookup(image, key) ==
    LET root == nsReadHeader(image)
    IN  IF root = 0 THEN {} ELSE LookupIn(image, root, key)
=============================================================================
