------------------------- MODULE ThreadsAccessProofs -------------------------
(***************************************************************************)
(* What the proof that the threads of a shared memory implement            *)
(* AtomicMemory is made of: the inductive invariant, the arithmetic of the *)
(* accesses, who may change what under which mutex, how a step looks to    *)
(* AtomicMemory, and the steps of the accesses and of growing.  The steps  *)
(* of waiting and notifying, and the theorems, are in ThreadsProofs.       *)
(***************************************************************************)
EXTENDS Threads, WellFoundedInduction, TLAPS

Steps == {"start", "lock", "rlock", "locked", "write", "exec", "load", "cas", "grown", "waiters",
          "wlock", "elock", "compare", "push", "blocked", "remove", "find", "wake"}
Blocked == {"blocked", "elock", "remove"}

ThreadStates == {Idle} \cup [pc : {"done"}, res : Int] \cup [pc : Steps, op : Operation, old : Int]

\* The types of the state.
TypeOK ==
    /\ <<engine, owner>> \in Builds
    /\ mem \in [Cells -> Int]
    /\ pages \in 1..MaxPages
    /\ view \in 1..MaxPages
    /\ mux \in Threads \cup {Free}
    /\ waiters \in [Cells -> [entry : BOOLEAN, mux : Threads \cup {Free}, list : Seq(Threads)]]
    /\ ready \subseteq Threads
    /\ thread \in [Threads -> ThreadStates]

\* Who holds Mux, and who the mutex of a list.
Holds(t) == thread[t].pc \in {"locked", "write", "grown"} \/ (At(t, "compare") /\ Interpreted)
HoldsList(t, a) == thread[t].pc \in {"rlock", "compare", "push", "remove", "wake"} /\ Op(t).addr = a

MutexInv ==
    \A t \in Threads : /\ mux = t <=> Holds(t)
                       /\ \A a \in Cells : waiters[a].mux = t <=> HoldsList(t, a)

\* What has been checked or read when an operation is at a step, and still holds.
KindAt(pc, kind) ==
    /\ pc # "start" => kind # "size"
    /\ pc \in {"lock", "locked"} => kind \in Accesses \cup {"grow"}
    /\ pc \in {"write", "exec"} => kind \in Accesses
    /\ pc \in {"load", "cas"} => kind \in Logical
    /\ pc = "grown" => kind = "grow"
    /\ pc \in {"waiters", "rlock", "compare", "push"} \cup Blocked => kind = "wait"
    /\ pc \in {"find", "wake"} => kind = "notify"
    /\ pc = "wlock" => kind \in {"wait", "notify"}

Place(t) ==
    LET c == thread[t]
    IN  c.pc \in Steps =>
            /\ KindAt(c.pc, c.op.kind)
            /\ c.pc # "start" /\ c.op.kind # "grow" =>
                   c.op.aligned /\ (c.op.addr < Length(t) \/ (Interpreted /\ c.op.kind \in Accesses))
            /\ c.pc \in {"lock", "locked"} => c.op.kind = "grow" \/ Interpreted
            /\ c.pc \in {"write", "rlock"} => Interpreted
            /\ c.pc \in {"exec", "load", "cas"} => ~Interpreted
            /\ c.pc = "write" => c.op.kind # "load" /\ c.op.addr < pages /\ c.old = mem[c.op.addr]
            /\ c.pc = "grown" => c.old = view /\ view < pages /\ pages = view + c.op.arg
            /\ c.pc \in {"elock", "remove"} => c.op.timed
            /\ c.pc \in {"wlock", "rlock", "compare", "push", "wake"} \cup Blocked =>
                   waiters[c.op.addr].entry

\* The length compiled code keeps lags behind only while it is being refreshed.
ViewInv == view = pages \/ (mux \in Threads /\ At(mux, "grown"))

\* A list holds threads that wait on its address and have not been notified, once each.
Listed(a) ==
    LET l == waiters[a].list
    IN  /\ \A i \in 1..Len(l) : /\ thread[l[i]].pc \in Blocked /\ Op(l[i]).addr = a
                                /\ l[i] \notin ready
        /\ \A i, j \in 1..Len(l) : l[i] = l[j] => i = j

QueueInv ==
    /\ \A a \in Cells : Listed(a)
    /\ \A t \in ready : thread[t].pc \in Blocked

IInv == TypeOK /\ MutexInv /\ (\A t \in Threads : Place(t)) /\ ViewInv /\ QueueInv
-----------------------------------------------------------------------------
(* Arithmetic modulo the word, and the bitwise operators. *)

LEMMA DivMod ==
    ASSUME NEW w \in Nat \ {0}, NEW x \in Int
    PROVE  x = w * (x \div w) + (x % w) /\ x \div w \in Int /\ x % w \in 0..(w - 1)
OBVIOUS

LEMMA RemainderUnique ==
    ASSUME NEW w \in Nat \ {0}, NEW p \in Int, NEW q \in Int, NEW r \in 0..(w - 1),
           NEW s \in 0..(w - 1), w * p + r = w * q + s
    PROVE  r = s
<1>1. w * (p - q) = s - r
    OBVIOUS
<1>2. CASE p - q >= 1
    <2>1. w * (p - q) >= w
        BY <1>2
    <2> QED BY <1>1, <2>1
<1>3. CASE p - q <= -1
    <2>1. w * (p - q) <= -w
        BY <1>3
    <2> QED BY <1>1, <2>1
<1>4. CASE p = q
    BY <1>1, <1>4
<1> QED BY <1>2, <1>3, <1>4

\* Subtracting is adding the negated operand.
LEMMA SubtractByAdding ==
    ASSUME NEW w \in Nat \ {0}, NEW x \in Int, NEW y \in Int
    PROVE  (x + ((w - y) % w)) % w = (x - y) % w
<1> DEFINE r == (w - y) % w
           k == (w - y) \div w
           u == (x + r) % w
           i == (x + r) \div w
           v == (x - y) % w
           j == (x - y) \div w
<1>0. w - y \in Int /\ x - y \in Int
    OBVIOUS
<1>1. w - y = w * k + r /\ k \in Int /\ r \in 0..(w - 1)
    BY <1>0, DivMod, Zenon
<1>2. x + r = w * i + u /\ i \in Int /\ u \in 0..(w - 1)
    <2>1. \A z \in 0..(w - 1) : x + z \in Int
        OBVIOUS
    <2>2. x + r \in Int
        BY <1>1, <2>1, Zenon
    <2> QED BY <2>2, DivMod, Zenon
<1>3. x - y = w * j + v /\ j \in Int /\ v \in 0..(w - 1)
    BY <1>0, DivMod, Zenon
<1> HIDE DEF r, k, u, i, v, j
<1>4. w * i + u = w * (j + (1 - k)) + v /\ j + (1 - k) \in Int
    BY <1>1, <1>2, <1>3
<1>5. PICK m \in Int : w * i + u = w * m + v
    BY <1>4
<1>6. u = v
    BY <1>2, <1>3, <1>5, RemainderUnique, Zenon
<1> QED BY <1>6 DEF u, v, r

Below == {ss \in Nat \X Nat : ss[1] < ss[2]}

LEMMA Induction ==
    ASSUME NEW P \in SUBSET Nat, 0 \in P, \A n \in P : n + 1 \in P
    PROVE  P = Nat
<1> SUFFICES ASSUME Nat \ P # {} PROVE FALSE
    BY Zenon
<1>1. IsWellFoundedOn(Below, Nat)
    BY NatLessThanWellFounded DEF OpToRel, Below
<1>2. PICK m \in Nat \ P : \A k \in Nat \ P : ~(<<k, m>> \in Below)
    BY <1>1, WFMin, Zenon
<1>3. m # 0 /\ m - 1 \in Nat /\ (m - 1) + 1 = m /\ m - 1 < m
    OBVIOUS
<1>4. <<m - 1, m>> \in Below
    BY <1>3 DEF Below
<1> QED BY <1>2, <1>3, <1>4

LEMMA Powers == Word \in Nat \ {0} /\ \A i \in 0..(Bits - 1) : 2 ^ i \in Int
<1>1. Bits \in 0..Bits /\ \A i \in 0..(Bits - 1) : i \in 0..Bits
    BY MemoryAssumption
<1>2. \A n \in 0..Bits : 2 ^ n \in Nat \ {0}
    BY PowerAssumption
<1> QED BY <1>1, <1>2 DEF Word

\* A recursive function is what it says once some function solves its equation.
LEMMA NumberIsInt == ASSUME NEW ones PROVE Number(ones) \in Int
<1> DEFINE D(n) == IF n - 1 \in ones THEN 2 ^ (n - 1) ELSE 0
           V(n, h) == IF n = 0 THEN 0 ELSE h[n - 1] + D(n)
           P == {k \in Nat : k <= Bits => \E h \in [0..k -> Int] : \A n \in 0..k : h[n] = V(n, h)}
           F(h) == [n \in 0..Bits |-> V(n, h)]
           H == CHOOSE h : h = F(h)
<1>0. Bits \in Nat
    BY MemoryAssumption
<1>1. \A n \in 1..Bits : D(n) \in Int
    <2> TAKE n \in 1..Bits
    <2>1. n - 1 \in 0..(Bits - 1)
        BY <1>0
    <2> QED BY <2>1, Powers
<1> HIDE DEF D
<1>2. 0 \in P
    <2>1. [n \in 0..0 |-> 0] \in [0..0 -> Int] /\ \A n \in 0..0 : [m \in 0..0 |-> 0][n] = V(n, [m \in 0..0 |-> 0])
        OBVIOUS
    <2> QED BY <2>1, Zenon
<1>3. ASSUME NEW k \in P PROVE k + 1 \in P
    <2>1. k \in Nat /\ k + 1 \in Nat
        OBVIOUS
    <2>2. SUFFICES ASSUME k + 1 <= Bits
                   PROVE  \E h \in [0..(k + 1) -> Int] : \A n \in 0..(k + 1) : h[n] = V(n, h)
        BY <2>1
    <2>3. PICK h \in [0..k -> Int] : \A n \in 0..k : h[n] = V(n, h)
        BY <1>0, <2>1, <2>2
    <2> DEFINE g == [n \in 0..(k + 1) |-> IF n = k + 1 THEN h[k] + D(n) ELSE h[n]]
    <2>4. h[k] \in Int /\ D(k + 1) \in Int
        BY <1>0, <1>1, <2>1, <2>2
    <2>5. g \in [0..(k + 1) -> Int]
        BY <2>1, <2>4
    <2>6. ASSUME NEW n \in 0..(k + 1) PROVE g[n] = V(n, g)
        <3>1. CASE n = k + 1
            <4>1. (k + 1) - 1 = k /\ k \in 0..(k + 1) /\ k # k + 1 /\ k + 1 # 0 /\ k + 1 \in 0..(k + 1)
                BY <2>1
            <4> QED BY <3>1, <4>1
        <3>2. CASE n # k + 1
            <4>1. n \in 0..k /\ (n # 0 => n - 1 \in 0..k /\ n - 1 \in 0..(k + 1) /\ n - 1 # k + 1)
                BY <2>1, <3>2
            <4>2. g[n] = h[n] /\ (n # 0 => g[n - 1] = h[n - 1])
                BY <3>2, <4>1
            <4> HIDE DEF g
            <4> QED BY <2>3, <4>1, <4>2
        <3> QED BY <3>1, <3>2
    <2> HIDE DEF g
    <2> QED BY <2>5, <2>6, Zenon
<1>4. Bits \in P
    <2>1. P \in SUBSET Nat
        OBVIOUS
    <2> HIDE DEF P
    <2> QED BY <1>0, <1>2, <1>3, <2>1, Induction
<1>5. PICK h \in [0..Bits -> Int] : \A n \in 0..Bits : h[n] = V(n, h)
    BY <1>0, <1>4
<1>6. h = F(h)
    BY <1>5
<1>7. H = F(H)
    <2> HIDE DEF F
    <2> QED BY <1>6
<1>8. \A n \in 0..Bits : H[n] = V(n, H)
    <2> HIDE DEF H
    <2> QED BY <1>7, Zenon
<1>9. Number(ones) = H[Bits]
    BY DEF Number, D
<1> DEFINE Q == {k \in Nat : k <= Bits => H[k] \in Int}
<1> HIDE DEF H
<1>10. 0 \in Q
    BY <1>0, <1>8
<1>11. ASSUME NEW k \in Q PROVE k + 1 \in Q
    <2>1. k \in Nat /\ k + 1 \in Nat /\ (k + 1) - 1 = k /\ k + 1 # 0
        OBVIOUS
    <2>2. SUFFICES ASSUME k + 1 <= Bits PROVE H[k + 1] \in Int
        BY <2>1
    <2>3. H[k + 1] = H[k] + D(k + 1) /\ H[k] \in Int /\ D(k + 1) \in Int
        BY <1>0, <1>1, <1>8, <2>1, <2>2
    <2> QED BY <2>3
<1>12. Bits \in Q
    <2>1. Q \in SUBSET Nat
        OBVIOUS
    <2> HIDE DEF Q
    <2> QED BY <1>0, <1>10, <1>11, <2>1, Induction, Zenon
<1> QED BY <1>0, <1>9, <1>12

LEMMA BitwiseIsInt ==
    ASSUME NEW x, NEW y PROVE And(x, y) \in Int /\ Or(x, y) \in Int /\ Xor(x, y) \in Int
BY NumberIsInt DEF And, Or, Xor

LEMMA SameBitwise ==
    ASSUME NEW x, NEW y
    PROVE  Memory!And(x, y) = And(x, y) /\ Memory!Or(x, y) = Or(x, y) /\ Memory!Xor(x, y) = Xor(x, y)
<1>1. \A z : Memory!Ones(z) = Ones(z)
    BY DEF Memory!Ones, Ones
<1>2. \A ones : Memory!Number(ones) = Number(ones)
    BY DEF Memory!Number, Number
<1> QED BY <1>1, <1>2 DEF Memory!And, And, Memory!Or, Or, Memory!Xor, Xor

LEMMA SameSets ==
    /\ Memory!Cells = Cells
    /\ Memory!Accesses = Accesses
    /\ Memory!Word = Word
BY DEF Memory!Cells, Cells, Memory!Accesses, Accesses, Memory!Rmw, Rmw, Memory!Logical, Logical,
       Memory!Word, Word

\* Each engine's way of computing what an access leaves in its cell.
LEMMA ModifyIsAfter ==
    ASSUME NEW op \in Operation, op.kind \in Accesses, NEW old \in Int
    PROVE  Modify(op, old) = Memory!After(op, old) /\ Modify(op, old) \in Int
<1>1. Word \in Nat \ {0} /\ op.arg \in Int /\ op.exp \in Int
    BY Powers DEF Operation, Values
<1>2. Flipped(Flipped(op.arg)) = op.arg
    BY <1>1 DEF Flipped
<1>3. (old + Negated(op.arg)) % Word = (old - op.arg) % Word
    BY <1>1, SubtractByAdding, Zenon DEF Negated
<1>4. /\ (old + op.arg) % Word \in Int /\ (old - op.arg) % Word \in Int
    BY <1>1, DivMod
<1> HIDE DEF Word
<1>5. op.kind \in {"and", "or", "xor", "add", "sub", "xchg", "load", "store", "cmpxchg"}
    BY DEF Accesses, Rmw, Logical
<1>6. CASE op.kind \in {"and", "or", "xor"}
    BY <1>2, <1>6, SameBitwise, BitwiseIsInt DEF Modify, Memory!After
<1>7. CASE op.kind \in {"add", "sub"}
    BY <1>3, <1>4, <1>7, SameSets DEF Modify, Memory!After
<1>8. CASE op.kind \in {"xchg", "load", "store", "cmpxchg"}
    BY <1>1, <1>8 DEF Modify, Memory!After
<1> QED BY <1>5, <1>6, <1>7, <1>8
-----------------------------------------------------------------------------
(* A thread changes what a mutex guards only while it holds it, and takes    *)
(* the state of no other thread further.                                     *)

Passes(t, old, new) == new = old \/ (old \in {t, Free} /\ new \in {t, Free})

Local(t) ==
    /\ UNCHANGED <<engine, owner>>
    /\ \A u \in Threads \ {t} : thread'[u] = thread[u]
    /\ Passes(t, mux, mux')
    /\ Interpreted => mem' = mem \/ mux = t
    /\ pages' >= pages /\ view' >= view
    /\ (pages' = pages /\ view' = view) \/ mux = t
    /\ \A a \in Cells : /\ Passes(t, waiters[a].mux, waiters'[a].mux)
                        /\ waiters[a].entry => waiters'[a].entry
                        /\ waiters'[a].list = waiters[a].list \/ waiters[a].mux = t

\* What the thread that moves has to see to.
Kept(t) ==
    /\ TypeOK'
    /\ Place(t)'
    /\ (mux' = t) <=> Holds(t)'
    /\ \A a \in Cells : (waiters'[a].mux = t) <=> HoldsList(t, a)'

LEMMA Distinct == \A t \in Threads : t # Free
BY ThreadsAssumption

LEMMA LengthGrows ==
    ASSUME NEW t, Local(t), TypeOK, TypeOK', NEW u
    PROVE  /\ Length(u)' >= Length(u) /\ Length(u) \in 1..MaxPages /\ Length(u)' \in 1..MaxPages
           /\ Interpreted' = Interpreted
BY DEF Local, TypeOK, Length, Interpreted

\* The interpreter reads the length of the memory itself.
LEMMA InterpretedLength ==
    ASSUME TypeOK, Interpreted, NEW t \in Threads
    PROVE  Length(t) = pages
<1>1. <<engine, owner>> \in {"interpreter"} \X [Threads -> {FALSE}]
    BY ThreadsAssumption DEF TypeOK, Interpreted
<1>2. owner[t] = FALSE
    BY <1>1
<1> QED BY <1>2 DEF Length

LEMMA Running ==
    ASSUME TypeOK, NEW t \in Threads, thread[t].pc \in Steps
    PROVE  /\ thread[t] \in [pc : Steps, op : Operation, old : Int]
           /\ Op(t) \in Operation /\ thread[t].op = Op(t) /\ thread[t].old \in Int
<1>1. thread[t] \in ThreadStates
    BY DEF TypeOK
<1>2. thread[t].pc \notin {"idle", "done"}
    BY DEF Steps
<1>3. thread[t] \in [pc : Steps, op : Operation, old : Int]
    BY <1>1, <1>2 DEF ThreadStates, Idle
<1> QED BY <1>3 DEF Op

LEMMA OthersPlaced ==
    ASSUME IInv, NEW t \in Threads, Local(t), TypeOK', NEW u \in Threads, u # t
    PROVE  Place(u)'
<1>1. thread'[u] = thread[u] /\ Place(u)
    BY DEF Local, IInv
<1>2. Length(u)' >= Length(u) /\ Length(u) \in Int /\ Length(u)' \in Int /\ Interpreted' = Interpreted
    BY LengthGrows DEF IInv
<1>3. u # mux => ~Holds(u)
    BY DEF IInv, MutexInv
<1>4. thread[u].pc \in Steps => thread[u].op \in Operation
    BY Running DEF IInv
<1>5. thread[u].pc = "write" => mem' = mem
    BY <1>1, <1>3 DEF Place, Local, Holds, Steps
<1>6. thread[u].pc = "grown" => pages' = pages /\ view' = view
    BY <1>3 DEF Local, Holds
<1>7. pages' >= pages /\ pages \in Int /\ pages' \in Int
    BY DEF IInv, TypeOK, Local
<1>8. ASSUME thread[u].pc \in {"wlock", "rlock", "compare", "push", "wake"} \cup Blocked
      PROVE  waiters'[thread[u].op.addr].entry
    <2>1. thread[u].pc \in Steps
        BY <1>8 DEF Blocked, Steps
    <2>2. /\ KindAt(thread[u].pc, thread[u].op.kind)
          /\ waiters[thread[u].op.addr].entry
          /\ thread[u].op.kind # "grow" =>
                 thread[u].op.addr < Length(u) \/ (Interpreted /\ thread[u].op.kind \in Accesses)
        BY <1>1, <1>8, <2>1 DEF Place, Blocked
    <2>3. thread[u].op.kind \in {"wait", "notify"}
        BY <1>8, <2>2 DEF KindAt, Blocked
    <2>4. thread[u].op.addr < Length(u)
        BY <2>2, <2>3 DEF Accesses, Rmw, Logical
    <2>5. thread[u].op.addr \in Cells
        BY <1>4, <2>1, <2>4, LengthGrows, MemoryAssumption DEF Cells, Operation, IInv
    <2> QED BY <2>2, <2>5 DEF Local
<1>9. thread[u].pc \in Steps /\ thread[u].op.addr < Length(u) => thread[u].op.addr < Length(u)'
    BY <1>2, <1>4 DEF Operation
<1>10. thread[u].pc \in Steps /\ thread[u].op.addr < pages => thread[u].op.addr < pages'
    BY <1>4, <1>7 DEF Operation
<1> QED BY <1>1, <1>2, <1>5, <1>6, <1>8, <1>9, <1>10 DEF Place

LEMMA StepKeeps ==
    ASSUME IInv, NEW t \in Threads, Local(t), Kept(t), ViewInv', QueueInv'
    PROVE  IInv'
<1>1. ASSUME NEW u \in Threads PROVE Place(u)'
    BY OthersPlaced DEF Kept
<1>2. ASSUME NEW u \in Threads
      PROVE  /\ (mux' = u) <=> Holds(u)'
             /\ \A a \in Cells : (waiters'[a].mux = u) <=> HoldsList(u, a)'
    <2>1. CASE u = t
        BY <2>1 DEF Kept
    <2>2. CASE u # t
        <3>1. thread'[u] = thread[u] /\ Interpreted' = Interpreted
            BY <2>2, LengthGrows DEF Local, IInv, Kept
        <3>2. Holds(u)' = Holds(u)
            BY <3>1 DEF Holds, At
        <3>3. \A a \in Cells : HoldsList(u, a)' = HoldsList(u, a)
            BY <3>1 DEF HoldsList, Op
        <3>4. (mux' = u) <=> (mux = u)
            BY <2>2, Distinct DEF Local, Passes
        <3>5. \A a \in Cells : (waiters'[a].mux = u) <=> (waiters[a].mux = u)
            BY <2>2, Distinct DEF Local, Passes
        <3> QED BY <3>2, <3>3, <3>4, <3>5 DEF IInv, MutexInv
    <2> QED BY <2>1, <2>2
<1> QED BY <1>1, <1>2 DEF IInv, MutexInv, Kept

LEMMA ViewStays ==
    ASSUME IInv, NEW t \in Threads, Local(t), UNCHANGED <<pages, view>>, thread[t].pc # "grown"
    PROVE  ViewInv'
BY Distinct DEF IInv, ViewInv, Local, Passes, At

LEMMA QueueStays ==
    ASSUME IInv, NEW t \in Threads, Local(t), ready' = ready,
           \A a \in Cells : waiters'[a].list = waiters[a].list,
           thread[t].pc \in Blocked => thread'[t].pc \in Blocked /\ thread'[t].op = thread[t].op
    PROVE  QueueInv'
<1>1. \A u \in Threads : thread[u].pc \in Blocked =>
          thread'[u].pc \in Blocked /\ Op(u)' = Op(u)
    BY DEF Local, Op
<1>2. \A a \in Cells : waiters[a].list \in Seq(Threads)
    BY DEF IInv, TypeOK
<1>3. ASSUME NEW a \in Cells PROVE Listed(a)'
    <2>1. Listed(a) /\ waiters'[a].list = waiters[a].list /\ waiters[a].list \in Seq(Threads)
        BY <1>2 DEF IInv, QueueInv
    <2>2. ASSUME NEW l \in Seq(Threads), NEW i \in 1..Len(l) PROVE l[i] \in Threads
        OBVIOUS
    <2> QED BY <1>1, <2>1, <2>2 DEF Listed, Op
<1>4. \A u \in ready' : thread'[u].pc \in Blocked
    BY <1>1 DEF IInv, QueueInv, TypeOK
<1> QED BY <1>3, <1>4 DEF QueueInv

LEMMA GotoMoves ==
    ASSUME TypeOK, NEW t \in Threads, thread[t].pc \in Steps, NEW q \in Steps, Goto(t, q)
    PROVE  /\ thread' \in [Threads -> ThreadStates]
           /\ thread'[t].pc = q /\ thread'[t].op = thread[t].op /\ thread'[t].old = thread[t].old
           /\ \A u \in Threads \ {t} : thread'[u] = thread[u]
<1>1. thread[t] \in [pc : Steps, op : Operation, old : Int] /\ thread \in [Threads -> ThreadStates]
    BY Running DEF TypeOK
<1> DEFINE c == [thread[t] EXCEPT !.pc = q]
<1>2. c \in [pc : Steps, op : Operation, old : Int] /\ c.pc = q /\ c.op = thread[t].op
        /\ c.old = thread[t].old
    BY <1>1
<1>3. thread' = [thread EXCEPT ![t] = c]
    BY DEF Goto
<1>4. c \in ThreadStates
    BY <1>2 DEF ThreadStates
<1> HIDE DEF c
<1> QED BY <1>1, <1>2, <1>3, <1>4

Takes(t, q, v) == thread' = [thread EXCEPT ![t].pc = q, ![t].old = v]

LEMMA OldMoves ==
    ASSUME TypeOK, NEW t \in Threads, thread[t].pc \in Steps, NEW q \in Steps, NEW v \in Int,
           Takes(t, q, v)
    PROVE  /\ thread' \in [Threads -> ThreadStates]
           /\ thread'[t].pc = q /\ thread'[t].op = thread[t].op /\ thread'[t].old = v
           /\ \A u \in Threads \ {t} : thread'[u] = thread[u]
<1>1. thread[t] \in [pc : Steps, op : Operation, old : Int] /\ thread \in [Threads -> ThreadStates]
    BY Running DEF TypeOK
<1> DEFINE c == [thread[t] EXCEPT !.pc = q, !.old = v]
<1>2. c \in [pc : Steps, op : Operation, old : Int] /\ c.pc = q /\ c.op = thread[t].op
        /\ c.old = v
    BY <1>1, Zenon
<1>3. thread' = [thread EXCEPT ![t] = c]
    BY <1>1, Zenon DEF Takes
<1>4. c \in ThreadStates
    BY <1>2 DEF ThreadStates
<1> HIDE DEF c
<1> QED BY <1>1, <1>2, <1>3, <1>4

LEMMA FinishMoves ==
    ASSUME TypeOK, NEW t \in Threads, NEW r \in Int, Finish(t, r)
    PROVE  /\ thread' \in [Threads -> ThreadStates]
           /\ thread'[t] = Done(r) /\ thread'[t].pc = "done" /\ thread'[t].res = r
           /\ \A u \in Threads \ {t} : thread'[u] = thread[u]
<1>1. Done(r) \in ThreadStates /\ Done(r).pc = "done" /\ Done(r).res = r
    BY DEF ThreadStates, Done
<1> QED BY <1>1 DEF Finish, TypeOK
-----------------------------------------------------------------------------
(* What AtomicMemory sees of a step. *)

\* Where an operation has not taken effect, and where it is a wait.
Pending == {"start", "lock", "rlock", "locked", "write", "exec", "load", "cas", "waiters", "wlock",
            "compare", "find", "wake"}

LEMMA Shown ==
    ASSUME NEW t \in Threads
    PROVE  /\ At(t, "idle") => Linearised(t) = [status |-> "idle"]
           /\ At(t, "done") => Linearised(t) = [status |-> "done", res |-> thread[t].res]
           /\ thread[t].pc \in Pending => Linearised(t) = [status |-> "called", op |-> Op(t)]
           /\ At(t, "grown") => Linearised(t) = [status |-> "growing", res |-> thread[t].old]
           /\ At(t, "push") => Linearised(t) = IF Full(Op(t).addr)
                                               THEN [status |-> "done", res |-> TooManyWaiters]
                                               ELSE [status |-> "waiting", op |-> Op(t)]
           /\ thread[t].pc \in Blocked => Linearised(t) = IF t \in ready
                                                          THEN [status |-> "woken", op |-> Op(t)]
                                                          ELSE [status |-> "waiting", op |-> Op(t)]
<1>1. thread[t].pc \in Pending => Linearised(t) = [status |-> "called", op |-> Op(t)]
    BY DEF Linearised, Pending, Op
<1> QED BY <1>1 DEF Linearised, Blocked, At, Op

LEMMA Places == \A pc \in Steps : pc \in Pending \cup Blocked \cup {"grown", "push"}
BY DEF Steps, Pending, Blocked

LEMMA OthersShown ==
    ASSUME IInv, NEW t \in Threads, Local(t), TypeOK', NEW u \in Threads, u # t,
           (u \in ready') <=> (u \in ready)
    PROVE  Linearised(u)' = Linearised(u)
<1>1. thread'[u] = thread[u] /\ Op(u)' = Op(u)
    BY DEF Local, Op
<1>2. CASE At(u, "grown")
    BY <1>1, <1>2 DEF Linearised, At
<1>3. CASE At(u, "push")
    <2>1. thread[u].pc \in Steps
        BY <1>3 DEF At, Steps
    <2>2. Op(u).addr \in Cells /\ waiters[Op(u).addr].mux = u
        <3>1. Op(u).addr < Length(u) /\ Op(u) \in Operation
            BY <1>3, <2>1, Running DEF IInv, Place, KindAt, At, Op, Accesses, Rmw, Logical
        <3>2. Op(u).addr \in Cells
            BY <3>1, LengthGrows, MemoryAssumption DEF IInv, Operation, Cells
        <3> QED BY <1>3, <3>2 DEF IInv, MutexInv, HoldsList, At
    <2>3. waiters'[Op(u).addr].list = waiters[Op(u).addr].list
        BY <2>2 DEF Local
    <2>4. Full(Op(u).addr)' = Full(Op(u).addr)
        BY <1>1, <2>3 DEF Full
    <2> QED BY <1>1, <1>3, <2>4 DEF Linearised, At, Op
<1>4. CASE ~At(u, "grown") /\ ~At(u, "push")
    BY <1>1, <1>4 DEF Linearised, At
<1> QED BY <1>2, <1>3, <1>4

LEMMA CallsMove ==
    ASSUME IInv, NEW t \in Threads, Local(t), TypeOK',
           \A u \in Threads \ {t} : (u \in ready') <=> (u \in ready)
    PROVE  /\ Calls[t] = Linearised(t)
           /\ Calls' = [Calls EXCEPT ![t] = Linearised(t)']
BY OthersShown, Zenon DEF Calls

LEMMA PushingOwned ==
    ASSUME IInv, NEW a \in Cells, NEW t \in Pushing(a)
    PROVE  t \in Threads /\ waiters[a].mux = t
BY DEF IInv, MutexInv, HoldsList, Pushing, At

LEMMA PushingOthers ==
    ASSUME IInv, NEW t \in Threads, Local(t), NEW a \in Cells, NEW u \in Threads, u # t
    PROVE  (u \in Pushing(a)') <=> (u \in Pushing(a))
<1>1. thread'[u] = thread[u]
    BY DEF Local
<1>2. At(u, "push") /\ Op(u).addr = a => waiters[a].mux = u
    BY DEF IInv, MutexInv, HoldsList, At
<1>3. At(u, "push") /\ Op(u).addr = a => Full(a)' = Full(a)
    BY <1>2 DEF Local, Full
<1> QED BY <1>1, <1>3 DEF Pushing, At, Op

LEMMA QueueOf ==
    ASSUME IInv, NEW t \in Threads, NEW a \in Cells, HoldsList(t, a)
    PROVE  Queue(a) = IF At(t, "push") /\ ~Full(a) THEN Append(waiters[a].list, t)
                      ELSE waiters[a].list
<1>1. Pushing(a) \subseteq {t}
    BY PushingOwned DEF IInv, MutexInv
<1>2. waiters[a].list \in Seq(Threads)
    BY DEF IInv, TypeOK
<1>3. CASE At(t, "push") /\ ~Full(a)
    <2>1. Pushing(a) = {t}
        BY <1>1, <1>3 DEF Pushing, HoldsList
    <2>2. (CHOOSE u \in Pushing(a) : TRUE) = t
        BY <2>1
    <2> QED BY <1>3, <2>1, <2>2 DEF Queue
<1>4. CASE ~(At(t, "push") /\ ~Full(a))
    <2>1. Pushing(a) = {}
        BY <1>1, <1>4 DEF Pushing
    <2> QED BY <1>4, <2>1 DEF Queue
<1> QED BY <1>3, <1>4

\* The same of the state after a step.
LEMMA QueueOfAfter ==
    (IInv => \A t \in Threads, a \in Cells : HoldsList(t, a) =>
        Queue(a) = IF At(t, "push") /\ ~Full(a) THEN Append(waiters[a].list, t)
                   ELSE waiters[a].list)'
<1>1. IInv => \A t \in Threads, a \in Cells : HoldsList(t, a) =>
        Queue(a) = IF At(t, "push") /\ ~Full(a) THEN Append(waiters[a].list, t)
                   ELSE waiters[a].list
    BY QueueOf
<1> QED BY <1>1, PTL

LEMMA QueueFreeAfter ==
    (IInv => \A a \in Cells : waiters[a].mux = Free => Queue(a) = waiters[a].list)'
<1>1. IInv => \A a \in Cells : waiters[a].mux = Free => Queue(a) = waiters[a].list
    <2> SUFFICES ASSUME IInv, NEW a \in Cells, waiters[a].mux = Free
                 PROVE  Queue(a) = waiters[a].list
        OBVIOUS
    <2>1. Pushing(a) = {}
        BY PushingOwned, Distinct
    <2> QED BY <2>1 DEF Queue
<1> QED BY <1>1, PTL

LEMMA QueuesMove ==
    ASSUME IInv, NEW t \in Threads, Local(t), NEW a \in Cells,
           \A b \in Cells \ {a} : waiters'[b].list = waiters[b].list,
           At(t, "push") => Op(t).addr = a,
           At(t, "push")' => Op(t)'.addr = a
    PROVE  Queues' = [Queues EXCEPT ![a] = Queue(a)'] /\ Queues[a] = Queue(a)
<1>1. ASSUME NEW b \in Cells \ {a} PROVE Queue(b)' = Queue(b)
    <2>1. \A u \in Threads \ {t} : (u \in Pushing(b)') <=> (u \in Pushing(b))
        BY PushingOthers
    <2>2. t \notin Pushing(b) /\ t \notin Pushing(b)'
        BY DEF Pushing
    <2>3. Pushing(b) \subseteq Threads /\ Pushing(b)' \subseteq Threads
        BY DEF Pushing
    <2>4. Pushing(b)' = Pushing(b)
        BY <2>1, <2>2, <2>3
    <2> QED BY <2>4 DEF Queue
<1> QED BY <1>1, Zenon DEF Queues

LEMMA QueuesStay ==
    ASSUME IInv, NEW t \in Threads, Local(t),
           \A b \in Cells : waiters'[b].list = waiters[b].list,
           ~At(t, "push"), ~At(t, "push")'
    PROVE  Queues' = Queues
<1>1. ASSUME NEW b \in Cells PROVE Queue(b)' = Queue(b)
    <2>1. \A u \in Threads \ {t} : (u \in Pushing(b)') <=> (u \in Pushing(b))
        BY PushingOthers
    <2>2. t \notin Pushing(b) /\ t \notin Pushing(b)'
        BY DEF Pushing
    <2>3. Pushing(b) \subseteq Threads /\ Pushing(b)' \subseteq Threads
        BY DEF Pushing
    <2>4. Pushing(b)' = Pushing(b)
        BY <2>1, <2>2, <2>3
    <2> QED BY <2>4 DEF Queue
<1> QED BY <1>1 DEF Queues

\* The memory has the length it had, and every thread knows the length it knew.
SameLengths == pages' = pages /\ Lengths' = Lengths

\* A step the abstract memory does not see.
LEMMA Stutters ==
    ASSUME Calls' = Calls, Queues' = Queues, mem' = mem, SameLengths
    PROVE  UNCHANGED Memory!vars
BY DEF Memory!vars, Calls, Queues, Queue, SameLengths, Lengths

LEMMA Silent ==
    ASSUME IInv, NEW t \in Threads, Local(t), TypeOK', UNCHANGED <<mem, ready>>, SameLengths,
           \A b \in Cells : waiters'[b].list = waiters[b].list,
           ~At(t, "push"), ~At(t, "push")', Linearised(t)' = Linearised(t)
    PROVE  UNCHANGED Memory!vars
<1>1. Calls' = Calls
    BY CallsMove, Zenon DEF Calls
<1>2. Queues' = Queues
    BY QueuesStay
<1> QED BY <1>1, <1>2, Stutters
-----------------------------------------------------------------------------
(* The steps, one lemma each: the invariant is kept, and the abstract memory *)
(* takes a step or sees none.                                                *)

Simulated == [Memory!Next]_(Memory!vars)

\* Steps that change the thread, and perhaps Mux, only.
Only(t) ==
    /\ UNCHANGED <<engine, owner, mem, pages, view, waiters, ready>>
    /\ \A u \in Threads \ {t} : thread'[u] = thread[u]
    /\ Passes(t, mux, mux')

LEMMA OnlyKeeps ==
    ASSUME IInv, NEW t \in Threads, Only(t), thread' \in [Threads -> ThreadStates], Place(t)',
           mux' \in Threads \cup {Free}, (mux' = t) <=> Holds(t)', thread[t].pc # "grown",
           \A a \in Cells : HoldsList(t, a)' <=> HoldsList(t, a),
           thread[t].pc \in Blocked => thread'[t].pc \in Blocked /\ thread'[t].op = thread[t].op
    PROVE  IInv' /\ Local(t) /\ TypeOK' /\ SameLengths
<1>1. TypeOK'
    BY DEF Only, IInv, TypeOK
<1>2. Local(t)
    BY DEF Only, Local, Passes, IInv, TypeOK
<1>3. ViewInv'
    BY <1>2, ViewStays DEF Only
<1>4. QueueInv'
    BY <1>2, QueueStays DEF Only
<1>5. Kept(t)
    BY <1>1 DEF Kept, IInv, MutexInv, Only
<1> QED BY <1>1, <1>2, <1>3, <1>4, <1>5, StepKeeps DEF Only, SameLengths, Lengths, Length

LEMMA NoMux == ASSUME NEW t PROVE mux' = mux => Passes(t, mux, mux')
BY DEF Passes

LEMMA InvokeStep ==
    ASSUME IInv, NEW t \in Threads, Invoke(t)
    PROVE  IInv' /\ Simulated
<1>1. PICK op \in Ops[t] : thread' = [thread EXCEPT ![t] = [pc |-> "start", op |-> op, old |-> 0]]
    BY Zenon DEF Invoke
<1> DEFINE c == [pc |-> "start", op |-> op, old |-> 0]
<1>2. op \in Operation
    BY ThreadsAssumption
<1>3. c \in ThreadStates /\ c.pc = "start" /\ c.op = op
    BY <1>2 DEF ThreadStates, Steps
<1> HIDE DEF c
<1>4. /\ thread' \in [Threads -> ThreadStates] /\ thread'[t] = c
      /\ \A u \in Threads \ {t} : thread'[u] = thread[u]
    BY <1>1, <1>3 DEF c, IInv, TypeOK
<1>5. Only(t)
    BY <1>4, NoMux DEF Only, Invoke
<1>6. Place(t)'
    BY <1>3, <1>4 DEF Place, KindAt, Blocked
<1>7. thread[t].pc \in {"idle", "done"}
    BY DEF Invoke, Returned
<1>8. ~Holds(t) /\ ~Holds(t)' /\ \A a \in Cells : ~HoldsList(t, a) /\ ~HoldsList(t, a)'
    BY <1>3, <1>4, <1>7 DEF Holds, HoldsList, At
<1>9. mux' \in Threads \cup {Free} /\ ((mux' = t) <=> Holds(t)')
    BY <1>8 DEF Invoke, IInv, TypeOK, MutexInv
<1>10. IInv' /\ Local(t) /\ TypeOK' /\ SameLengths
    BY <1>4, <1>5, <1>6, <1>7, <1>8, <1>9, OnlyKeeps DEF Blocked
<1>11. Calls' = [Calls EXCEPT ![t] = [status |-> "called", op |-> op]]
    <2>1. Linearised(t)' = [status |-> "called", op |-> op]
        BY <1>3, <1>4 DEF Linearised
    <2> QED BY <1>10, <2>1, CallsMove DEF Only, Invoke
<1>12. Queues' = Queues
    BY <1>3, <1>4, <1>7, <1>10, QueuesStay DEF At, Invoke
<1>13. Calls[t].status \in {"idle", "done"}
    BY <1>7, Shown DEF Calls, At
<1>14. Memory!Invoke(t)
    BY <1>10, <1>11, <1>12, <1>13, Zenon DEF Memory!Invoke, Calls, Queues, Queue, Invoke, SameLengths, Lengths
<1> QED BY <1>10, <1>14 DEF Simulated, Memory!Next

\* What the checks in front of an operation establish.
LEMMA Checked ==
    ASSUME TypeOK, NEW t, NEW op \in Operation, op.kind # "size", EarlyTraps(t, op) = {}
    PROVE  /\ FirstStep(op) \in {"waiters", "find", "lock", "load", "exec"}
           /\ KindAt(FirstStep(op), op.kind)
           /\ op.kind # "grow" => op.aligned /\ (op.addr < Length(t) \/ (Interpreted /\ op.kind \in Accesses))
           /\ FirstStep(op) = "lock" => op.kind = "grow" \/ Interpreted
           /\ FirstStep(op) \in {"exec", "load"} => ~Interpreted
<1>1. op.kind \in Accesses \cup {"wait", "notify", "grow"} /\ op.addr \in Nat
    BY DEF Operation
<1>2. Length(t) \in Nat
    BY MemoryAssumption DEF TypeOK, Length
<1>3. /\ {Unaligned} # {} /\ {OutOfBounds} # {}
    OBVIOUS
<1>4. op.kind # "grow" => op.aligned /\ (op.addr < Length(t) \/ (Interpreted /\ op.kind \in Accesses))
    BY <1>1, <1>2, <1>3 DEF EarlyTraps
<1>5. CASE op.kind \in Accesses
    BY <1>4, <1>5 DEF FirstStep, KindAt, Blocked, Accesses, Rmw, Logical, Interpreted
<1>6. CASE op.kind \in {"wait", "notify", "grow"}
    BY <1>4, <1>6 DEF FirstStep, KindAt, Blocked, Accesses, Rmw, Logical
<1> QED BY <1>1, <1>5, <1>6

LEMMA Trapped ==
    ASSUME TypeOK, NEW t \in Threads, NEW op \in Operation, NEW r \in EarlyTraps(t, op)
    PROVE  /\ r \in Int /\ r \in Memory!Traps(t, op)
           /\ op.kind \in Accesses \cup {"wait", "notify"}
<1>1. Length(t) \in Nat /\ op.addr \in Nat
    BY MemoryAssumption DEF TypeOK, Length, Operation
<1>2. op.kind \notin {"grow", "size"}
    BY DEF EarlyTraps
<1>3. op.kind \in Accesses \cup {"wait", "notify"}
    BY <1>2 DEF Operation
<1>4. r \in Memory!Traps(t, op)
    BY <1>1, <1>2 DEF EarlyTraps, Memory!Traps, Lengths, Memory!Unaligned, Unaligned,
        Memory!OutOfBounds, OutOfBounds
<1>5. r \in Int
    BY <1>2 DEF EarlyTraps, Unaligned, OutOfBounds
<1> QED BY <1>3, <1>4, <1>5

\* A step to "done" that only changes the thread, and releases Mux if it was held.
LEMMA Finishes ==
    ASSUME IInv, NEW t \in Threads, thread[t].pc \in Pending, ~\E a \in Cells : HoldsList(t, a),
           NEW r \in Int, Finish(t, r), mux' = (IF Holds(t) THEN Free ELSE mux),
           UNCHANGED <<engine, owner, mem, pages, view, waiters, ready>>
    PROVE  /\ IInv' /\ SameLengths /\ Queues' = Queues
           /\ Calls[t] = [status |-> "called", op |-> Op(t)]
           /\ Calls' = [Calls EXCEPT ![t] = [status |-> "done", res |-> r]]
<1>1. /\ thread' \in [Threads -> ThreadStates]
      /\ thread'[t] = Done(r) /\ thread'[t].pc = "done" /\ thread'[t].res = r
      /\ \A u \in Threads \ {t} : thread'[u] = thread[u]
    BY FinishMoves DEF IInv
<1>2. mux \in Threads \cup {Free} /\ ((mux = t) <=> Holds(t))
    BY DEF IInv, TypeOK, MutexInv
<1>3. Only(t)
    BY <1>1, <1>2 DEF Only, Passes
<1>4. Place(t)'
    BY <1>1 DEF Place, Steps
<1>5. ~Holds(t)' /\ \A a \in Cells : ~HoldsList(t, a)'
    BY <1>1 DEF Holds, HoldsList, At
<1>6. mux' \in Threads \cup {Free} /\ ((mux' = t) <=> Holds(t)')
    BY <1>2, <1>5, Distinct
<1>7. IInv' /\ Local(t) /\ TypeOK' /\ SameLengths
    BY <1>1, <1>3, <1>4, <1>5, <1>6, OnlyKeeps DEF Pending, Blocked
<1>8. Linearised(t)' = [status |-> "done", res |-> r]
    BY <1>1 DEF Linearised
<1>9. Calls' = [Calls EXCEPT ![t] = [status |-> "done", res |-> r]]
    BY <1>7, <1>8, CallsMove
<1>10. Queues' = Queues
    BY <1>1, <1>7, QueuesStay DEF At, Pending
<1> QED BY <1>7, <1>9, <1>10, Shown DEF Calls

\* A step that goes on with an operation that has not taken effect.
LEMMA GoesOn ==
    ASSUME IInv, NEW t \in Threads, thread[t].pc \in Pending, thread'[t].pc \in Pending,
           thread' \in [Threads -> ThreadStates], thread'[t].op = Op(t),
           \A a \in Cells : HoldsList(t, a)' <=> HoldsList(t, a),
           \A u \in Threads \ {t} : thread'[u] = thread[u],
           mux' \in Threads \cup {Free}, Passes(t, mux, mux'), (mux' = t) <=> Holds(t)', Place(t)',
           UNCHANGED <<engine, owner, mem, pages, view, waiters, ready>>
    PROVE  IInv' /\ Simulated
<1>1. Only(t)
    BY DEF Only
<1>3. IInv' /\ Local(t) /\ TypeOK' /\ SameLengths
    BY <1>1, OnlyKeeps DEF Pending, Blocked
<1>4. Linearised(t)' = Linearised(t)
    BY Shown, ZenonT(30) DEF Linearised, Pending, Op
<1>5. UNCHANGED Memory!vars
    BY <1>3, <1>4, Silent, Zenon DEF At, Pending
<1> QED BY <1>3, <1>5 DEF Simulated

LEMMA IsTrap ==
    ASSUME NEW t \in Threads, NEW op, Calls[t] = [status |-> "called", op |-> op],
           op.kind \in Accesses \cup {"wait", "notify"}, NEW r \in Memory!Traps(t, op),
           Calls' = [Calls EXCEPT ![t] = [status |-> "done", res |-> r]],
           mem' = mem, SameLengths, Queues' = Queues
    PROVE  Simulated
<1>1. Memory!Called(t, Memory!Accesses \cup {"wait", "notify"})
    BY SameSets DEF Memory!Called, Calls
<1>2. Calls[t].op = op
    OBVIOUS
<1>3. \E e \in Memory!Traps(t, Calls[t].op) : Calls' = [Calls EXCEPT ![t] = Memory!Done(e)]
    BY <1>2, Zenon DEF Memory!Done
<1>4. UNCHANGED <<mem, pages, Lengths, Queues>>
    BY DEF SameLengths
<1>5. Memory!Trap(t)
    BY <1>1, <1>3, <1>4, Zenon DEF Memory!Trap, Calls, Queues, Queue, Lengths
<1> QED BY <1>5, Zenon DEF Simulated, Memory!Next

LEMMA StartStep ==
    ASSUME IInv, NEW t \in Threads, Start(t)
    PROVE  IInv' /\ Simulated
<1>1. thread[t].pc = "start" /\ thread[t].pc \in Steps /\ thread[t].pc \in Pending
    BY DEF Start, At, Steps, Pending
<1>2. Op(t) \in Operation /\ TypeOK /\ thread[t].op = Op(t)
    BY <1>1, Running DEF IInv
<1>3. ~Holds(t) /\ (\A a \in Cells : ~HoldsList(t, a)) /\ mux' = mux
    BY <1>1 DEF Holds, HoldsList, At, Start
<1>4. CASE EarlyTraps(t, Op(t)) # {}
    <2>1. PICK r \in EarlyTraps(t, Op(t)) : Finish(t, r)
        BY <1>4 DEF Start
    <2>2. r \in Int /\ r \in Memory!Traps(t, Op(t)) /\ Op(t).kind \in Accesses \cup {"wait", "notify"}
        BY <1>2, Trapped
    <2>3. /\ IInv' /\ SameLengths /\ Queues' = Queues
          /\ Calls[t] = [status |-> "called", op |-> Op(t)]
          /\ Calls' = [Calls EXCEPT ![t] = [status |-> "done", res |-> r]]
        BY <1>1, <1>3, <2>1, <2>2, Finishes DEF Start
    <2> QED BY <2>2, <2>3, IsTrap, Zenon DEF Start
<1>5. CASE EarlyTraps(t, Op(t)) = {} /\ Op(t).kind = "size"
    <2>1. Finish(t, Length(t)) /\ Length(t) \in Int
        BY <1>5, <1>2 DEF Start, Length, TypeOK
    <2>2. /\ IInv' /\ SameLengths /\ Queues' = Queues
          /\ Calls[t] = [status |-> "called", op |-> Op(t)]
          /\ Calls' = [Calls EXCEPT ![t] = [status |-> "done", res |-> Lengths[t]]]
        BY <1>1, <1>3, <2>1, Finishes DEF Start, Lengths
    <2>3. Memory!Size(t)
        BY <1>5, <2>2 DEF Memory!Size, Memory!Called, Memory!Done, Calls, Queues, Queue, Lengths,
                          SameLengths, Start
    <2> QED BY <2>2, <2>3 DEF Simulated, Memory!Next
<1>6. CASE EarlyTraps(t, Op(t)) = {} /\ Op(t).kind # "size"
    <2> DEFINE q == FirstStep(Op(t))
    <2>1. Goto(t, q)
        BY <1>6 DEF Start
    <2>2. /\ q \in {"waiters", "find", "lock", "load", "exec"}
          /\ KindAt(q, Op(t).kind)
          /\ Op(t).kind # "grow" =>
                 Op(t).aligned /\ (Op(t).addr < Length(t) \/ (Interpreted /\ Op(t).kind \in Accesses))
          /\ q = "lock" => Op(t).kind = "grow" \/ Interpreted
          /\ q \in {"exec", "load"} => ~Interpreted
        BY <1>2, <1>6, Checked
    <2> HIDE DEF q
    <2>3. q \in Steps /\ q \in Pending
        BY <2>2 DEF Steps, Pending
    <2>4. /\ thread' \in [Threads -> ThreadStates]
          /\ thread'[t].pc = q /\ thread'[t].op = Op(t)
          /\ \A u \in Threads \ {t} : thread'[u] = thread[u]
        BY <1>1, <1>2, <2>1, <2>3, GotoMoves
    <2>5. Length(t)' = Length(t) /\ Interpreted' = Interpreted
        BY DEF Start, Length, Interpreted
    <2>6. Place(t)'
        BY <2>2, <2>4, <2>5 DEF Place, Blocked
    <2>7. ~Holds(t)' /\ \A a \in Cells : ~HoldsList(t, a)'
        BY <2>2, <2>4 DEF Holds, HoldsList, At
    <2>8. mux' \in Threads \cup {Free} /\ Passes(t, mux, mux') /\ ((mux' = t) <=> Holds(t)')
        BY <1>3, <2>7 DEF IInv, TypeOK, MutexInv, Passes
    <2> QED BY <1>1, <1>3, <2>3, <2>4, <2>6, <2>7, <2>8, GoesOn, Zenon DEF Start
<1> QED BY <1>4, <1>5, <1>6

LEMMA LockStep ==
    ASSUME IInv, NEW t \in Threads, Lock(t)
    PROVE  IInv' /\ Simulated
<1> DEFINE q == IF At(t, "lock") THEN "locked" ELSE "compare"
<1>1. /\ thread[t].pc \in {"lock", "rlock"} /\ thread[t].pc \in Steps /\ thread[t].pc \in Pending
      /\ q \in Steps /\ q \in Pending
      /\ q = IF thread[t].pc = "lock" THEN "locked" ELSE "compare"
    BY DEF Lock, At, Steps, Pending
<1>2. Goto(t, q)
    BY DEF Lock
<1> HIDE DEF q
<1>3. Op(t) \in Operation /\ TypeOK /\ thread[t].op = Op(t)
    BY <1>1, Running DEF IInv
<1>4. /\ thread' \in [Threads -> ThreadStates]
      /\ thread'[t].pc = q /\ thread'[t].op = Op(t)
      /\ \A u \in Threads \ {t} : thread'[u] = thread[u]
    BY <1>1, <1>2, <1>3, GotoMoves
<1>5. Length(t)' = Length(t) /\ Interpreted' = Interpreted /\ waiters' = waiters
    BY DEF Lock, Length, Interpreted
<1>6. Place(t)'
    <2>1. Place(t)
        BY DEF IInv
    <2> QED BY <1>1, <1>3, <1>4, <1>5, <2>1 DEF Place, KindAt, Blocked
<1>7. Holds(t)' /\ \A a \in Cells : HoldsList(t, a)' <=> HoldsList(t, a)
    <2>1. thread[t].pc = "rlock" => Interpreted
        BY <1>1 DEF IInv, Place
    <2> QED BY <1>1, <1>4, <1>5, <2>1 DEF Holds, HoldsList, At, Op
<1>8. mux' \in Threads \cup {Free} /\ Passes(t, mux, mux') /\ ((mux' = t) <=> Holds(t)')
    BY <1>7 DEF Lock, Passes
<1> QED BY <1>1, <1>4, <1>6, <1>7, <1>8, GoesOn DEF Lock

\* Where an operation accesses a cell its checks still hold.
LEMMA InBounds ==
    ASSUME IInv, NEW t \in Threads, thread[t].pc \in Steps \ {"start"}, Op(t).kind # "grow",
           Op(t).kind \in Accesses => ~Interpreted \/ Op(t).addr < pages
    PROVE  /\ Op(t) \in Operation /\ Op(t).addr \in Cells /\ Memory!Traps(t, Op(t)) = {}
           /\ mem[Op(t).addr] \in Int
<1>1. Op(t) \in Operation /\ thread[t].op = Op(t)
    BY Running DEF IInv
<1>2. Op(t).aligned /\ (Op(t).addr < Length(t) \/ (Interpreted /\ Op(t).kind \in Accesses))
    BY <1>1 DEF IInv, Place
<1>3. Interpreted => Length(t) = pages
    BY InterpretedLength DEF IInv
<1>4. Op(t).addr < Length(t) /\ Length(t) \in 1..MaxPages /\ Op(t).addr \in Nat
    BY <1>1, <1>2, <1>3 DEF IInv, TypeOK, Length, Operation
<1>5. Op(t).addr \in Cells
    BY <1>4, MemoryAssumption DEF Cells
<1>6. Memory!Traps(t, Op(t)) = {}
    BY <1>2, <1>4 DEF Memory!Traps, Lengths
<1> QED BY <1>1, <1>5, <1>6 DEF IInv, TypeOK

LEMMA IsAccess ==
    ASSUME NEW t \in Threads, NEW op, Calls[t] = [status |-> "called", op |-> op], op.kind \in Accesses,
           Memory!Traps(t, op) = {}, mem' = [mem EXCEPT ![op.addr] = Memory!After(op, mem[op.addr])],
           Calls' = [Calls EXCEPT ![t] =
                        [status |-> "done", res |-> IF op.kind = "store" THEN 0 ELSE mem[op.addr]]],
           SameLengths, Queues' = Queues
    PROVE  Simulated
<1>1. Memory!Called(t, Memory!Accesses)
    BY SameSets DEF Memory!Called, Calls
<1>2. Calls[t].op = op
    OBVIOUS
<1>3. LET o == Calls[t].op
          old == mem[o.addr]
      IN  /\ Memory!Traps(t, o) = {}
          /\ mem' = [mem EXCEPT ![o.addr] = Memory!After(o, old)]
          /\ Calls' = [Calls EXCEPT ![t] = Memory!Done(IF o.kind = "store" THEN 0 ELSE old)]
    BY <1>2 DEF Memory!Done
<1>4. UNCHANGED <<pages, Lengths, Queues>>
    BY DEF SameLengths
<1>5. Memory!Access(t)
    BY <1>1, <1>3, <1>4, Zenon DEF Memory!Access, Calls, Queues, Queue, Lengths
<1> QED BY <1>5 DEF Simulated, Memory!Next

\* The step in which an access that changes its cell takes effect.
LEMMA Accessed ==
    ASSUME IInv, NEW t \in Threads, thread[t].pc \in {"write", "exec", "cas"},
           mem' = [mem EXCEPT ![Op(t).addr] = Modify(Op(t), mem[Op(t).addr])],
           Finish(t, ResultOf(Op(t), mem[Op(t).addr])),
           mux' = (IF Holds(t) THEN Free ELSE mux),
           UNCHANGED <<engine, owner, pages, view, waiters, ready>>
    PROVE  IInv' /\ Simulated
<1> DEFINE op == Op(t)
           old == mem[op.addr]
           r == ResultOf(op, old)
<1>1. thread[t].pc \in Steps \ {"start"} /\ thread[t].pc \in Pending
    BY DEF Steps, Pending
<1>2. /\ thread[t].op = op /\ op.kind \in Accesses
      /\ thread[t].pc = "write" => op.addr < pages
      /\ thread[t].pc # "write" => ~Interpreted
    BY <1>1, Running, Zenon DEF IInv, Place, KindAt, Accesses, Rmw, Op
<1>3. /\ op \in Operation /\ op.addr \in Cells /\ Memory!Traps(t, op) = {}
      /\ old \in Int
    BY <1>1, <1>2, InBounds DEF Accesses, Rmw, Logical
<1>4. Modify(op, old) = Memory!After(op, old) /\ Modify(op, old) \in Int
    BY <1>2, <1>3, ModifyIsAfter
<1>5. r \in Int /\ r = IF op.kind = "store" THEN 0 ELSE old
    BY <1>3 DEF ResultOf
<1>6. /\ thread' \in [Threads -> ThreadStates]
      /\ thread'[t] = Done(r) /\ thread'[t].pc = "done" /\ thread'[t].res = r
      /\ \A u \in Threads \ {t} : thread'[u] = thread[u]
    BY <1>5, FinishMoves DEF IInv
<1>7. mux \in Threads \cup {Free} /\ ((mux = t) <=> Holds(t))
    BY DEF IInv, TypeOK, MutexInv
<1>8. Holds(t) <=> thread[t].pc = "write"
    BY DEF Holds, At
<1> HIDE DEF op, old, r
<1>9. TypeOK'
    BY <1>3, <1>4, <1>6, <1>7, Zenon DEF IInv, TypeOK, op, old
<1>10. Local(t)
    <2>1. Interpreted => mux = t
        BY <1>2, <1>7, <1>8, Zenon
    <2>2. Passes(t, mux, mux')
        BY <1>7 DEF Passes
    <2> QED BY <1>6, <2>1, <2>2 DEF Local, IInv, TypeOK, Passes
<1>11. ~Holds(t)' /\ \A a \in Cells : ~HoldsList(t, a) /\ ~HoldsList(t, a)'
    BY <1>6 DEF Holds, HoldsList, At
<1>12. Kept(t)
    <2>1. Place(t)'
        BY <1>6 DEF Place, Steps
    <2>2. \A a \in Cells : waiters[a].mux # t
        BY <1>11, Zenon DEF IInv, MutexInv
    <2> QED BY <1>7, <1>9, <1>11, <2>1, <2>2, Distinct DEF Kept
<1>13. IInv'
    BY <1>10, <1>12, StepKeeps, ViewStays, QueueStays, Zenon DEF Blocked
<1>14. Linearised(t)' = [status |-> "done", res |-> r]
    BY <1>6 DEF Linearised
<1>15. Calls' = [Calls EXCEPT ![t] = [status |-> "done", res |-> r]]
    BY <1>9, <1>10, <1>14, CallsMove, Zenon
<1>16. Queues' = Queues
    BY <1>6, <1>10, QueuesStay DEF At
<1>17. Calls[t] = [status |-> "called", op |-> op] /\ SameLengths
    BY <1>1, Shown DEF Calls, op, SameLengths, Lengths, Length
<1>18. Simulated
    <2>1. mem' = [mem EXCEPT ![op.addr] = Memory!After(op, mem[op.addr])]
        BY <1>4 DEF op, old
    <2>2. Calls' = [Calls EXCEPT ![t] =
                       [status |-> "done", res |-> IF op.kind = "store" THEN 0 ELSE mem[op.addr]]]
        BY <1>5, <1>15, Zenon DEF old
    <2> QED BY <1>2, <1>3, <1>16, <1>17, <2>1, <2>2, IsAccess, Zenon
<1> QED BY <1>13, <1>18

LEMMA ReadStep ==
    ASSUME IInv, NEW t \in Threads, Read(t)
    PROVE  IInv' /\ Simulated
<1> DEFINE op == Op(t)
<1>1. thread[t].pc = "locked" /\ thread[t].pc \in Steps \ {"start"} /\ thread[t].pc \in Pending
    BY DEF Read, At, Steps, Pending
<1>2. op \in Operation /\ TypeOK /\ thread[t].op = op /\ op.kind \in Accesses
    BY <1>1, Running DEF IInv, Read
<1>3. Interpreted /\ Length(t) = pages
    <2>1. Interpreted
        BY <1>1, <1>2 DEF IInv, Place, Accesses, Rmw, Logical
    <2> QED BY <2>1, InterpretedLength DEF IInv
<1>4. Holds(t) /\ mux = t /\ \A a \in Cells : ~HoldsList(t, a)
    BY <1>1 DEF Holds, HoldsList, IInv, MutexInv
<1>5. CASE op.addr >= pages
    <2>1. Finish(t, OutOfBounds) /\ mux' = Free /\ OutOfBounds \in Int
        BY <1>5 DEF Read, OutOfBounds
    <2>2. /\ IInv' /\ SameLengths /\ Queues' = Queues
          /\ Calls[t] = [status |-> "called", op |-> op]
          /\ Calls' = [Calls EXCEPT ![t] = [status |-> "done", res |-> OutOfBounds]]
        BY <1>1, <1>4, <2>1, Finishes DEF Read
    <2>3. OutOfBounds \in Memory!Traps(t, op)
        BY <1>2, <1>3, <1>5 DEF Memory!Traps, Lengths, Memory!OutOfBounds, OutOfBounds, TypeOK, Operation
    <2> QED BY <1>2, <2>2, <2>3, IsTrap, Zenon DEF Read
<1>6. CASE op.addr < pages
    <2>1. ~(op.addr >= pages)
        BY <1>2, <1>6 DEF TypeOK, Operation
    <2>2. op.addr \in Cells /\ Memory!Traps(t, op) = {} /\ mem[op.addr] \in Int
        BY <1>1, <1>2, <1>6, InBounds DEF Accesses, Rmw, Logical
    <2>3. CASE op.kind = "load"
        <3>1. Finish(t, mem[op.addr]) /\ mux' = Free
            BY <2>1, <2>3 DEF Read
        <3>2. /\ IInv' /\ SameLengths /\ Queues' = Queues
              /\ Calls[t] = [status |-> "called", op |-> op]
              /\ Calls' = [Calls EXCEPT ![t] = [status |-> "done", res |-> mem[op.addr]]]
            BY <1>1, <1>4, <2>2, <3>1, Finishes DEF Read
        <3>3. Memory!After(op, mem[op.addr]) = mem[op.addr]
            BY <2>3 DEF Memory!After
        <3>4. mem' = [mem EXCEPT ![op.addr] = Memory!After(op, mem[op.addr])]
            BY <1>2, <3>3 DEF Read, TypeOK
        <3>5. Calls' = [Calls EXCEPT ![t] =
                  [status |-> "done", res |-> IF op.kind = "store" THEN 0 ELSE mem[op.addr]]]
            BY <2>3, <3>2
        <3> HIDE DEF op
        <3> QED BY <1>2, <2>2, <3>2, <3>4, <3>5, IsAccess, Zenon
    <2>4. CASE op.kind # "load"
        <3>1. Takes(t, "write", mem[op.addr]) /\ mux' = mux
            BY <2>1, <2>4 DEF Read, Takes
        <3>2. /\ thread' \in [Threads -> ThreadStates]
              /\ thread'[t].pc = "write" /\ thread'[t].op = op /\ thread'[t].old = mem[op.addr]
              /\ \A u \in Threads \ {t} : thread'[u] = thread[u]
            BY <1>1, <1>2, <2>2, <3>1, OldMoves DEF Steps
        <3>3. Place(t)'
            <4>1. Place(t)
                BY DEF IInv
            <4>2. Interpreted' = Interpreted /\ Length(t)' = Length(t) /\ pages' = pages /\ mem' = mem
                BY DEF Read, Interpreted, Length
            <4> QED BY <1>1, <1>2, <1>3, <1>6, <2>4, <3>2, <4>1, <4>2, Zenon DEF Place, KindAt, Blocked
        <3>4. Holds(t)' /\ \A a \in Cells : ~HoldsList(t, a)'
            BY <3>2, Zenon DEF Holds, HoldsList
        <3>5. mux' \in Threads \cup {Free} /\ Passes(t, mux, mux') /\ ((mux' = t) <=> Holds(t)')
            BY <1>4, <3>1, <3>4 DEF Passes
        <3>6. thread'[t].pc \in Pending
            BY <3>2 DEF Pending
        <3> QED BY <1>1, <1>4, <3>2, <3>3, <3>4, <3>5, <3>6, GoesOn DEF Read
    <2> QED BY <2>3, <2>4
<1> QED BY <1>2, <1>5, <1>6 DEF TypeOK, Operation

LEMMA WriteStep ==
    ASSUME IInv, NEW t \in Threads, Write(t)
    PROVE  IInv' /\ Simulated
<1>1. thread[t].pc = "write" /\ thread[t].pc \in Steps
    BY DEF Write, At, Steps
<1>2. thread[t].old = mem[Op(t).addr]
    BY <1>1, Running DEF IInv, Place
<1>3. Holds(t)
    BY <1>1 DEF Holds
<1> QED BY <1>1, <1>2, <1>3, Accessed, Zenon DEF Write

LEMMA ExecuteStep ==
    ASSUME IInv, NEW t \in Threads, Execute(t)
    PROVE  IInv' /\ Simulated
<1>1. thread[t].pc = "exec"
    BY DEF Execute, At
<1>2. ~Holds(t)
    BY <1>1 DEF Holds, At
<1> QED BY <1>1, <1>2, Accessed, Zenon DEF Execute

LEMMA LoadAccumulatorStep ==
    ASSUME IInv, NEW t \in Threads, LoadAccumulator(t)
    PROVE  IInv' /\ Simulated
<1>1. thread[t].pc = "load" /\ thread[t].pc \in Steps \ {"start"} /\ thread[t].pc \in Pending
    BY DEF LoadAccumulator, At, Steps, Pending
<1>2. TypeOK /\ thread[t].op = Op(t) /\ Op(t).kind \in Logical /\ ~Interpreted
    BY <1>1, Running DEF IInv, Place, KindAt
<1>3. mem[Op(t).addr] \in Int
    BY <1>1, <1>2, InBounds DEF Logical
<1>4. Takes(t, "cas", mem[Op(t).addr]) /\ mux' = mux
    BY DEF LoadAccumulator, Takes
<1>5. /\ thread' \in [Threads -> ThreadStates]
      /\ thread'[t].pc = "cas" /\ thread'[t].op = Op(t)
      /\ \A u \in Threads \ {t} : thread'[u] = thread[u]
    <2>1. "cas" \in Steps /\ thread[t].pc \in Steps
        BY <1>1 DEF Steps
    <2> QED BY <1>2, <1>3, <1>4, <2>1, OldMoves, Zenon
<1>6. Place(t)'
    <2>1. Place(t)
        BY DEF IInv
    <2>2. Interpreted' = Interpreted /\ Length(t)' = Length(t)
        BY DEF LoadAccumulator, Interpreted, Length
    <2> QED BY <1>1, <1>2, <1>5, <2>1, <2>2, Zenon DEF Place, KindAt, Blocked
<1>7. ~Holds(t) /\ ~Holds(t)' /\ \A a \in Cells : ~HoldsList(t, a) /\ ~HoldsList(t, a)'
    BY <1>1, <1>5, Zenon DEF Holds, HoldsList, At
<1>8. mux' \in Threads \cup {Free} /\ Passes(t, mux, mux') /\ ((mux' = t) <=> Holds(t)')
    BY <1>4, <1>7 DEF IInv, TypeOK, MutexInv, Passes
<1>9. thread'[t].pc \in Pending
    BY <1>5 DEF Pending
<1> QED BY <1>1, <1>5, <1>6, <1>7, <1>8, <1>9, GoesOn DEF LoadAccumulator

LEMMA CompareExchangeStep ==
    ASSUME IInv, NEW t \in Threads, CompareExchange(t)
    PROVE  IInv' /\ Simulated
<1>1. thread[t].pc = "cas" /\ thread[t].pc \in Steps \ {"start"} /\ thread[t].pc \in Pending
    BY DEF CompareExchange, At, Steps, Pending
<1>2. TypeOK /\ thread[t].op = Op(t) /\ Op(t).kind \in Logical /\ ~Interpreted
    BY <1>1, Running DEF IInv, Place, KindAt
<1>3. ~Holds(t) /\ \A a \in Cells : ~HoldsList(t, a)
    BY <1>1 DEF Holds, HoldsList, At
<1>4. CASE mem[Op(t).addr] = thread[t].old
    <2>1. thread[t].old = ResultOf(Op(t), mem[Op(t).addr])
        BY <1>2, <1>4 DEF ResultOf, Logical
    <2> QED BY <1>1, <1>3, <1>4, <2>1, Accessed, Zenon DEF CompareExchange
<1>5. CASE mem[Op(t).addr] # thread[t].old
    <2>1. Goto(t, "load") /\ mem' = mem /\ mux' = mux
        BY <1>5 DEF CompareExchange
    <2>2. /\ thread' \in [Threads -> ThreadStates]
          /\ thread'[t].pc = "load" /\ thread'[t].op = Op(t)
          /\ \A u \in Threads \ {t} : thread'[u] = thread[u]
        BY <1>1, <1>2, <2>1, GotoMoves DEF Steps
    <2>3. Place(t)'
        <3>1. Place(t)
            BY DEF IInv
        <3>2. Interpreted' = Interpreted /\ Length(t)' = Length(t)
            BY DEF CompareExchange, Interpreted, Length
        <3> QED BY <1>1, <1>2, <2>2, <3>1, <3>2, Zenon DEF Place, KindAt, Blocked
    <2>4. ~Holds(t)' /\ \A a \in Cells : ~HoldsList(t, a)'
        BY <2>2 DEF Holds, HoldsList, At
    <2>5. mux' \in Threads \cup {Free} /\ Passes(t, mux, mux') /\ ((mux' = t) <=> Holds(t)')
        BY <1>3, <2>1, <2>4 DEF IInv, TypeOK, MutexInv, Passes
    <2>6. thread'[t].pc \in Pending
        BY <2>2 DEF Pending
    <2> QED BY <1>1, <1>3, <2>1, <2>2, <2>3, <2>4, <2>5, <2>6, GoesOn, Zenon DEF CompareExchange
<1> QED BY <1>4, <1>5

\* No growth is under way when another thread holds Mux.
LEMMA NoneGrowing ==
    ASSUME IInv, NEW t \in Threads, mux = t, thread[t].pc = "locked"
    PROVE  Memory!Growing = {}
<1>1. ASSUME NEW u \in Threads PROVE Calls[u].status # "growing"
    <2>1. ~At(u, "grown")
        BY DEF IInv, MutexInv, Holds, At
    <2>2. Calls[u] = Linearised(u)
        BY DEF Calls
    <2>3. Linearised(u).status # "growing"
        BY <2>1 DEF Linearised, At
    <2> QED BY <2>2, <2>3
<1> QED BY <1>1 DEF Memory!Growing

\* Growing by nothing, or refused.
LEMMA IsNotGrow ==
    ASSUME NEW t \in Threads, NEW op, Calls[t] = [status |-> "called", op |-> op], op.kind = "grow",
           Memory!Growing = {}, op.arg = 0 \/ pages + op.arg > MaxPages,
           Calls' = [Calls EXCEPT ![t] =
                        [status |-> "done", res |-> IF op.arg = 0 THEN pages ELSE GrowFailed]],
           mem' = mem, SameLengths, Queues' = Queues
    PROVE  Simulated
<1>1. Memory!Called(t, {"grow"})
    BY DEF Memory!Called, Calls
<1>2. Calls[t].op = op
    OBVIOUS
<1>3. LET delta == Calls[t].op.arg
      IN  /\ delta = 0 \/ pages + delta > MaxPages
          /\ Calls' = [Calls EXCEPT ![t] =
                          Memory!Done(IF delta = 0 THEN pages ELSE Memory!GrowFailed)]
    BY <1>2 DEF Memory!Done, Memory!GrowFailed, GrowFailed
<1>4. UNCHANGED <<mem, pages, Lengths, Queues>>
    BY DEF SameLengths
<1>5. Memory!Grow(t)
    BY <1>1, <1>3, <1>4, Zenon DEF Memory!Grow, Calls, Queues, Queue, Lengths
<1> QED BY <1>5 DEF Simulated, Memory!Next

LEMMA IsGrow ==
    ASSUME NEW t \in Threads, NEW op, Calls[t] = [status |-> "called", op |-> op], op.kind = "grow",
           Memory!Growing = {}, ~(op.arg = 0 \/ pages + op.arg > MaxPages),
           NEW first \in SUBSET Threads, pages' = pages + op.arg,
           Lengths' = [u \in Threads |-> IF u \in first THEN pages' ELSE Lengths[u]],
           Calls' = [Calls EXCEPT ![t] = [status |-> "growing", res |-> pages]],
           mem' = mem, Queues' = Queues
    PROVE  Simulated
<1>1. Memory!Called(t, {"grow"})
    BY DEF Memory!Called, Calls
<1>2. Calls[t].op = op
    OBVIOUS
<1>3. LET delta == Calls[t].op.arg
      IN  /\ ~(delta = 0 \/ pages + delta > MaxPages)
          /\ \E f \in SUBSET Threads :
                /\ pages' = pages + delta
                /\ Lengths' = [u \in Threads |-> IF u \in f THEN pages' ELSE Lengths[u]]
                /\ Calls' = [Calls EXCEPT ![t] = [status |-> "growing", res |-> pages]]
    BY <1>2, Zenon
<1>4. UNCHANGED <<mem, Queues>>
    OBVIOUS
<1>5. Memory!Grow(t)
    BY <1>1, <1>3, <1>4, Zenon DEF Memory!Grow, Calls, Queues, Queue, Lengths
<1> QED BY <1>5 DEF Simulated, Memory!Next

\* The sum is as wide as the operand, and half of the operand's values are refused.
LEMMA Grown ==
    ASSUME NEW p \in 1..MaxPages, NEW delta \in Nat
    PROVE  /\ (p + delta) % MaxDelta > MaxPages \/ delta >= MaxDelta \div 2 => p + delta > MaxPages
           /\ ~((p + delta) % MaxDelta > MaxPages \/ delta >= MaxDelta \div 2) =>
                  (p + delta) % MaxDelta = p + delta /\ p + delta <= MaxPages
<1>1. MaxPages \in Nat /\ MaxDelta \in Nat /\ MaxDelta > 2 * MaxPages
    BY MemoryAssumption
<1>2. delta >= MaxDelta \div 2 => p + delta > MaxPages
    BY <1>1
<1>3. ASSUME delta < MaxDelta \div 2 PROVE (p + delta) % MaxDelta = p + delta
    <2>1. p + delta \in 0..(MaxDelta - 1)
        BY <1>1, <1>3
    <2>2. \A w \in Nat \ {0} : \A x \in 0..(w - 1) : x % w = x
        OBVIOUS
    <2> QED BY <1>1, <2>1, <2>2
<1>4. MaxDelta \div 2 \in Int /\ (p + delta) % MaxDelta \in Int
    BY <1>1, DivMod
<1> QED BY <1>1, <1>2, <1>3, <1>4

LEMMA GrowStep ==
    ASSUME IInv, NEW t \in Threads, Grow(t)
    PROVE  IInv' /\ Simulated
<1> DEFINE op == Op(t)
           new == (pages + op.arg) % MaxDelta
           refused == new > MaxPages \/ op.arg >= MaxDelta \div 2
<1>1. thread[t].pc = "locked" /\ thread[t].pc \in Steps \ {"start"} /\ thread[t].pc \in Pending
    BY DEF Grow, At, Steps, Pending
<1>2. op \in Operation /\ TypeOK /\ thread[t].op = op /\ op.kind = "grow"
    BY <1>1, Running DEF IInv, Grow
<1>3. Holds(t) /\ mux = t /\ \A a \in Cells : ~HoldsList(t, a)
    BY <1>1 DEF Holds, HoldsList, IInv, MutexInv
<1>4. view = pages /\ Memory!Growing = {}
    BY <1>1, <1>3, NoneGrowing DEF IInv, ViewInv, At
<1>5. op.arg \in Nat /\ pages \in 1..MaxPages /\ MaxPages \in Nat
    BY <1>2, MemoryAssumption DEF Operation, TypeOK
<1>6. /\ refused => pages + op.arg > MaxPages
      /\ ~refused => new = pages + op.arg /\ new <= MaxPages
    BY <1>5, Grown, Zenon
<1> HIDE DEF op
<1>7. CASE op.arg = 0
    <2>1. Finish(t, pages) /\ mux' = Free /\ pages' = pages /\ pages \in Int
        BY <1>5, <1>7 DEF Grow, op
    <2>2. /\ IInv' /\ SameLengths /\ Queues' = Queues
          /\ Calls[t] = [status |-> "called", op |-> op]
          /\ Calls' = [Calls EXCEPT ![t] = [status |-> "done", res |-> pages]]
        <3>1. UNCHANGED <<engine, owner, mem, pages, view, waiters, ready>>
            BY <2>1, Zenon DEF Grow
        <3>2. mux' = IF Holds(t) THEN Free ELSE mux
            BY <1>3, <2>1, Zenon
        <3> QED BY <1>1, <1>3, <2>1, <3>1, <3>2, Finishes, Zenon DEF op
    <2>3. Calls' = [Calls EXCEPT ![t] =
                       [status |-> "done", res |-> IF op.arg = 0 THEN pages ELSE GrowFailed]]
        BY <1>7, <2>2, Zenon
    <2>4. mem' = mem
        BY DEF Grow
    <2> QED BY <1>2, <1>4, <1>7, <2>2, <2>3, <2>4, IsNotGrow, Zenon
<1>8. CASE op.arg # 0 /\ refused
    <2>1. Finish(t, GrowFailed) /\ mux' = Free /\ pages' = pages /\ GrowFailed \in Int
        BY <1>8 DEF Grow, op, GrowFailed
    <2>2. /\ IInv' /\ SameLengths /\ Queues' = Queues
          /\ Calls[t] = [status |-> "called", op |-> op]
          /\ Calls' = [Calls EXCEPT ![t] = [status |-> "done", res |-> GrowFailed]]
        <3>1. UNCHANGED <<engine, owner, mem, pages, view, waiters, ready>>
            BY <2>1, Zenon DEF Grow
        <3>2. mux' = IF Holds(t) THEN Free ELSE mux
            BY <1>3, <2>1, Zenon
        <3> QED BY <1>1, <1>3, <2>1, <3>1, <3>2, Finishes, Zenon DEF op
    <2>3. Calls' = [Calls EXCEPT ![t] =
                       [status |-> "done", res |-> IF op.arg = 0 THEN pages ELSE GrowFailed]]
        BY <1>8, <2>2, Zenon
    <2>4. mem' = mem
        BY DEF Grow
    <2> QED BY <1>2, <1>4, <1>6, <1>8, <2>2, <2>3, <2>4, IsNotGrow, Zenon
<1>9. CASE op.arg # 0 /\ ~refused
    <2>1. pages' = new /\ Takes(t, "grown", pages) /\ mux' = mux
        BY <1>9 DEF Grow, Takes, op
    <2>2. new = pages + op.arg /\ new \in 1..MaxPages /\ new > pages
        BY <1>5, <1>6, <1>9
    <2> HIDE DEF new
    <2>3. /\ thread' \in [Threads -> ThreadStates]
          /\ thread'[t].pc = "grown" /\ thread'[t].op = op /\ thread'[t].old = pages
          /\ \A u \in Threads \ {t} : thread'[u] = thread[u]
        BY <1>1, <1>2, <1>5, <2>1, OldMoves DEF Steps
    <2>4. TypeOK'
        BY <1>2, <2>1, <2>2, <2>3 DEF TypeOK, Grow
    <2>5. Local(t)
        BY <1>2, <1>3, <2>1, <2>2, <2>3 DEF Local, Passes, Grow, TypeOK
    <2>6. Holds(t)' /\ \A a \in Cells : ~HoldsList(t, a)'
        BY <2>3 DEF Holds, HoldsList
    <2>7. Kept(t)
        <3>1. Place(t)'
            BY <1>2, <1>4, <2>1, <2>2, <2>3 DEF Place, KindAt, Blocked, Grow, Accesses, Rmw, Logical
        <3>2. \A a \in Cells : waiters'[a].mux # t
            BY <1>3 DEF IInv, MutexInv, Grow
        <3> QED BY <1>3, <2>1, <2>4, <2>6, <3>1, <3>2 DEF Kept
    <2>8. ViewInv'
        BY <1>3, <2>1, <2>3 DEF ViewInv, At
    <2>9. QueueInv'
        BY <1>1, <2>5, QueueStays DEF Grow, Blocked
    <2>10. IInv'
        BY <2>5, <2>7, <2>8, <2>9, StepKeeps
    <2>11. Calls[t] = [status |-> "called", op |-> op] /\ Calls' = [Calls EXCEPT ![t] = Linearised(t)']
        BY <1>1, <2>4, <2>5, CallsMove, Shown DEF Grow, op
    <2>12. Queues' = Queues
        BY <1>1, <2>3, <2>5, QueuesStay DEF At, Grow
    <2>13. Linearised(t)' = [status |-> "growing", res |-> pages]
        BY <2>3 DEF Linearised
    <2>14. ~(op.arg = 0 \/ pages + op.arg > MaxPages) /\ pages' = pages + op.arg
        BY <1>5, <1>9, <2>1, <2>2
    <2>15. /\ {u \in Threads : ~owner[u]} \in SUBSET Threads
           /\ Lengths' = [u \in Threads |-> IF u \in {x \in Threads : ~owner[x]} THEN pages'
                                            ELSE Lengths[u]]
        BY DEF Lengths, Length, Grow
    <2>16. mem' = mem
        BY DEF Grow
    <2>17. Calls' = [Calls EXCEPT ![t] = [status |-> "growing", res |-> pages]]
        BY <2>11, <2>13, Zenon
    <2> QED BY <1>2, <1>4, <2>10, <2>11, <2>12, <2>14, <2>15, <2>16, <2>17, IsGrow, Zenon
<1> QED BY <1>7, <1>8, <1>9

LEMMA MemoryGrownStep ==
    ASSUME IInv, NEW t \in Threads, MemoryGrown(t)
    PROVE  IInv' /\ Simulated
<1> DEFINE op == Op(t)
           old == thread[t].old
<1>1. thread[t].pc = "grown" /\ thread[t].pc \in Steps \ {"start"}
    BY DEF MemoryGrown, At, Steps
<1>2. op \in Operation /\ TypeOK /\ thread[t].op = op /\ old \in Int
    BY <1>1, Running DEF IInv
<1>3. op.kind = "grow" /\ old = view /\ view < pages /\ pages = view + op.arg
    BY <1>1, <1>2 DEF IInv, Place, KindAt
<1>4. Holds(t) /\ mux = t /\ \A a \in Cells : ~HoldsList(t, a)
    BY <1>1 DEF Holds, HoldsList, IInv, MutexInv
<1>5. Finish(t, old) /\ view' = pages /\ pages' = pages /\ mux' = Free
    BY DEF MemoryGrown
<1>6. /\ thread' \in [Threads -> ThreadStates]
      /\ thread'[t] = Done(old) /\ thread'[t].pc = "done" /\ thread'[t].res = old
      /\ \A u \in Threads \ {t} : thread'[u] = thread[u]
    BY <1>2, <1>5, FinishMoves
<1> HIDE DEF op, old
<1>7. TypeOK'
    BY <1>2, <1>5, <1>6 DEF TypeOK, MemoryGrown
<1>8. Local(t)
    <2>1. UNCHANGED <<engine, owner, mem, waiters>>
        BY Zenon DEF MemoryGrown
    <2>2. pages \in Int /\ view \in Int
        BY <1>2 DEF TypeOK
    <2>3. pages' >= pages /\ view' >= view
        BY <1>3, <1>5, <2>2
    <2>4. Passes(t, mux, mux')
        BY <1>4, <1>5, Zenon DEF Passes
    <2> QED BY <1>4, <1>6, <2>1, <2>3, <2>4, Zenon DEF Local, Passes
<1>9. Kept(t)
    <2>1. Place(t)'
        BY <1>6 DEF Place, Steps
    <2>2. \A a \in Cells : waiters'[a].mux # t
        BY <1>4 DEF IInv, MutexInv, MemoryGrown
    <2>3. ~Holds(t)' /\ \A a \in Cells : ~HoldsList(t, a)'
        BY <1>6 DEF Holds, HoldsList, At
    <2> QED BY <1>5, <1>7, <2>1, <2>2, <2>3, Distinct DEF Kept
<1>10. ViewInv' /\ QueueInv'
    BY <1>1, <1>5, <1>8, QueueStays DEF ViewInv, MemoryGrown, Blocked
<1>11. IInv'
    BY <1>8, <1>9, <1>10, StepKeeps
<1>12. Calls[t] = Linearised(t) /\ Calls' = [Calls EXCEPT ![t] = [status |-> "done", res |-> old]]
    <2>1. Linearised(t)' = [status |-> "done", res |-> old]
        BY <1>6 DEF Linearised
    <2> QED BY <1>7, <1>8, <2>1, CallsMove DEF MemoryGrown
<1>13. Queues' = Queues /\ mem' = mem
    BY <1>1, <1>6, <1>8, QueuesStay DEF At, MemoryGrown
<1>14. Calls[t] = [status |-> "growing", res |-> old]
    BY <1>1, <1>12, Shown DEF At, old
<1>15. Lengths' = [u \in Threads |-> pages]
    BY <1>5 DEF Lengths, Length, MemoryGrown
<1>16. Memory!Grown(t)
    <2>1. Calls[t].status = "growing" /\ Calls' = [Calls EXCEPT ![t] = Memory!Done(Calls[t].res)]
        BY <1>12, <1>14 DEF Memory!Done
    <2> QED BY <1>5, <1>13, <1>15, <2>1, Zenon DEF Memory!Grown, Calls, Queues, Queue, Lengths
<1> QED BY <1>11, <1>16 DEF Simulated, Memory!Next
=============================================================================
