---------------------------- MODULE ThreadsProofs ----------------------------
(***************************************************************************)
(* The threads of a shared memory implement AtomicMemory: every step of    *)
(* theirs is a step of it or changes nothing it shows, for every set of    *)
(* threads, whatever operations they call, on every engine and for every   *)
(* width, declared maximum and limit on waiters.                           *)
(***************************************************************************)
EXTENDS ThreadsAccessProofs

\* What concatenation yields.
LEMMA Concatenated ==
    ASSUME NEW S, NEW p \in Seq(S), NEW q \in Seq(S)
    PROVE  /\ p \o q \in Seq(S) /\ Len(p \o q) = Len(p) + Len(q)
           /\ \A i \in 1..(Len(p) + Len(q)) :
                  (p \o q)[i] = IF i <= Len(p) THEN p[i] ELSE q[i - Len(p)]
OBVIOUS

(* Waiting and notifying. *)

\* The entry, the mutex and the list of one address.
Sets(a, entry, m, list) ==
    waiters' = [waiters EXCEPT ![a] = [entry |-> entry, mux |-> m, list |-> list]]

LEMMA SetsMoves ==
    ASSUME TypeOK, NEW a \in Cells, NEW e \in BOOLEAN, NEW m \in Threads \cup {Free},
           NEW l \in Seq(Threads), Sets(a, e, m, l)
    PROVE  /\ waiters' \in [Cells -> [entry : BOOLEAN, mux : Threads \cup {Free}, list : Seq(Threads)]]
           /\ waiters'[a].entry = e /\ waiters'[a].mux = m /\ waiters'[a].list = l
           /\ \A b \in Cells \ {a} : waiters'[b] = waiters[b]
<1> DEFINE w == [entry |-> e, mux |-> m, list |-> l]
<1>1. w \in [entry : BOOLEAN, mux : Threads \cup {Free}, list : Seq(Threads)]
        /\ w.entry = e /\ w.mux = m /\ w.list = l
    OBVIOUS
<1>2. waiters' = [waiters EXCEPT ![a] = w]
    BY DEF Sets
<1> HIDE DEF w
<1> QED BY <1>1, <1>2 DEF TypeOK

\* A step of a thread on the list of its address.
OnList(t, a) ==
    /\ UNCHANGED <<engine, owner, mem, pages, view>>
    /\ \A u \in Threads \ {t} : thread'[u] = thread[u]
    /\ Passes(t, mux, mux')
    /\ \A b \in Cells \ {a} : waiters'[b] = waiters[b]
    /\ Passes(t, waiters[a].mux, waiters'[a].mux)
    /\ waiters[a].entry => waiters'[a].entry
    /\ waiters'[a].list = waiters[a].list \/ waiters[a].mux = t

LEMMA OnListLocal ==
    ASSUME IInv, NEW t \in Threads, NEW a \in Cells, OnList(t, a)
    PROVE  Local(t)
<1>1. \A b \in Cells : /\ Passes(t, waiters[b].mux, waiters'[b].mux)
                       /\ waiters[b].entry => waiters'[b].entry
                       /\ waiters'[b].list = waiters[b].list \/ waiters[b].mux = t
    BY DEF OnList, Passes
<1>2. pages' >= pages /\ view' >= view
    BY DEF OnList, IInv, TypeOK
<1> QED BY <1>1, <1>2 DEF OnList, Local

LEMMA OnListKeeps ==
    ASSUME IInv, NEW t \in Threads, NEW a \in Cells, a = Op(t).addr,
           thread[t].pc \in Steps \ {"start", "grown"}, OnList(t, a), TypeOK',
           thread'[t].pc = "done" \/ thread'[t].op = Op(t), Place(t)', (mux' = t) <=> Holds(t)',
           (waiters'[a].mux = t) <=> HoldsList(t, a)', QueueInv'
    PROVE  IInv' /\ SameLengths
<1>1. Local(t)
    BY OnListLocal
<1>2. ASSUME NEW b \in Cells PROVE (waiters'[b].mux = t) <=> HoldsList(t, b)'
    <2>1. CASE b = a
        BY <2>1
    <2>2. CASE b # a
        <3>1. ~HoldsList(t, b) /\ waiters'[b].mux = waiters[b].mux
            BY <2>2 DEF HoldsList, OnList, Op
        <3>2. ~HoldsList(t, b)'
            BY <2>2 DEF HoldsList, Op
        <3> QED BY <3>1, <3>2 DEF IInv, MutexInv
    <2> QED BY <2>1, <2>2
<1>3. Kept(t)
    BY <1>2 DEF Kept
<1>4. ViewInv'
    BY <1>1, ViewStays DEF OnList
<1> QED BY <1>1, <1>3, <1>4, StepKeeps DEF OnList, SameLengths, Lengths, Length

SetsMux(a, m) == waiters' = [waiters EXCEPT ![a].mux = m]
SetsList(a, m, l) == waiters' = [waiters EXCEPT ![a].mux = m, ![a].list = l]

LEMMA IsSets ==
    ASSUME TypeOK, NEW a \in Cells
    PROVE  /\ waiters[a].entry \in BOOLEAN /\ waiters[a].mux \in Threads \cup {Free}
           /\ waiters[a].list \in Seq(Threads)
           /\ \A m : SetsMux(a, m) => Sets(a, waiters[a].entry, m, waiters[a].list)
           /\ \A m, l : SetsList(a, m, l) => Sets(a, waiters[a].entry, m, l)
<1> DEFINE w == waiters[a]
<1>1. w \in [entry : BOOLEAN, mux : Threads \cup {Free}, list : Seq(Threads)]
    BY DEF TypeOK
<1>2. \A m : [w EXCEPT !.mux = m] = [entry |-> w.entry, mux |-> m, list |-> w.list]
    BY <1>1
<1>3. \A m, l : [[entry |-> w.entry, mux |-> m, list |-> w.list] EXCEPT !.list = l]
                    = [entry |-> w.entry, mux |-> m, list |-> l]
    OBVIOUS
<1>4. waiters \in [Cells -> [entry : BOOLEAN, mux : Threads \cup {Free}, list : Seq(Threads)]]
    BY DEF TypeOK
<1>5. \A m : [waiters EXCEPT ![a].mux = m] = [waiters EXCEPT ![a] = [w EXCEPT !.mux = m]]
    BY Zenon
<1>7. \A m : [waiters EXCEPT ![a].mux = m] = [waiters EXCEPT ![a] = [entry |-> w.entry, mux |-> m, list |-> w.list]]
    <2> HIDE DEF w
    <2> QED BY <1>2, <1>5, Zenon
<1>8. ASSUME NEW m, NEW l
      PROVE  [waiters EXCEPT ![a].mux = m, ![a].list = l]
                 = [waiters EXCEPT ![a] = [entry |-> w.entry, mux |-> m, list |-> l]]
    <2>1. PICK v : v = [waiters EXCEPT ![a].mux = m]
        BY Zenon
    <2>2. PICK x : x = [entry |-> w.entry, mux |-> m, list |-> w.list]
        BY Zenon
    <2>3. PICK y : y = [entry |-> w.entry, mux |-> m, list |-> l]
        BY Zenon
    <2>4. v = [waiters EXCEPT ![a] = x]
        BY <1>7, <2>1, <2>2, Zenon
    <2>5. v[a] = x /\ [v EXCEPT ![a] = y] = [waiters EXCEPT ![a] = y]
        BY <1>4, <2>4, Zenon
    <2>6. [x EXCEPT !.list = l] = y
        BY <2>2, <2>3
    <2>7. [waiters EXCEPT ![a].mux = m, ![a].list = l] = [v EXCEPT ![a].list = l]
        BY <2>1, Zenon
    <2>8. [v EXCEPT ![a].list = l] = [v EXCEPT ![a] = [v[a] EXCEPT !.list = l]]
        BY Zenon
    <2>9. [v EXCEPT ![a].list = l] = [v EXCEPT ![a] = y]
        BY <2>5, <2>6, <2>8, Zenon
    <2> QED BY <2>3, <2>5, <2>7, <2>9, Zenon
<1>9. w.entry \in BOOLEAN /\ w.mux \in Threads \cup {Free} /\ w.list \in Seq(Threads)
    <2> HIDE DEF w
    <2> QED BY <1>1, Zenon
<1>10. \A m : SetsMux(a, m) => Sets(a, w.entry, m, w.list)
    <2> HIDE DEF w
    <2> QED BY <1>7, Zenon DEF Sets, SetsMux
<1>11. \A m, l : SetsList(a, m, l) => Sets(a, w.entry, m, l)
    <2> HIDE DEF w
    <2> QED BY <1>8, Zenon DEF Sets, SetsList
<1> QED BY <1>9, <1>10, <1>11, Zenon

\* The steps of a wait and of a notification once its address has been checked.
Parked == {"waiters", "wlock", "rlock", "compare", "push", "find", "wake"} \cup Blocked

LEMMA ParkedInBounds ==
    ASSUME IInv, NEW t \in Threads, thread[t].pc \in Parked
    PROVE  /\ thread[t].pc \in Steps \ {"start", "grown"} /\ TypeOK /\ thread[t].op = Op(t)
           /\ Op(t) \in Operation /\ Op(t).addr \in Cells /\ Memory!Traps(t, Op(t)) = {}
           /\ mem[Op(t).addr] \in Int
           /\ Op(t).kind = IF thread[t].pc \in {"find", "wake"} THEN "notify"
                           ELSE IF thread[t].pc = "wlock" THEN Op(t).kind ELSE "wait"
           /\ Op(t).kind \in {"wait", "notify"}
<1>1. thread[t].pc \in Steps \ {"start", "grown"}
    BY DEF Parked, Blocked, Steps
<1>2. TypeOK /\ thread[t].op = Op(t)
    BY <1>1, Running DEF IInv
<1>3. /\ Op(t).kind = IF thread[t].pc \in {"find", "wake"} THEN "notify"
                      ELSE IF thread[t].pc = "wlock" THEN Op(t).kind ELSE "wait"
      /\ Op(t).kind \in {"wait", "notify"}
    BY <1>1, <1>2 DEF IInv, Place, KindAt, Parked, Blocked
<1>4. Op(t).kind \notin Accesses /\ Op(t).kind # "grow"
    BY <1>3 DEF Accesses, Rmw, Logical
<1> QED BY <1>1, <1>2, <1>3, <1>4, InBounds

LEMMA getWaitersStep ==
    ASSUME IInv, NEW t \in Threads, getWaiters(t)
    PROVE  IInv' /\ Simulated
<1>1. /\ thread[t].pc = "waiters" /\ thread[t].pc \in Steps \ {"start", "grown"} /\ "wlock" \in Steps
      /\ Goto(t, "wlock")
    BY DEF getWaiters, At, Steps
<1>2. Op(t) \in Operation /\ TypeOK /\ thread[t].op = Op(t) /\ Op(t).kind = "wait"
    BY <1>1, ParkedInBounds DEF Parked
<1>3. PICK a \in Cells : a = Op(t).addr
    BY <1>1, ParkedInBounds DEF Parked
<1>4. /\ thread' \in [Threads -> ThreadStates]
      /\ thread'[t].pc = "wlock" /\ thread'[t].op = Op(t)
      /\ \A u \in Threads \ {t} : thread'[u] = thread[u]
    BY <1>1, <1>2, GotoMoves
<1>5. waiters[a] \in [entry : BOOLEAN, mux : Threads \cup {Free}, list : Seq(Threads)]
    BY <1>2 DEF TypeOK
<1>6. /\ waiters' \in [Cells -> [entry : BOOLEAN, mux : Threads \cup {Free}, list : Seq(Threads)]]
      /\ waiters'[a].entry = TRUE /\ waiters'[a].mux = waiters[a].mux
      /\ waiters'[a].list = waiters[a].list
      /\ \A b \in Cells \ {a} : waiters'[b] = waiters[b]
    BY <1>2, <1>3, <1>5, Zenon DEF getWaiters, TypeOK
<1>7. TypeOK'
    BY <1>2, <1>4, <1>6 DEF TypeOK, getWaiters
<1>8. OnList(t, a)
    BY <1>4, <1>6 DEF OnList, Passes, getWaiters
<1>9. ~Holds(t) /\ ~Holds(t)' /\ ~HoldsList(t, a) /\ ~HoldsList(t, a)'
    BY <1>1, <1>4 DEF Holds, HoldsList, At
<1>10. Place(t)'
    BY <1>1, <1>2, <1>4, <1>6 DEF IInv, Place, KindAt, Length, Interpreted, getWaiters, Blocked, Steps
<1>11. Local(t)
    BY <1>3, <1>8, OnListLocal
<1>12. QueueInv'
    BY <1>1, <1>6, <1>11, QueueStays, Zenon DEF getWaiters, Blocked
<1>13. IInv' /\ SameLengths
    BY <1>1, <1>3, <1>4, <1>6, <1>7, <1>8, <1>9, <1>10, <1>12, OnListKeeps
        DEF IInv, MutexInv, getWaiters
<1>14. Linearised(t)' = Linearised(t)
    BY <1>1, <1>4 DEF Linearised, Op
<1>15. UNCHANGED Memory!vars
    BY <1>1, <1>4, <1>6, <1>7, <1>11, <1>13, <1>14, Silent DEF getWaiters, At
<1> QED BY <1>13, <1>15 DEF Simulated

LEMMA LockWaitersStep ==
    ASSUME IInv, NEW t \in Threads, LockWaiters(t)
    PROVE  IInv' /\ Simulated
<1> DEFINE q == AfterLock(t)
<1>1. /\ thread[t].pc \in {"wlock", "elock"} /\ thread[t].pc \in Steps \ {"start", "grown"}
      /\ q \in {"remove", "wake", "rlock", "compare"} /\ q \in Steps /\ Goto(t, q)
    BY DEF LockWaiters, AfterLock, Steps
<1>2. Op(t) \in Operation /\ TypeOK /\ thread[t].op = Op(t) /\ Op(t).kind \in {"wait", "notify"}
    BY <1>1, ParkedInBounds DEF Parked, Blocked
<1>3. PICK a \in Cells : a = Op(t).addr
    BY <1>1, ParkedInBounds DEF Parked, Blocked
<1>4. /\ thread' \in [Threads -> ThreadStates]
      /\ thread'[t].pc = q /\ thread'[t].op = Op(t)
      /\ \A u \in Threads \ {t} : thread'[u] = thread[u]
    BY <1>1, <1>2, GotoMoves
<1>5. /\ waiters[a].entry \in BOOLEAN /\ waiters[a].list \in Seq(Threads)
      /\ Sets(a, waiters[a].entry, t, waiters[a].list)
    <2>1. SetsMux(a, t)
        BY <1>3 DEF LockWaiters, SetsMux
    <2> QED BY <1>2, <2>1, IsSets
<1>6. q = IF thread[t].pc = "elock" THEN "remove" ELSE IF Op(t).kind = "notify" THEN "wake"
              ELSE IF Interpreted THEN "rlock" ELSE "compare"
    BY DEF AfterLock, At
<1>7. waiters[a].mux = Free
    BY <1>3 DEF LockWaiters
<1> HIDE DEF q
<1>8. /\ waiters' \in [Cells -> [entry : BOOLEAN, mux : Threads \cup {Free}, list : Seq(Threads)]]
      /\ waiters'[a].entry = waiters[a].entry /\ waiters'[a].mux = t
      /\ waiters'[a].list = waiters[a].list
      /\ \A b \in Cells \ {a} : waiters'[b] = waiters[b]
    BY <1>2, <1>3, <1>5, SetsMoves
<1>9. TypeOK'
    BY <1>2, <1>4, <1>8 DEF TypeOK, LockWaiters
<1>10. OnList(t, a)
    BY <1>4, <1>7, <1>8 DEF OnList, Passes, LockWaiters
<1>11. ~Holds(t) /\ ~Holds(t)' /\ HoldsList(t, a)'
    BY <1>1, <1>3, <1>4, <1>6 DEF Holds, HoldsList, At, Interpreted, LockWaiters, Op
<1>12. Place(t)'
    BY <1>1, <1>2, <1>4, <1>6, <1>8
        DEF IInv, Place, KindAt, Length, Interpreted, LockWaiters, Blocked, Steps
<1>13. Local(t)
    BY <1>3, <1>10, OnListLocal
<1>14. QueueInv'
    BY <1>1, <1>2, <1>4, <1>6, <1>8, <1>13, QueueStays DEF LockWaiters, Blocked
<1>15. IInv' /\ SameLengths
    BY <1>1, <1>3, <1>4, <1>8, <1>9, <1>10, <1>11, <1>12, <1>14, OnListKeeps
        DEF IInv, MutexInv, LockWaiters
<1>16. Linearised(t)' = Linearised(t)
    BY <1>1, <1>2, <1>4, <1>6 DEF Linearised, Op, LockWaiters
<1>17. UNCHANGED Memory!vars
    BY <1>1, <1>4, <1>8, <1>9, <1>13, <1>15, <1>16, Silent, SMTT(30) DEF LockWaiters, At
<1> QED BY <1>15, <1>17 DEF Simulated

\* A step that replaces the list of one address.
LEMMA QueueChanges ==
    ASSUME IInv, NEW t \in Threads, Local(t), NEW a \in Cells, Op(t).addr = a, NEW l \in Seq(Threads),
           waiters'[a].list = l, \A b \in Cells \ {a} : waiters'[b].list = waiters[b].list,
           \A i \in 1..Len(l) : thread'[l[i]].pc \in Blocked /\ Op(l[i])'.addr = a /\ l[i] \notin ready',
           \A i, j \in 1..Len(l) : l[i] = l[j] => i = j,
           \A u \in ready' : thread'[u].pc \in Blocked /\ (u \in ready \/ Op(u).addr = a)
    PROVE  QueueInv'
<1>1. ASSUME NEW b \in Cells \ {a} PROVE Listed(b)'
    <2>1. Listed(b) /\ waiters'[b].list = waiters[b].list /\ waiters[b].list \in Seq(Threads)
        BY DEF IInv, QueueInv, TypeOK
    <2>2. ASSUME NEW m \in Seq(Threads), NEW i \in 1..Len(m) PROVE m[i] \in Threads
        OBVIOUS
    <2>3. ASSUME NEW i \in 1..Len(waiters[b].list)
          PROVE  LET u == waiters[b].list[i]
                 IN  thread'[u].pc \in Blocked /\ Op(u)'.addr = b /\ u \notin ready'
        <3> DEFINE u == waiters[b].list[i]
        <3>1. u \in Threads /\ thread[u].pc \in Blocked /\ Op(u).addr = b /\ u \notin ready
            BY <2>1, <2>2 DEF Listed
        <3>2. u # t
            BY <3>1
        <3>3. thread'[u] = thread[u] /\ Op(u)' = Op(u)
            BY <3>1, <3>2 DEF Local, Op
        <3> HIDE DEF u
        <3>4. u \notin ready'
            BY <3>1
        <3>5. thread'[u].pc \in Blocked /\ Op(u)'.addr = b /\ u \notin ready'
            BY <3>1, <3>3, <3>4
        <3> QED BY <3>5 DEF u
    <2>4. \A i, j \in 1..Len(waiters[b].list) : waiters[b].list[i] = waiters[b].list[j] => i = j
        BY <2>1 DEF Listed
    <2> QED BY <2>1, <2>3, <2>4 DEF Listed, Op
<1>2. Listed(a)'
    BY DEF Listed, Op
<1> QED BY <1>1, <1>2 DEF QueueInv

\* A step that ends a wait or a notification and releases the list.
Releases(t, a, r, l) ==
    /\ thread[t].pc \in {"compare", "push", "remove", "wake"}
    /\ a = Op(t).addr
    /\ Finish(t, r)
    /\ Sets(a, waiters[a].entry, Free, l)
    /\ mux' = IF Holds(t) THEN Free ELSE mux
    /\ UNCHANGED <<engine, owner, mem, pages, view>>

LEMMA ReleasesMoves ==
    ASSUME IInv, NEW t \in Threads, NEW a \in Cells, NEW r \in Int, NEW l \in Seq(Threads),
           Releases(t, a, r, l), ready' \subseteq Threads
    PROVE  /\ TypeOK' /\ OnList(t, a) /\ Local(t)
           /\ thread'[t].pc = "done" /\ Linearised(t)' = [status |-> "done", res |-> r]
           /\ waiters'[a].list = l /\ waiters'[a].mux = Free
           /\ \A b \in Cells \ {a} : waiters'[b].list = waiters[b].list
<1>1. /\ thread' \in [Threads -> ThreadStates]
      /\ thread'[t] = Done(r) /\ thread'[t].pc = "done" /\ thread'[t].res = r
      /\ \A u \in Threads \ {t} : thread'[u] = thread[u]
    BY FinishMoves DEF IInv, Releases
<1>2. HoldsList(t, a) /\ waiters[a].mux = t /\ waiters[a].entry \in BOOLEAN
    BY DEF HoldsList, Releases, IInv, MutexInv, TypeOK
<1>3. /\ waiters' \in [Cells -> [entry : BOOLEAN, mux : Threads \cup {Free}, list : Seq(Threads)]]
      /\ waiters'[a].entry = waiters[a].entry /\ waiters'[a].mux = Free /\ waiters'[a].list = l
      /\ \A b \in Cells \ {a} : waiters'[b] = waiters[b]
    <2>1. TypeOK /\ Sets(a, waiters[a].entry, Free, l) /\ Free \in Threads \cup {Free}
        BY DEF Releases, IInv
    <2> QED BY <1>2, <2>1, SetsMoves, SMTT(30)
<1>4. TypeOK'
    BY <1>1, <1>3 DEF IInv, TypeOK, Releases
<1>5. Passes(t, mux, mux')
    BY DEF Passes, Releases, IInv, MutexInv
<1>6. OnList(t, a)
    BY <1>1, <1>2, <1>3, <1>5 DEF OnList, Passes, Releases
<1>7. Linearised(t)' = [status |-> "done", res |-> r]
    BY <1>1 DEF Linearised
<1> QED BY <1>1, <1>3, <1>4, <1>6, <1>7, OnListLocal

LEMMA ReleasesKeeps ==
    ASSUME IInv, NEW t \in Threads, NEW a \in Cells, NEW r \in Int, NEW l \in Seq(Threads),
           Releases(t, a, r, l), ready' \subseteq Threads, QueueInv'
    PROVE  IInv' /\ SameLengths
<1>1. /\ TypeOK' /\ OnList(t, a) /\ thread'[t].pc = "done" /\ waiters'[a].mux = Free
    BY ReleasesMoves
<1>2. ~Holds(t)' /\ ~HoldsList(t, a)' /\ mux' # t
    BY <1>1, Distinct DEF Holds, HoldsList, At, Releases, IInv, MutexInv
<1>3. Place(t)'
    BY <1>1 DEF Place, Steps
<1>4. thread[t].pc \in Steps \ {"start", "grown"} /\ a = Op(t).addr
    BY DEF Releases, Steps
<1> QED BY <1>1, <1>2, <1>3, <1>4, OnListKeeps, Distinct
-----------------------------------------------------------------------------
(* The waits of AtomicMemory. *)

LEMMA IsRefused ==
    ASSUME NEW t \in Threads, NEW op, Calls[t] = [status |-> "called", op |-> op], op.kind = "wait",
           Memory!Traps(t, op) = {}, op.addr \in Cells, NEW r,
           r = IF mem[op.addr] # op.exp THEN 1 ELSE TooManyWaiters,
           mem[op.addr] = op.exp => Len(Queues[op.addr]) + 1 = MaxWaiters,
           Calls' = [Calls EXCEPT ![t] = [status |-> "done", res |-> r]],
           mem' = mem, SameLengths, Queues' = Queues
    PROVE  Simulated
<1>1. Memory!Called(t, {"wait"})
    BY DEF Memory!Called, Calls
<1>2. Calls[t].op = op
    OBVIOUS
<1>3. LET o == Calls[t].op
      IN  /\ Memory!Traps(t, o) = {}
          /\ IF mem[o.addr] # o.exp
             THEN /\ Calls' = [Calls EXCEPT ![t] = Memory!Done(1)]
                  /\ UNCHANGED Queues
             ELSE IF Len(Queues[o.addr]) + 1 = MaxWaiters
             THEN /\ Calls' = [Calls EXCEPT ![t] = Memory!Done(Memory!TooManyWaiters)]
                  /\ UNCHANGED Queues
             ELSE /\ Calls' = [Calls EXCEPT ![t].status = "waiting"]
                  /\ Queues' = [Queues EXCEPT ![o.addr] = Append(@, t)]
    BY <1>2, Zenon DEF Memory!Done, Memory!TooManyWaiters, TooManyWaiters
<1>4. UNCHANGED <<mem, pages, Lengths>>
    BY DEF SameLengths
<1>5. Memory!Wait(t)
    BY <1>1, <1>3, <1>4, Zenon DEF Memory!Wait, Calls, Queues, Queue, Lengths
<1> QED BY <1>5 DEF Simulated, Memory!Next

LEMMA IsWait ==
    ASSUME NEW t \in Threads, NEW op, Calls[t] = [status |-> "called", op |-> op], op.kind = "wait",
           Memory!Traps(t, op) = {}, mem[op.addr] = op.exp, Len(Queues[op.addr]) + 1 # MaxWaiters,
           Calls' = [Calls EXCEPT ![t] = [status |-> "waiting", op |-> op]],
           mem' = mem, SameLengths,
           Queues' = [Queues EXCEPT ![op.addr] = Append(Queues[op.addr], t)]
    PROVE  Simulated
<1>1. Memory!Called(t, {"wait"})
    BY DEF Memory!Called, Calls
<1>2. Calls[t].op = op /\ [Calls[t] EXCEPT !.status = "waiting"] = [status |-> "waiting", op |-> op]
    OBVIOUS
<1>3. LET o == Calls[t].op
      IN  /\ Memory!Traps(t, o) = {}
          /\ IF mem[o.addr] # o.exp
             THEN /\ Calls' = [Calls EXCEPT ![t] = Memory!Done(1)]
                  /\ UNCHANGED Queues
             ELSE IF Len(Queues[o.addr]) + 1 = MaxWaiters
             THEN /\ Calls' = [Calls EXCEPT ![t] = Memory!Done(Memory!TooManyWaiters)]
                  /\ UNCHANGED Queues
             ELSE /\ Calls' = [Calls EXCEPT ![t].status = "waiting"]
                  /\ Queues' = [Queues EXCEPT ![o.addr] = Append(@, t)]
    BY <1>2, Zenon
<1>4. UNCHANGED <<mem, pages, Lengths>>
    BY DEF SameLengths
<1>5. Memory!Wait(t)
    BY <1>1, <1>3, <1>4, Zenon DEF Memory!Wait, Calls, Queues, Queue, Lengths
<1> QED BY <1>5 DEF Simulated, Memory!Next

LEMMA CompareStep ==
    ASSUME IInv, NEW t \in Threads, Compare(t)
    PROVE  IInv' /\ Simulated
<1>1. thread[t].pc = "compare" /\ thread[t].pc \in Parked /\ thread[t].pc \in Pending
    BY DEF Compare, At, Parked, Pending
<1>2. /\ thread[t].pc \in Steps \ {"start", "grown"} /\ TypeOK /\ thread[t].op = Op(t)
      /\ Op(t) \in Operation /\ Op(t).addr \in Cells /\ Memory!Traps(t, Op(t)) = {}
      /\ Op(t).kind = "wait"
    BY <1>1, ParkedInBounds
<1>3. PICK a \in Cells : a = Op(t).addr
    BY <1>2
<1>4. HoldsList(t, a) /\ (Holds(t) <=> Interpreted) /\ waiters[a].mux = t
    BY <1>1, <1>3 DEF HoldsList, Holds, At, IInv, MutexInv
<1>5. /\ Queues[a] = Queue(a) /\ Queue(a) = waiters[a].list /\ waiters[a].list \in Seq(Threads)
      /\ Linearised(t) = [status |-> "called", op |-> Op(t)]
      /\ waiters[a].entry \in BOOLEAN
    BY <1>1, <1>2, <1>4, QueueOf, Shown DEF At, Queues, TypeOK
<1>6. mux' = IF Holds(t) THEN Free ELSE mux
    BY <1>4 DEF Compare
<1>7. CASE mem[a] # Op(t).exp
    <2> DEFINE l == waiters[a].list
    <2>1. Finish(t, 1) /\ Sets(a, waiters[a].entry, Free, l) /\ 1 \in Int /\ ready' = ready
        <3>1. SetsMux(a, Free) /\ Finish(t, 1) /\ ready' = ready
            BY <1>3, <1>7 DEF Compare, SetsMux
        <3> QED BY <1>2, <3>1, IsSets
    <2>2. Releases(t, a, 1, l) /\ ready' \subseteq Threads /\ l \in Seq(Threads)
        BY <1>1, <1>2, <1>3, <1>5, <1>6, <2>1 DEF Releases, Compare, TypeOK
    <2> HIDE DEF l
    <2>3. /\ TypeOK' /\ Local(t) /\ thread'[t].pc = "done"
          /\ Linearised(t)' = [status |-> "done", res |-> 1]
          /\ waiters'[a].list = l /\ \A b \in Cells \ {a} : waiters'[b].list = waiters[b].list
        BY <2>1, <2>2, ReleasesMoves
    <2>4. \A b \in Cells : waiters'[b].list = waiters[b].list
        BY <2>3 DEF l
    <2>5. QueueInv'
        BY <1>1, <2>1, <2>3, <2>4, QueueStays DEF Blocked
    <2>6. IInv' /\ SameLengths
        BY <2>1, <2>2, <2>5, ReleasesKeeps
    <2>7. Queues' = Queues
        BY <1>1, <2>3, <2>4, QueuesStay DEF At
    <2>8. Calls[t] = Linearised(t) /\ Calls' = [Calls EXCEPT ![t] = [status |-> "done", res |-> 1]]
        BY <2>1, <2>3, CallsMove
    <2> QED BY <1>2, <1>3, <1>5, <1>7, <2>6, <2>7, <2>8, IsRefused, Zenon DEF Compare
<1>8. CASE mem[a] = Op(t).exp
    <2>1. Goto(t, "push") /\ waiters' = waiters /\ "push" \in Steps
        BY <1>3, <1>8 DEF Compare, Steps
    <2>2. /\ thread' \in [Threads -> ThreadStates]
          /\ thread'[t].pc = "push" /\ thread'[t].op = Op(t)
          /\ \A u \in Threads \ {t} : thread'[u] = thread[u]
        BY <1>2, <2>1, GotoMoves
    <2>3. TypeOK'
        BY <1>2, <1>6, <2>1, <2>2 DEF TypeOK, Compare
    <2>4. OnList(t, a)
        BY <1>4, <1>6, <2>1, <2>2 DEF OnList, Passes, Compare, IInv, MutexInv
    <2>5. Local(t)
        BY <2>4, OnListLocal
    <2>6. ~Holds(t)' /\ mux' # t /\ HoldsList(t, a)' /\ Op(t)' = Op(t)
        BY <1>3, <1>6, <2>2, Distinct DEF Holds, HoldsList, At, Op, IInv, MutexInv
    <2>7. Place(t)'
        BY <1>1, <1>2, <2>1, <2>2 DEF IInv, Place, KindAt, Length, Interpreted, Compare, Blocked, Steps
    <2>8. QueueInv'
        BY <1>1, <2>1, <2>5, QueueStays DEF Compare, Blocked
    <2>9. IInv' /\ SameLengths
        BY <1>2, <1>3, <1>4, <2>1, <2>2, <2>3, <2>4, <2>6, <2>7, <2>8, OnListKeeps
    <2>10. Full(a)' <=> Full(a)
        BY <2>1 DEF Full
    <2>11. /\ Queue(a)' = IF Full(a) THEN waiters[a].list ELSE Append(waiters[a].list, t)
           /\ Linearised(t)' = IF Full(a) THEN [status |-> "done", res |-> TooManyWaiters]
                               ELSE [status |-> "waiting", op |-> Op(t)]
        <3>1. At(t, "push")'
            BY <2>2 DEF At
        <3>2. Queue(a)' = IF Full(a)' THEN waiters'[a].list ELSE Append(waiters'[a].list, t)
            BY <2>6, <2>9, <3>1, QueueOfAfter
        <3> QED BY <1>3, <2>1, <2>2, <2>10, <3>2 DEF Linearised, Full
    <2>12. Queues' = [Queues EXCEPT ![a] = Queue(a)']
        BY <1>1, <1>3, <2>1, <2>5, <2>6, QueuesMove DEF At
    <2>13. Calls[t] = Linearised(t) /\ Calls' = [Calls EXCEPT ![t] = Linearised(t)']
        BY <2>3, <2>5, CallsMove DEF Compare
    <2>14. Full(a) <=> Len(Queues[a]) + 1 = MaxWaiters
        BY <1>5 DEF Full
    <2>15. CASE Full(a)
        <3>1. Queues' = Queues
            BY <1>5, <2>11, <2>12, <2>15, Zenon DEF Queues
        <3>2. Calls' = [Calls EXCEPT ![t] = [status |-> "done", res |-> TooManyWaiters]]
            BY <2>11, <2>13, <2>15
        <3> QED BY <1>2, <1>3, <1>5, <1>8, <2>9, <2>13, <2>14, <2>15, <3>1, <3>2, IsRefused, ZenonT(30) DEF Compare
    <2>16. CASE ~Full(a)
        <3>1. Queues' = [Queues EXCEPT ![Op(t).addr] = Append(Queues[Op(t).addr], t)]
            BY <1>3, <1>5, <2>11, <2>12, <2>16
        <3>2. Calls' = [Calls EXCEPT ![t] = [status |-> "waiting", op |-> Op(t)]]
            BY <2>11, <2>13, <2>16
        <3>3. /\ Calls[t] = [status |-> "called", op |-> Op(t)]
              /\ mem[Op(t).addr] = Op(t).exp /\ mem' = mem
              /\ Len(Queues[Op(t).addr]) + 1 # MaxWaiters
            BY <1>3, <1>5, <1>8, <2>13, <2>14, <2>16 DEF Compare
        <3> QED BY <1>2, <2>9, <3>1, <3>2, <3>3, IsWait, Zenon
    <2> QED BY <2>15, <2>16
<1> QED BY <1>7, <1>8

\* The last waiter of a list on which a thread was put.
LEMMA Appended ==
    ASSUME NEW l \in Seq(Threads), NEW t \in Threads
    PROVE  /\ Append(l, t) \in Seq(Threads) /\ Len(Append(l, t)) = Len(l) + 1
           /\ \A i \in 1..Len(l) : Append(l, t)[i] = l[i] /\ l[i] \in Threads
           /\ Append(l, t)[Len(l) + 1] = t
           /\ \A i \in 1..(Len(l) + 1) : i = Len(l) + 1 \/ i \in 1..Len(l)
OBVIOUS

LEMMA PushStep ==
    ASSUME IInv, NEW t \in Threads, Push(t)
    PROVE  IInv' /\ Simulated
<1>1. thread[t].pc = "push" /\ thread[t].pc \in Parked
    BY DEF Push, At, Parked
<1>2. /\ thread[t].pc \in Steps \ {"start", "grown"} /\ TypeOK /\ thread[t].op = Op(t)
      /\ Op(t) \in Operation /\ Op(t).addr \in Cells
      /\ Op(t).kind = "wait"
    BY <1>1, ParkedInBounds
<1>3. PICK a \in Cells : a = Op(t).addr
    BY <1>2
<1>4. HoldsList(t, a) /\ ~Holds(t) /\ waiters[a].mux = t /\ mux # t /\ mux' = mux /\ ready' = ready
    BY <1>1, <1>3 DEF HoldsList, Holds, At, IInv, MutexInv, Push
<1>L. PICK l \in Seq(Threads) : l = waiters[a].list
    BY <1>2 DEF TypeOK
<1>5. /\ Queues[a] = Queue(a) /\ waiters[a].entry \in BOOLEAN
      /\ Queue(a) = IF Full(a) THEN l ELSE Append(l, t)
      /\ Linearised(t) = IF Full(a) THEN [status |-> "done", res |-> TooManyWaiters]
                         ELSE [status |-> "waiting", op |-> Op(t)]
    BY <1>L, <1>1, <1>2, <1>3, <1>4, QueueOf, Shown, Zenon DEF At, Queues, TypeOK
<1>6. CASE Full(a)
    <2> DEFINE r == TooManyWaiters
    <2>1. Finish(t, r) /\ Sets(a, waiters[a].entry, Free, l) /\ r \in Int
        <3>1. SetsMux(a, Free) /\ Finish(t, r)
            BY <1>3, <1>6 DEF Push, SetsMux
        <3>2. r \in Int
            BY DEF TooManyWaiters
        <3> QED BY <1>L, <1>2, <3>1, <3>2, IsSets
    <2>2. Releases(t, a, r, l) /\ ready' \subseteq Threads
        BY <1>1, <1>2, <1>3, <1>4, <2>1 DEF Releases, Push, TypeOK
    <2> HIDE DEF r
    <2>3. /\ TypeOK' /\ Local(t) /\ thread'[t].pc = "done" /\ waiters'[a].mux = Free
          /\ Linearised(t)' = [status |-> "done", res |-> r]
          /\ waiters'[a].list = l /\ \A b \in Cells \ {a} : waiters'[b].list = waiters[b].list
        BY <1>5, <2>1, <2>2, ReleasesMoves, ZenonT(30)
    <2>4. \A b \in Cells : waiters'[b].list = waiters[b].list
        BY <1>L, <2>3
    <2>5. QueueInv'
        BY <1>1, <1>4, <2>3, <2>4, QueueStays DEF Blocked
    <2>6. IInv' /\ SameLengths
        BY <1>5, <2>1, <2>2, <2>5, ReleasesKeeps
    <2>7. Queue(a)' = l
        BY <2>3, <2>6, QueueFreeAfter
    <2>8. Queues' = [Queues EXCEPT ![a] = Queue(a)']
        BY <1>3, <2>3, <2>4, QueuesMove DEF At
    <2>9. Queues' = Queues
        BY <1>5, <1>6, <2>7, <2>8, Zenon DEF Queues
    <2>10. Calls[t] = Linearised(t) /\ Calls' = [Calls EXCEPT ![t] = [status |-> "done", res |-> r]]
        BY <1>4, <2>3, CallsMove
    <2>11. Calls' = Calls
        BY <1>5, <1>6, <2>10, Zenon DEF Calls, r
    <2> QED BY <2>6, <2>9, <2>11, Stutters DEF Simulated, Push
<1>7. CASE ~Full(a)
    <2>M. PICK m \in Seq(Threads) : m = Append(l, t)
        BY Appended, Zenon
    <2>1. Goto(t, "blocked") /\ Sets(a, waiters[a].entry, Free, m) /\ "blocked" \in Steps
        <3>1. SetsList(a, Free, m) /\ Goto(t, "blocked") /\ "blocked" \in Steps
            BY <1>L, <1>2, <1>3, <1>7, <2>M, Zenon DEF Push, SetsList, Steps, TypeOK
        <3> QED BY <1>2, <3>1, IsSets
    <2>2. /\ thread' \in [Threads -> ThreadStates]
          /\ thread'[t].pc = "blocked" /\ thread'[t].op = Op(t)
          /\ \A u \in Threads \ {t} : thread'[u] = thread[u]
        BY <1>2, <2>1, GotoMoves
    <2>3. /\ m \in Seq(Threads) /\ Len(m) = Len(l) + 1 /\ Len(l) \in Nat
          /\ \A i \in 1..Len(l) : m[i] = l[i] /\ l[i] \in Threads
          /\ m[Len(l) + 1] = t
          /\ \A i \in 1..(Len(l) + 1) : i = Len(l) + 1 \/ i \in 1..Len(l)
        BY <2>M, Appended
    <2>4. /\ waiters' \in [Cells -> [entry : BOOLEAN, mux : Threads \cup {Free}, list : Seq(Threads)]]
          /\ waiters'[a].entry = waiters[a].entry /\ waiters'[a].mux = Free /\ waiters'[a].list = m
          /\ \A b \in Cells \ {a} : waiters'[b] = waiters[b]
        <3>1. Free \in Threads \cup {Free}
            OBVIOUS
        <3> QED BY <1>2, <1>5, <2>1, <2>3, <3>1, SetsMoves, Zenon
    <2>5. TypeOK'
        BY <1>2, <2>2, <2>4, SMTT(30) DEF TypeOK, Push
    <2>6. OnList(t, a)
        BY <1>4, <2>2, <2>4 DEF OnList, Passes, Push
    <2>7. Local(t)
        BY <2>6, OnListLocal
    <2>8. ~Holds(t)' /\ ~HoldsList(t, a)' /\ Op(t)' = Op(t) /\ ~At(t, "push")'
        BY <1>3, <2>2, Distinct DEF Holds, HoldsList, At, Op
    <2>9. Place(t)'
        BY <1>1, <1>2, <1>3, <2>2, <2>4 DEF IInv, Place, KindAt, Length, Interpreted, Push, Blocked, Steps
    <2>10. /\ \A i \in 1..Len(l) : thread[l[i]].pc \in Blocked /\ Op(l[i]).addr = a /\ l[i] \notin ready
           /\ \A i, j \in 1..Len(l) : l[i] = l[j] => i = j
        BY <1>L DEF IInv, QueueInv, Listed
    <2>11. t \notin ready /\ \A i \in 1..Len(l) : l[i] # t
        BY <1>1, <2>10 DEF IInv, QueueInv, Blocked
    <2>12. QueueInv'
        <3>1. ASSUME NEW i \in 1..Len(m)
              PROVE  thread'[m[i]].pc \in Blocked /\ Op(m[i])'.addr = a /\ m[i] \notin ready'
            <4>1. CASE i = Len(l) + 1
                BY <1>3, <1>4, <2>2, <2>3, <2>8, <2>11, <4>1 DEF Blocked
            <4>2. CASE i \in 1..Len(l)
                BY <1>4, <2>2, <2>3, <2>10, <2>11, <4>2 DEF Op
            <4> QED BY <2>3, <4>1, <4>2
        <3>2. ASSUME NEW i \in 1..Len(m), NEW j \in 1..Len(m), m[i] = m[j] PROVE i = j
            BY <2>3, <2>10, <2>11, <3>2
        <3>3. \A u \in ready' : thread'[u].pc \in Blocked /\ (u \in ready \/ Op(u).addr = a)
            BY <1>4, <2>2, <2>11, Zenon DEF IInv, QueueInv, TypeOK
        <3> QED BY <1>3, <2>3, <2>4, <2>7, <3>1, <3>2, <3>3, QueueChanges
    <2>13. IInv' /\ SameLengths
        BY <1>2, <1>3, <1>4, <2>2, <2>4, <2>5, <2>6, <2>8, <2>9, <2>12, OnListKeeps, Distinct
    <2>14. Queue(a)' = m
        BY <2>4, <2>13, QueueFreeAfter
    <2>15. Queues' = [Queues EXCEPT ![a] = Queue(a)']
        BY <1>3, <2>4, <2>7, <2>8, QueuesMove, Zenon
    <2>16. Queues' = Queues
        BY <1>5, <1>7, <2>M, <2>14, <2>15, Zenon DEF Queues
    <2>17. Linearised(t)' = [status |-> "waiting", op |-> Op(t)]
        BY <1>4, <2>2, <2>11 DEF Linearised
    <2>18. Calls[t] = Linearised(t) /\ Calls' = [Calls EXCEPT ![t] = Linearised(t)']
        BY <1>4, <2>5, <2>7, CallsMove
    <2>19. Calls' = Calls
        BY <1>5, <1>7, <2>17, <2>18, Zenon DEF Calls
    <2> QED BY <2>13, <2>16, <2>19, Stutters DEF Simulated, Push
<1> QED BY <1>6, <1>7

LEMMA IsWoken ==
    ASSUME NEW t \in Threads, NEW op, Calls[t] = [status |-> "woken", op |-> op],
           Calls' = [Calls EXCEPT ![t] = [status |-> "done", res |-> 0]],
           mem' = mem, SameLengths, Queues' = Queues
    PROVE  Simulated
<1>1. Calls[t].status = "woken"
    OBVIOUS
<1>2. Calls' = [Calls EXCEPT ![t] = Memory!Done(0)]
    BY DEF Memory!Done
<1>3. UNCHANGED <<mem, pages, Lengths, Queues>>
    BY DEF SameLengths
<1>4. Memory!Woken(t)
    BY <1>1, <1>2, <1>3 DEF Memory!Woken, Calls, Queues, Queue, Lengths
<1> QED BY <1>4 DEF Simulated, Memory!Next

LEMMA ReadyStep ==
    ASSUME IInv, NEW t \in Threads, Ready(t)
    PROVE  IInv' /\ Simulated
<1>1. thread[t].pc = "blocked" /\ thread[t].pc \in Parked /\ thread[t].pc \in Blocked
    BY DEF Ready, At, Parked, Blocked
<1>2. /\ thread[t].pc \in Steps \ {"start", "grown"} /\ TypeOK /\ thread[t].op = Op(t)
      /\ Op(t).addr \in Cells
    BY <1>1, ParkedInBounds
<1>3. PICK a \in Cells : a = Op(t).addr
    BY <1>2
<1>4. PICK l \in Seq(Threads) : l = waiters[a].list
    BY <1>2 DEF TypeOK
<1>5. /\ Finish(t, 0) /\ 0 \in Int /\ t \in ready /\ ready' = ready \ {t}
      /\ UNCHANGED <<engine, owner, mem, pages, view, mux, waiters>>
    BY DEF Ready
<1>6. /\ thread' \in [Threads -> ThreadStates]
      /\ thread'[t] = Done(0) /\ thread'[t].pc = "done" /\ thread'[t].res = 0
      /\ \A u \in Threads \ {t} : thread'[u] = thread[u]
    BY <1>2, <1>5, FinishMoves
<1>7. TypeOK'
    BY <1>2, <1>5, <1>6 DEF TypeOK
<1>8. OnList(t, a)
    BY <1>5, <1>6 DEF OnList, Passes
<1>9. Local(t)
    BY <1>8, OnListLocal
<1>10. ~Holds(t) /\ ~HoldsList(t, a) /\ ~Holds(t)' /\ ~HoldsList(t, a)' /\ ~At(t, "push") /\ ~At(t, "push")'
    BY <1>1, <1>6 DEF Holds, HoldsList, At
<1>11. Place(t)'
    BY <1>6 DEF Place, Steps
<1>12. QueueInv'
    <2>1. /\ \A i \in 1..Len(l) : thread[l[i]].pc \in Blocked /\ Op(l[i]).addr = a /\ l[i] \notin ready
          /\ \A i, j \in 1..Len(l) : l[i] = l[j] => i = j
        BY <1>4 DEF IInv, QueueInv, Listed
    <2>2. \A i \in 1..Len(l) : l[i] \in Threads \ {t}
        BY <1>5, <2>1
    <2>3. \A i \in 1..Len(l) : thread'[l[i]].pc \in Blocked /\ Op(l[i])'.addr = a /\ l[i] \notin ready'
        BY <1>5, <1>6, <2>1, <2>2 DEF Op
    <2>4. \A u \in ready' : thread'[u].pc \in Blocked /\ (u \in ready \/ Op(u).addr = a)
        BY <1>5, <1>6 DEF IInv, QueueInv, TypeOK
    <2>5. waiters'[a].list = l /\ \A b \in Cells \ {a} : waiters'[b].list = waiters[b].list
        BY <1>4, <1>5
    <2>6. \A i, j \in 1..Len(l) : l[i] = l[j] => i = j
        BY <2>1
    <2> QED BY <1>3, <1>9, <2>3, <2>4, <2>5, <2>6, QueueChanges, SMTT(20)
<1>13. IInv' /\ SameLengths
    BY <1>2, <1>3, <1>5, <1>6, <1>7, <1>8, <1>10, <1>11, <1>12, OnListKeeps, Zenon DEF IInv, MutexInv
<1>14. Linearised(t) = [status |-> "woken", op |-> Op(t)]
    BY <1>1, <1>2, <1>5 DEF Linearised
<1>15. Linearised(t)' = [status |-> "done", res |-> 0]
    BY <1>6 DEF Linearised
<1>16. Calls[t] = Linearised(t) /\ Calls' = [Calls EXCEPT ![t] = [status |-> "done", res |-> 0]]
    BY <1>5, <1>7, <1>9, <1>15, CallsMove
<1>17. Queues' = Queues
    BY <1>5, <1>9, <1>10, QueuesStay
<1> QED BY <1>5, <1>13, <1>14, <1>16, <1>17, IsWoken, Zenon

LEMMA TimeoutStep ==
    ASSUME IInv, NEW t \in Threads, Timeout(t)
    PROVE  IInv' /\ Simulated
<1>1. thread[t].pc = "blocked" /\ thread[t].pc \in Parked /\ thread[t].pc \in Blocked
    BY DEF Timeout, At, Parked, Blocked
<1>2. /\ thread[t].pc \in Steps \ {"start", "grown"} /\ TypeOK /\ thread[t].op = Op(t)
    BY <1>1, ParkedInBounds
<1>3. /\ Goto(t, "elock") /\ Op(t).timed /\ "elock" \in Steps
      /\ UNCHANGED <<engine, owner, mem, pages, view, mux, waiters, ready>>
    BY DEF Timeout, Steps
<1>4. /\ thread' \in [Threads -> ThreadStates]
      /\ thread'[t].pc = "elock" /\ thread'[t].op = thread[t].op
      /\ \A u \in Threads \ {t} : thread'[u] = thread[u]
    BY <1>2, <1>3, GotoMoves
<1>5. Only(t)
    BY <1>3, <1>4 DEF Only, Passes
<1>6. ~Holds(t) /\ ~Holds(t)' /\ (\A a \in Cells : ~HoldsList(t, a) /\ ~HoldsList(t, a)')
        /\ ~At(t, "push") /\ ~At(t, "push")'
    BY <1>1, <1>4 DEF Holds, HoldsList, At
<1>7. Place(t)'
    <2>1. /\ thread[t].op.kind = "wait" /\ thread[t].op.aligned /\ waiters[thread[t].op.addr].entry
          /\ thread[t].op.addr < Length(t) \/ (Interpreted /\ thread[t].op.kind \in Accesses)
        BY <1>1, <1>2, Zenon DEF IInv, Place, KindAt, Blocked
    <2>2. Length(t)' = Length(t) /\ Interpreted' = Interpreted /\ waiters' = waiters
        BY <1>3 DEF Length, Interpreted
    <2>3. KindAt("elock", "wait")
        BY DEF KindAt, Blocked
    <2> QED BY <1>2, <1>3, <1>4, <2>1, <2>2, <2>3 DEF Place
<1>8. IInv' /\ Local(t) /\ TypeOK' /\ SameLengths
    BY <1>1, <1>2, <1>3, <1>4, <1>5, <1>6, <1>7, OnlyKeeps, Zenon DEF IInv, MutexInv, TypeOK, Blocked
<1>9. Linearised(t)' = Linearised(t)
    BY <1>1, <1>3, <1>4 DEF Linearised
<1>10. UNCHANGED Memory!vars
    BY <1>3, <1>6, <1>8, <1>9, Silent
<1> QED BY <1>8, <1>10 DEF Simulated

\* What is left of a list without duplicates when a thread is taken off it.
LEMMA Removed ==
    ASSUME NEW l \in Seq(Threads), NEW t \in Threads, \A i, j \in 1..Len(l) : l[i] = l[j] => i = j
    PROVE  /\ Without(l, t) \in Seq(Threads)
           /\ \A i \in 1..Len(Without(l, t)) :
                  Without(l, t)[i] # t /\ \E j \in 1..Len(l) : Without(l, t)[i] = l[j]
           /\ \A i, j \in 1..Len(Without(l, t)) :
                  Without(l, t)[i] = Without(l, t)[j] => i = j
           /\ Memory!Without(l, t) = Without(l, t)
<1> DEFINE m == Without(l, t)
<1>0. Memory!Without(l, t) = Without(l, t)
    BY DEF Memory!Without, Without
<1>1. CASE \A i \in 1..Len(l) : l[i] # t
    <2>1. m = l
        BY <1>1 DEF Without
    <2> QED BY <1>0, <1>1, <2>1
<1>2. CASE \E i \in 1..Len(l) : l[i] = t
    <2>1. PICK k \in 1..Len(l) : l[k] = t
        BY <1>2
    <2>2. (CHOOSE i \in 1..Len(l) : l[i] = t) = k
        BY <2>1
    <2>4. m = SubSeq(l, 1, k - 1) \o SubSeq(l, k + 1, Len(l))
        BY <1>2, <2>2, Zenon DEF Without
    <2> DEFINE p == SubSeq(l, 1, k - 1)
               q == SubSeq(l, k + 1, Len(l))
    <2>5. /\ p \in Seq(Threads) /\ Len(p) = k - 1 /\ \A i \in 1..(k - 1) : p[i] = l[i]
          /\ q \in Seq(Threads) /\ Len(q) = Len(l) - k /\ \A i \in 1..(Len(l) - k) : q[i] = l[k + i]
        OBVIOUS
    <2>6. m = p \o q
        BY <2>4
    <2> HIDE DEF p, q, m
    <2>7. /\ m \in Seq(Threads) /\ Len(m) = Len(l) - 1
          /\ \A i \in 1..(Len(l) - 1) : m[i] = IF i < k THEN p[i] ELSE q[i - (k - 1)]
        <3>1. p \in Seq(Threads) /\ q \in Seq(Threads) /\ Len(p) = k - 1 /\ Len(q) = Len(l) - k
            BY <2>5
        <3>2. /\ m \in Seq(Threads) /\ Len(m) = Len(p) + Len(q)
              /\ \A i \in 1..(Len(p) + Len(q)) : m[i] = IF i <= Len(p) THEN p[i] ELSE q[i - Len(p)]
            BY <2>6, <3>1, Concatenated, SMTT(30)
        <3>3. Len(l) \in Nat /\ k \in Nat /\ Len(p) + Len(q) = Len(l) - 1
            BY <3>1
        <3>4. ASSUME NEW i \in 1..(Len(l) - 1)
              PROVE  m[i] = IF i < k THEN p[i] ELSE q[i - (k - 1)]
            <4>1. i \in 1..(Len(p) + Len(q)) /\ (i <= Len(p) <=> i < k)
                BY <3>1, <3>3
            <4> QED BY <3>1, <3>2, <4>1, SMTT(30)
        <3> QED BY <3>2, <3>3, <3>4
    <2>8. \A i \in 1..(Len(l) - 1) :
              /\ i < k => i \in 1..(k - 1)
              /\ i >= k => i - (k - 1) \in 1..(Len(l) - k) /\ k + (i - (k - 1)) = i + 1
        OBVIOUS
    <2>9. \A i \in 1..(Len(l) - 1) : i < k => m[i] = l[i]
        <3> TAKE i \in 1..(Len(l) - 1)
        <3> HAVE i < k
        <3>1. i \in 1..(k - 1) /\ m[i] = p[i]
            BY <2>7, <2>8
        <3> QED BY <2>5, <3>1
    <2>10. \A i \in 1..(Len(l) - 1) : i >= k => m[i] = l[i + 1]
        BY <2>5, <2>7, <2>8
    <2>11. ASSUME NEW i \in 1..Len(m) PROVE m[i] # t /\ \E j \in 1..Len(l) : m[i] = l[j]
        <3>1. i \in 1..(Len(l) - 1) /\ Len(l) \in Nat
            BY <2>7
        <3>2. CASE i < k
            <4>1. m[i] = l[i] /\ i \in 1..Len(l) /\ i # k
                BY <2>9, <3>1, <3>2
            <4> QED BY <2>1, <4>1
        <3>3. CASE i >= k
            <4>1. m[i] = l[i + 1] /\ i + 1 \in 1..Len(l) /\ i + 1 # k
                BY <2>10, <3>1, <3>3
            <4> QED BY <2>1, <4>1
        <3> QED BY <3>1, <3>2, <3>3
    <2>12. ASSUME NEW i \in 1..Len(m), NEW j \in 1..Len(m), m[i] = m[j] PROVE i = j
        BY <2>7, <2>9, <2>10, <2>12, SMTT(30)
    <2> QED BY <1>0, <2>7, <2>11, <2>12 DEF m
<1> QED BY <1>1, <1>2

LEMMA IsExpire ==
    ASSUME NEW t \in Threads, NEW op, NEW s \in {"waiting", "woken"},
           Calls[t] = [status |-> s, op |-> op], op.timed, op.addr \in Cells,
           Calls' = [Calls EXCEPT ![t] = [status |-> "done", res |-> 2]],
           Queues' = [Queues EXCEPT ![op.addr] = Memory!Without(Queues[op.addr], t)],
           mem' = mem, SameLengths
    PROVE  Simulated
<1>1. Calls[t].status \in {"waiting", "woken"} /\ Calls[t].op = op
    OBVIOUS
<1>2. Calls' = [Calls EXCEPT ![t] = Memory!Done(2)]
    BY DEF Memory!Done
<1>3. Queues' = [Queues EXCEPT ![Calls[t].op.addr] = Memory!Without(@, t)]
    BY <1>1
<1>4. UNCHANGED <<mem, pages, Lengths>> /\ Calls[t].op.timed
    BY <1>1 DEF SameLengths
<1>5. Memory!Expire(t)
    BY <1>1, <1>2, <1>3, <1>4, Zenon DEF Memory!Expire, Calls, Queues, Queue, Lengths
<1> QED BY <1>5 DEF Simulated, Memory!Next

LEMMA GiveUpStep ==
    ASSUME IInv, NEW t \in Threads, GiveUp(t)
    PROVE  IInv' /\ Simulated
<1>1. thread[t].pc = "remove" /\ thread[t].pc \in Parked /\ thread[t].pc \in Blocked
    BY DEF GiveUp, At, Parked, Blocked
<1>2. /\ thread[t].pc \in Steps \ {"start", "grown"} /\ TypeOK /\ thread[t].op = Op(t)
      /\ Op(t).addr \in Cells
    BY <1>1, ParkedInBounds
<1>3. PICK a \in Cells : a = Op(t).addr
    BY <1>2
<1>4. PICK l \in Seq(Threads) : l = waiters[a].list
    BY <1>2 DEF TypeOK
<1>5. /\ \A i \in 1..Len(l) : thread[l[i]].pc \in Blocked /\ Op(l[i]).addr = a /\ l[i] \notin ready
      /\ \A i, j \in 1..Len(l) : l[i] = l[j] => i = j
    BY <1>4 DEF IInv, QueueInv, Listed
<1>6. PICK m \in Seq(Threads) : m = Without(l, t)
    BY <1>5, Removed
<1>7. /\ \A i \in 1..Len(m) : m[i] # t /\ \E j \in 1..Len(l) : m[i] = l[j]
      /\ \A i, j \in 1..Len(m) : m[i] = m[j] => i = j
    BY <1>5, <1>6, Removed, SMTT(30)
<1>8. HoldsList(t, a) /\ ~Holds(t) /\ Op(t).timed
    BY <1>1, <1>2, <1>3 DEF HoldsList, Holds, At, IInv, Place
<1>9. Queues[a] = l
    BY <1>1, <1>4, <1>8, QueueOf DEF Queues, At
<1>10. Releases(t, a, 2, m) /\ ready' = ready \ {t} /\ ready' \subseteq Threads /\ 2 \in Int
    <2>1. SetsList(a, Free, m)
        BY <1>2, <1>3, <1>4, <1>6 DEF GiveUp, SetsList, TypeOK
    <2>2. Sets(a, waiters[a].entry, Free, m)
        BY <1>2, <2>1, IsSets
    <2> QED BY <1>1, <1>2, <1>3, <1>8, <2>2 DEF Releases, GiveUp, TypeOK
<1>11. /\ TypeOK' /\ Local(t) /\ thread'[t].pc = "done" /\ waiters'[a].mux = Free
       /\ Linearised(t)' = [status |-> "done", res |-> 2]
       /\ waiters'[a].list = m /\ \A b \in Cells \ {a} : waiters'[b].list = waiters[b].list
    BY <1>10, ReleasesMoves
<1>12. \A u \in Threads \ {t} : thread'[u] = thread[u]
    BY <1>11 DEF Local
<1>13. QueueInv'
    <2>1. ASSUME NEW i \in 1..Len(m)
          PROVE  thread'[m[i]].pc \in Blocked /\ Op(m[i])'.addr = a /\ m[i] \notin ready'
        <3>1. PICK j \in 1..Len(l) : m[i] = l[j]
            BY <1>7
        <3>2. m[i] \in Threads \ {t}
            BY <1>7, <3>1
        <3> QED BY <1>5, <1>10, <1>12, <3>1, <3>2 DEF Op
    <2>2. \A u \in ready' : thread'[u].pc \in Blocked /\ (u \in ready \/ Op(u).addr = a)
        BY <1>2, <1>10, <1>12 DEF IInv, QueueInv, TypeOK
    <2> QED BY <1>3, <1>7, <1>11, <2>1, <2>2, QueueChanges, ZenonT(30)
<1>14. IInv' /\ SameLengths
    BY <1>10, <1>13, ReleasesKeeps
<1>15. PICK s \in {"waiting", "woken"} : Linearised(t) = [status |-> s, op |-> Op(t)]
    BY <1>1, <1>2 DEF Linearised
<1>16. Calls[t] = Linearised(t) /\ Calls' = [Calls EXCEPT ![t] = [status |-> "done", res |-> 2]]
    BY <1>10, <1>11, CallsMove
<1>17. Queue(a)' = m
    BY <1>11, <1>14, QueueFreeAfter
<1>18. Queues' = [Queues EXCEPT ![a] = Queue(a)']
    BY <1>1, <1>3, <1>11, QueuesMove DEF At
<1>19. Queues' = [Queues EXCEPT ![Op(t).addr] = Memory!Without(Queues[Op(t).addr], t)]
    <2>1. m = Memory!Without(l, t)
        BY <1>5, <1>6, Removed, SMTT(30)
    <2> QED BY <1>3, <1>9, <1>17, <1>18, <2>1
<1>20. mem' = mem
    BY DEF GiveUp
<1> QED BY <1>2, <1>8, <1>14, <1>15, <1>16, <1>19, <1>20, IsExpire, Zenon

Least(x, y) == IF x < y THEN x ELSE y

\* The first n of a queue leave it and are woken by t.
Dequeues(a, q, n) == Queues' = [Queues EXCEPT ![a] = SubSeq(q, n + 1, Len(q))]
Wakes(t, q, n) ==
    Calls' = [u \in Threads |->
        IF u = t THEN [status |-> "done", res |-> n]
        ELSE IF \E i \in 1..n : u = q[i] THEN [Calls[u] EXCEPT !.status = "woken"]
        ELSE Calls[u]]

LEMMA IsNotify ==
    ASSUME NEW t \in Threads, NEW op, Calls[t] = [status |-> "called", op |-> op], op.kind = "notify",
           Memory!Traps(t, op) = {}, op.arg \in Nat, NEW q \in Seq(Threads), q = Queues[op.addr],
           NEW n, n = Least(op.arg, Len(q)),
           Dequeues(op.addr, q, n), Wakes(t, q, n), mem' = mem, SameLengths
    PROVE  Simulated
<1>1. Memory!Called(t, {"notify"})
    BY DEF Memory!Called, Calls
<1>2. /\ Calls[t].op = op /\ n = IF op.arg < Len(q) THEN op.arg ELSE Len(q)
      /\ n \in Nat /\ n <= Len(q)
    BY DEF Least
<1> DEFINE o == Calls[t].op
           p == Queues[o.addr]
           k == IF o.arg < Len(p) THEN o.arg ELSE Len(p)
<1>4. o = op /\ p = q /\ k = n
    BY <1>2
<1>5. Queues' = [Queues EXCEPT ![o.addr] = SubSeq(p, k + 1, Len(p))]
    BY <1>4, Zenon DEF Dequeues
<1>6. Calls' = [u \in Threads |->
          IF u = t THEN Memory!Done(k)
          ELSE IF \E i \in 1..k : u = p[i] THEN [Calls[u] EXCEPT !.status = "woken"]
          ELSE Calls[u]]
    <2> DEFINE F(u) == IF u = t THEN [status |-> "done", res |-> n]
                       ELSE IF \E i \in 1..n : u = q[i] THEN [Calls[u] EXCEPT !.status = "woken"]
                       ELSE Calls[u]
               G(u) == IF u = t THEN Memory!Done(k)
                       ELSE IF \E i \in 1..k : u = p[i] THEN [Calls[u] EXCEPT !.status = "woken"]
                       ELSE Calls[u]
    <2> HIDE DEF o, p, k
    <2>1. ASSUME NEW u \in Threads
          PROVE  F(u) = G(u)
        <3>1. (\E i \in 1..n : u = q[i]) <=> (\E i \in 1..k : u = p[i])
            BY <1>4
        <3> QED BY <3>1, <1>4 DEF Memory!Done
    <2>2. Calls' = [u \in Threads |-> F(u)]
        BY DEF Wakes
    <2> HIDE DEF F, G
    <2>3. Calls' = [u \in Threads |-> G(u)]
        BY <2>1, <2>2
    <2> QED BY <2>3 DEF G
<1>7. /\ Memory!Traps(t, o) = {}
      /\ Queues' = [Queues EXCEPT ![o.addr] = SubSeq(p, k + 1, Len(p))]
      /\ Calls' = [u \in Threads |->
             IF u = t THEN Memory!Done(k)
             ELSE IF \E i \in 1..k : u = p[i] THEN [Calls[u] EXCEPT !.status = "woken"]
             ELSE Calls[u]]
    BY <1>4, <1>5, <1>6
<1>8. UNCHANGED <<mem, pages, Lengths>>
    BY DEF SameLengths
<1>9. Memory!Notify(t)
    BY <1>1, <1>7, <1>8, Zenon DEF Memory!Notify, Calls, Queues, Queue, Lengths
<1> QED BY <1>9 DEF Simulated, Memory!Next

LEMMA FindWaitersStep ==
    ASSUME IInv, NEW t \in Threads, FindWaiters(t)
    PROVE  IInv' /\ Simulated
<1>1. thread[t].pc = "find" /\ thread[t].pc \in Parked /\ thread[t].pc \in Pending
    BY DEF FindWaiters, At, Parked, Pending
<1>2. /\ thread[t].pc \in Steps \ {"start", "grown"} /\ TypeOK /\ thread[t].op = Op(t)
      /\ Op(t) \in Operation /\ Op(t).addr \in Cells /\ Memory!Traps(t, Op(t)) = {}
      /\ Op(t).kind = "notify"
    BY <1>1, ParkedInBounds
<1>3. UNCHANGED <<engine, owner, mem, pages, view, mux, waiters, ready>>
    BY DEF FindWaiters
<1>4. ~Holds(t) /\ mux # t /\ \A a \in Cells : ~HoldsList(t, a)
    BY <1>1 DEF Holds, HoldsList, At, IInv, MutexInv
<1>5. CASE waiters[Op(t).addr].entry
    <2>1. Goto(t, "wlock") /\ "wlock" \in Steps /\ "wlock" \in Pending
        BY <1>5 DEF FindWaiters, Steps, Pending
    <2>2. /\ thread' \in [Threads -> ThreadStates]
          /\ thread'[t].pc = "wlock" /\ thread'[t].op = Op(t)
          /\ \A u \in Threads \ {t} : thread'[u] = thread[u]
        BY <1>2, <2>1, GotoMoves
    <2>3. ~Holds(t)' /\ \A a \in Cells : ~HoldsList(t, a)'
        BY <2>2 DEF Holds, HoldsList, At
    <2>4. Place(t)'
        BY <1>1, <1>2, <1>3, <1>5, <2>2, ZenonT(30) DEF IInv, Place, KindAt, Length, Interpreted, Blocked, Steps
    <2>5. mux' \in Threads \cup {Free} /\ mux' # t /\ Passes(t, mux, mux')
        BY <1>2, <1>3, <1>4, Zenon DEF TypeOK, Passes
    <2> QED BY <1>1, <1>3, <1>4, <2>1, <2>2, <2>3, <2>4, <2>5, GoesOn, Zenon
<1>6. CASE ~waiters[Op(t).addr].entry
    <2> DEFINE a == Op(t).addr
               q == << >>
    <2>1. Finish(t, 0) /\ 0 \in Int
        BY <1>6 DEF FindWaiters
    <2>2. /\ IInv' /\ SameLengths /\ Queues' = Queues
          /\ Calls[t] = [status |-> "called", op |-> Op(t)]
          /\ Calls' = [Calls EXCEPT ![t] = [status |-> "done", res |-> 0]]
        BY <1>1, <1>3, <1>4, <2>1, Finishes
    <2>3. Queues[a] = q
        <3>1. ASSUME NEW u \in Threads, thread[u].pc \in Blocked \cup {"push"}, Op(u).addr = a
              PROVE  FALSE
            <4>1. thread[u].pc \in Steps /\ thread[u].op = Op(u)
                BY <3>1 DEF Blocked, Steps, Op
            <4>2. waiters[a].entry
                BY <3>1, <4>1 DEF IInv, Place, Blocked
            <4> QED BY <1>6, <4>2
        <3>2. Pushing(a) = {}
            BY <3>1 DEF Pushing, At
        <3>3. waiters[a].list \in Seq(Threads) /\ Listed(a)
            BY <1>2 DEF IInv, QueueInv, TypeOK
        <3>4. waiters[a].list = << >>
            <4>1. ASSUME NEW i \in 1..Len(waiters[a].list) PROVE FALSE
                <5>1. waiters[a].list[i] \in Threads
                    BY <3>3
                <5> QED BY <3>1, <3>3, <5>1 DEF Listed
            <4>2. Len(waiters[a].list) = 0
                BY <3>3, <4>1
            <4> QED BY <3>3, <4>2
        <3>5. Queue(a) = << >>
            BY <3>2, <3>4 DEF Queue
        <3> QED BY <1>2, <3>5 DEF Queues
    <2>4. q \in Seq(Threads) /\ Len(q) = 0 /\ Op(t).arg \in Nat
        BY <1>2 DEF Operation
    <2>5. Least(Op(t).arg, Len(q)) = 0
        BY <2>4 DEF Least
    <2>6. SubSeq(q, 0 + 1, Len(q)) = q /\ \A i \in 1..0 : FALSE
        OBVIOUS
    <2>7. Dequeues(a, q, 0)
        BY <2>2, <2>3, <2>6, Zenon DEF Queues, Dequeues
    <2>8. Wakes(t, q, 0)
        BY <2>2, <2>6, Zenon DEF Calls, Wakes
    <2> HIDE DEF q
    <2> QED BY <1>2, <1>3, <2>2, <2>3, <2>4, <2>5, <2>7, <2>8, IsNotify, Zenon
<1> QED BY <1>5, <1>6

\* A list without duplicates, cut in two.
Cuts(l, n, m, w) ==
    /\ \A i, j \in 1..Len(l) : l[i] = l[j] => i = j
    /\ n <= Len(l)
    /\ m = SubSeq(l, n + 1, Len(l))
    /\ w = {l[i] : i \in 1..n}

LEMMA Cut ==
    ASSUME NEW l \in Seq(Threads), NEW n \in Nat, NEW m \in Seq(Threads), NEW w \in SUBSET Threads,
           Cuts(l, n, m, w)
    PROVE  /\ \A i \in 1..Len(m) : (\E j \in 1..Len(l) : m[i] = l[j]) /\ m[i] \notin w
           /\ \A i, j \in 1..Len(m) : m[i] = m[j] => i = j
           /\ \A u \in w : \E j \in 1..Len(l) : u = l[j]
<1> USE DEF Cuts
<1>1. m \in Seq(Threads) /\ Len(m) = Len(l) - n /\ \A i \in 1..(Len(l) - n) : m[i] = l[n + i]
    OBVIOUS
<1>2. \A i \in 1..(Len(l) - n) : n + i \in 1..Len(l) /\ n + i > n
    OBVIOUS
<1>3. \A i \in 1..n : i \in 1..Len(l)
    OBVIOUS
<1>4. ASSUME NEW u \in w PROVE \E j \in 1..n : u = l[j]
    OBVIOUS
<1>5. ASSUME NEW i \in 1..Len(m) PROVE (\E j \in 1..Len(l) : m[i] = l[j]) /\ m[i] \notin w
    <2>1. m[i] = l[n + i] /\ n + i \in 1..Len(l) /\ n + i > n
        BY <1>1, <1>2
    <2>2. ASSUME m[i] \in w PROVE FALSE
        <3>1. PICK j \in 1..n : m[i] = l[j]
            BY <1>4, <2>2
        <3>2. n + i = j
            BY <1>3, <2>1, <3>1
        <3> QED BY <2>1, <3>2
    <2> QED BY <2>1, <2>2
<1>6. ASSUME NEW i \in 1..Len(m), NEW j \in 1..Len(m), m[i] = m[j] PROVE i = j
    <2>1. n + i \in 1..Len(l) /\ n + j \in 1..Len(l) /\ l[n + i] = l[n + j]
        BY <1>1, <1>2, <1>6
    <2>2. n + i = n + j
        BY <2>1
    <2> QED BY <1>1, <2>2
<1>7. \A u \in w : \E j \in 1..Len(l) : u = l[j]
    BY <1>3, <1>4
<1> QED BY <1>1, <1>5, <1>6, <1>7, SMTT(30)

LEMMA NotifyStep ==
    ASSUME IInv, NEW t \in Threads, Notify(t)
    PROVE  IInv' /\ Simulated
<1>1. thread[t].pc = "wake" /\ thread[t].pc \in Parked /\ thread[t].pc \in Pending
    BY DEF Notify, At, Parked, Pending
<1>2. /\ thread[t].pc \in Steps \ {"start", "grown"} /\ TypeOK /\ thread[t].op = Op(t)
      /\ Op(t) \in Operation /\ Op(t).addr \in Cells /\ Memory!Traps(t, Op(t)) = {}
      /\ Op(t).kind = "notify"
    BY <1>1, ParkedInBounds
<1>3. PICK a \in Cells : a = Op(t).addr
    BY <1>2
<1>4. PICK l \in Seq(Threads) : l = waiters[a].list
    BY <1>2 DEF TypeOK
<1>5. /\ \A i \in 1..Len(l) : thread[l[i]].pc \in Blocked /\ Op(l[i]).addr = a /\ l[i] \notin ready
      /\ \A i, j \in 1..Len(l) : l[i] = l[j] => i = j
    BY <1>4 DEF IInv, QueueInv, Listed
<1>6. PICK n \in Nat : n = Least(Op(t).arg, Len(l)) /\ n <= Len(l)
    <2>1. Op(t).arg \in Nat /\ Len(l) \in Nat
        BY <1>2 DEF Operation
    <2> QED BY <2>1 DEF Least
<1>7. PICK m \in Seq(Threads) : m = SubSeq(l, n + 1, Len(l))
    <2>1. SubSeq(l, n + 1, Len(l)) \in Seq(Threads)
        BY <1>6
    <2> QED BY <2>1, Zenon
<1>8. PICK w \in SUBSET Threads : w = {l[i] : i \in 1..n}
    <2>1. \A i \in 1..n : l[i] \in Threads
        BY <1>6
    <2> QED BY <2>1, Zenon
<1>9. /\ \A i \in 1..Len(m) : (\E j \in 1..Len(l) : m[i] = l[j]) /\ m[i] \notin w
      /\ \A i, j \in 1..Len(m) : m[i] = m[j] => i = j
      /\ \A u \in w : \E j \in 1..Len(l) : u = l[j]
    <2>1. Cuts(l, n, m, w)
        BY <1>5, <1>6, <1>7, <1>8 DEF Cuts
    <2> QED BY <2>1, Cut
<1>10. HoldsList(t, a) /\ ~Holds(t)
    BY <1>1, <1>3 DEF HoldsList, Holds, At
<1>11. Queues[a] = l
    BY <1>1, <1>4, <1>10, QueueOf DEF Queues, At
<1>12. \A u \in w : u \in Threads \ {t} /\ thread[u].pc \in Blocked /\ Op(u).addr = a /\ u \notin ready
    <2> TAKE u \in w
    <2>1. PICK j \in 1..Len(l) : u = l[j]
        BY <1>9
    <2>2. u \in Threads /\ thread[u].pc \in Blocked /\ Op(u).addr = a /\ u \notin ready
        BY <1>5, <2>1
    <2> QED BY <1>1, <2>2 DEF Blocked
<1>13. Releases(t, a, n, m) /\ ready' = ready \cup w /\ ready' \subseteq Threads /\ n \in Int
    <2>1. SetsList(a, Free, m) /\ Finish(t, n) /\ ready' = ready \cup w
        BY <1>3, <1>4, <1>6, <1>7, <1>8, Zenon DEF Notify, SetsList, Least
    <2>2. Sets(a, waiters[a].entry, Free, m)
        BY <1>2, <2>1, IsSets, Zenon
    <2>3. UNCHANGED <<engine, owner, mem, pages, view>> /\ mux' = mux
        BY DEF Notify
    <2>4. ready' \subseteq Threads
        BY <1>2, <1>12, <2>1 DEF TypeOK
    <2>5. Releases(t, a, n, m)
        BY <1>1, <1>3, <1>10, <2>1, <2>2, <2>3, Zenon DEF Releases
    <2> QED BY <2>1, <2>4, <2>5
<1>14. /\ TypeOK' /\ Local(t) /\ thread'[t].pc = "done" /\ waiters'[a].mux = Free
       /\ Linearised(t)' = [status |-> "done", res |-> n]
       /\ waiters'[a].list = m /\ \A b \in Cells \ {a} : waiters'[b].list = waiters[b].list
    BY <1>13, ReleasesMoves, ZenonT(30)
<1>15. \A u \in Threads \ {t} : thread'[u] = thread[u]
    BY <1>14 DEF Local
<1>16. QueueInv'
    <2>1. ASSUME NEW i \in 1..Len(m)
          PROVE  thread'[m[i]].pc \in Blocked /\ Op(m[i])'.addr = a /\ m[i] \notin ready'
        <3>1. PICK j \in 1..Len(l) : m[i] = l[j]
            BY <1>9
        <3>2. m[i] \in Threads /\ thread[m[i]].pc \in Blocked /\ Op(m[i]).addr = a /\ m[i] \notin ready
            BY <1>5, <3>1
        <3>3. m[i] # t
            BY <1>1, <3>2 DEF Blocked
        <3> QED BY <1>9, <1>13, <1>15, <3>2, <3>3 DEF Op
    <2>2. ASSUME NEW u \in ready' PROVE thread'[u].pc \in Blocked /\ (u \in ready \/ Op(u).addr = a)
        <3>1. CASE u \in w
            BY <1>12, <1>15, <3>1
        <3>2. CASE u \in ready
            <4>1. u \in Threads /\ thread[u].pc \in Blocked
                BY <1>2, <3>2 DEF IInv, QueueInv, TypeOK
            <4>2. u # t
                BY <1>1, <4>1 DEF Blocked
            <4> QED BY <1>15, <3>2, <4>1, <4>2
        <3> QED BY <1>13, <3>1, <3>2
    <2> QED BY <1>3, <1>9, <1>14, <2>1, <2>2, QueueChanges, ZenonT(30)
<1>17. IInv' /\ SameLengths
    BY <1>13, <1>16, ReleasesKeeps
<1>18. Queue(a)' = m
    BY <1>14, <1>17, QueueFreeAfter
<1>19. Queues' = [Queues EXCEPT ![a] = Queue(a)']
    BY <1>1, <1>3, <1>14, QueuesMove DEF At
<1>20. Dequeues(Op(t).addr, l, n)
    BY <1>3, <1>7, <1>18, <1>19 DEF Dequeues
<1>21. Calls[t] = [status |-> "called", op |-> Op(t)]
    BY <1>1, Shown DEF Calls
<1>22. Wakes(t, l, n)
    <2>1. ASSUME NEW u \in w PROVE Linearised(u)' = [Calls[u] EXCEPT !.status = "woken"] /\ u # t
        <3>1. u \in Threads \ {t} /\ thread[u].pc \in Blocked /\ u \notin ready /\ u \in ready'
            BY <1>12, <1>13
        <3>2. Linearised(u) = [status |-> "waiting", op |-> thread[u].op]
            BY <3>1 DEF Linearised, Blocked
        <3>3. Linearised(u)' = [status |-> "woken", op |-> thread[u].op]
            BY <1>15, <3>1 DEF Linearised, Blocked
        <3>4. Calls[u] = [status |-> "waiting", op |-> thread[u].op]
            BY <3>1, <3>2 DEF Calls
        <3> QED BY <3>1, <3>3, <3>4
    <2>2. ASSUME NEW u \in Threads \ {t}, u \notin w PROVE Linearised(u)' = Calls[u]
        BY <1>13, <1>14, <2>2, OthersShown, Zenon DEF Calls
    <2>3. Calls' = [u \in Threads |-> Linearised(u)']
        BY DEF Calls
    <2> QED BY <1>8, <1>14, <2>1, <2>2, <2>3 DEF Wakes
<1>23. mem' = mem /\ Op(t).arg \in Nat /\ l = Queues[Op(t).addr]
    BY <1>2, <1>3, <1>11 DEF Notify, Operation
<1> QED BY <1>2, <1>6, <1>17, <1>20, <1>21, <1>22, <1>23, IsNotify
-----------------------------------------------------------------------------
LEMMA Paired ==
    ASSUME NEW S, NEW R, NEW b \in S \X R
    PROVE  b = <<b[1], b[2]>>
OBVIOUS

LEMMA InitInv == Init => IInv /\ Memory!Init
<1> SUFFICES ASSUME Init PROVE IInv /\ Memory!Init
    OBVIOUS
<1>1. <<engine, owner>> \in Builds
    <2>1. PICK b \in Builds : engine = b[1] /\ owner = b[2]
        BY DEF Init
    <2>2. \/ b \in {"interpreter"} \X [Threads -> {FALSE}]
          \/ b \in {"amd64", "arm64"} \X [Threads -> BOOLEAN]
        BY ThreadsAssumption, Zenon
    <2>3. b = <<b[1], b[2]>>
        BY <2>2, Paired, Zenon
    <2> QED BY <2>1, <2>3
<1>2. \A t \in Threads : thread[t] = Idle /\ thread[t].pc = "idle"
    BY DEF Init, Idle
<1>3. \A a \in Cells : /\ waiters[a] = [entry |-> FALSE, mux |-> Free, list |-> << >>]
                       /\ waiters[a].mux = Free /\ waiters[a].list = << >>
    BY DEF Init
<1>4. TypeOK
    <2>1. [entry |-> FALSE, mux |-> Free, list |-> << >>]
              \in [entry : BOOLEAN, mux : Threads \cup {Free}, list : Seq(Threads)]
        OBVIOUS
    <2>2. Idle \in ThreadStates
        BY DEF ThreadStates
    <2> QED BY <1>1, <2>1, <2>2, MemoryAssumption DEF Init, TypeOK
<1>5. MutexInv
    BY <1>2, <1>3, Distinct DEF Init, MutexInv, Holds, HoldsList, At
<1>6. \A t \in Threads : Place(t)
    BY <1>2 DEF Place, Steps
<1>7. ViewInv
    BY DEF Init, ViewInv
<1>8. QueueInv
    <2>1. ASSUME NEW a \in Cells PROVE Listed(a)
        <3>1. waiters[a].list = << >> /\ Len(waiters[a].list) = 0
            BY <1>3
        <3> QED BY <3>1 DEF Listed
    <2> QED BY <2>1 DEF QueueInv, Init
<1>9. IInv
    BY <1>4, <1>5, <1>6, <1>7, <1>8 DEF IInv
<1>10. mem = [a \in Memory!Cells |-> 0] /\ pages = 1 /\ Lengths = [t \in Threads |-> 1]
    BY SameSets DEF Init, Lengths, Length
<1>11. Queues = [a \in Memory!Cells |-> << >>]
    <2>1. ASSUME NEW a \in Cells PROVE Queue(a) = << >>
        <3>1. Pushing(a) = {}
            BY <1>2 DEF Pushing, At
        <3> QED BY <1>3, <3>1 DEF Queue
    <2> QED BY <2>1, SameSets DEF Queues
<1>12. Calls = [t \in Threads |-> Memory!Idle]
    <2>1. ASSUME NEW t \in Threads PROVE Linearised(t) = Memory!Idle
        BY <1>2, Shown DEF At, Memory!Idle
    <2> QED BY <2>1 DEF Calls
<1>13. Memory!Init
    BY <1>10, <1>11, <1>12 DEF Memory!Init, Calls, Queues, Queue, Lengths
<1> QED BY <1>9, <1>13

LEMMA StutterStep == IInv /\ UNCHANGED vars => IInv' /\ Simulated
<1> SUFFICES ASSUME IInv, UNCHANGED vars PROVE IInv' /\ Simulated
    OBVIOUS
<1>1. UNCHANGED <<engine, owner, mem, pages, view, mux, waiters, ready, thread>>
    BY DEF vars
<1>2. IInv'
    <2>1. TypeOK' /\ MutexInv' /\ ViewInv'
        BY <1>1, ZenonT(30) DEF IInv, TypeOK, MutexInv, Holds, HoldsList, At, Op, Interpreted, ViewInv
    <2>2. \A t \in Threads : Place(t)'
        BY <1>1, Zenon DEF IInv, Place, Op, Length, Interpreted
    <2>3. QueueInv'
        BY <1>1, ZenonT(30) DEF IInv, QueueInv, Listed, Op
    <2> QED BY <2>1, <2>2, <2>3 DEF IInv
<1>3. SameLengths
    BY <1>1 DEF SameLengths, Lengths, Length
<1>4. Calls' = Calls
    BY <1>1 DEF Calls, Linearised, Length, Full
<1>5. \A a \in Cells : Pushing(a)' = Pushing(a)
    BY <1>1 DEF Pushing, At, Op, Full
<1>6. ASSUME NEW a \in Cells PROVE Queue(a)' = Queue(a)
    <2>1. Pushing(a)' = Pushing(a) /\ waiters'[a].list = waiters[a].list
        BY <1>1, <1>5
    <2> QED BY <1>1, <2>1 DEF Queue
<1>7. Queues' = Queues
    BY <1>6, Zenon DEF Queues
<1> QED BY <1>1, <1>2, <1>3, <1>4, <1>7, Stutters DEF Simulated

LEMMA NextStep == IInv /\ [Next]_vars => IInv' /\ Simulated
<1> SUFFICES ASSUME IInv, [Next]_vars PROVE IInv' /\ Simulated
    OBVIOUS
<1>1. CASE UNCHANGED vars
    BY <1>1, StutterStep
<1>2. CASE Next
    <2>1. PICK t \in Threads : Invoke(t) \/ Acquire(t) \/ Proceed(t)
        BY <1>2 DEF Next
    <2>2. CASE Invoke(t)
        BY <2>2, InvokeStep
    <2>3. CASE Acquire(t)
        BY <2>3, LockStep, LockWaitersStep DEF Acquire
    <2>4. CASE Start(t) \/ Read(t) \/ Write(t) \/ Execute(t)
        BY <2>4, StartStep, ReadStep, WriteStep, ExecuteStep
    <2>5. CASE LoadAccumulator(t) \/ CompareExchange(t) \/ Grow(t) \/ MemoryGrown(t)
        BY <2>5, LoadAccumulatorStep, CompareExchangeStep, GrowStep, MemoryGrownStep
    <2>6. CASE getWaiters(t) \/ Compare(t) \/ Push(t) \/ Ready(t)
        BY <2>6, getWaitersStep, CompareStep, PushStep, ReadyStep
    <2>7. CASE Timeout(t) \/ GiveUp(t) \/ FindWaiters(t) \/ Notify(t)
        BY <2>7, TimeoutStep, GiveUpStep, FindWaitersStep, NotifyStep
    <2> QED BY <2>1, <2>2, <2>3, <2>4, <2>5, <2>6, <2>7 DEF Proceed
<1> QED BY <1>1, <1>2
-----------------------------------------------------------------------------
\* On every engine Mux and the mutex of each list are held by exactly the thread
\* that is between their Lock and Unlock, a list has each blocked and not yet
\* notified thread at most once, and only the thread inside Grow leaves the
\* instances' view of the length behind the buffer.
THEOREM ThreadsInvariant == Spec => []IInv
<1>1. Init => IInv
    BY InitInv
<1>2. IInv /\ [Next]_vars => IInv'
    BY NextStep
<1> QED BY <1>1, <1>2, PTL DEF Spec

\* Every behaviour of the threads of any of the three engines, for any number of
\* threads, pages, waiters and operations, is one of a memory whose operations
\* each happen in one step: a read and its write, a comparison and its wait, a
\* timeout and a notification, and the growth with its refreshed view are atomic.
THEOREM ThreadsImplementAtomicMemory == Spec => ImplementsAtomicMemory
<1>1. Init => Memory!Init
    BY InitInv
<1>2. IInv /\ [Next]_vars => [Memory!Next]_(Memory!vars)
    BY NextStep DEF Simulated
<1> QED BY <1>1, <1>2, ThreadsInvariant, PTL DEF Spec, ImplementsAtomicMemory, Memory!Spec
=============================================================================
