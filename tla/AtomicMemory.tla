----------------------------- MODULE AtomicMemory -----------------------------
(***************************************************************************)
(* What a shared memory promises its threads: between its call and its     *)
(* return every operation takes effect in one step, and a wait compares    *)
(* and starts to wait in one step.  Growing is the exception: one growth   *)
(* at a time, the new length shows to some threads when it takes effect    *)
(* and to all of them by the time it returns.                              *)
(***************************************************************************)
EXTENDS MemoryOps

CONSTANTS Threads, Ops

VARIABLES mem,      \* the cells
          pages,    \* how many cells there are now
          seen,     \* per thread, how many of them it knows of
          queue,    \* per cell, the threads that wait on it, oldest first
          call      \* per thread, the operation it is in and how far it got

vars == <<mem, pages, seen, queue, call>>

Idle == [status |-> "idle"]
Done(r) == [status |-> "done", res |-> r]

Init ==
    /\ mem = [a \in Cells |-> 0]
    /\ pages = 1
    /\ seen = [t \in Threads |-> 1]
    /\ queue = [a \in Cells |-> << >>]
    /\ call = [t \in Threads |-> Idle]

Invoke(t) ==
    /\ call[t].status \in {"idle", "done"}
    /\ \E op \in Ops[t] : call' = [call EXCEPT ![t] = [status |-> "called", op |-> op]]
    /\ UNCHANGED <<mem, pages, seen, queue>>

Called(t, kinds) == call[t].status = "called" /\ call[t].op.kind \in kinds

Traps(t, op) == (IF op.aligned THEN {} ELSE {Unaligned})
                    \cup (IF op.addr < seen[t] THEN {} ELSE {OutOfBounds})

Trap(t) ==
    /\ Called(t, Accesses \cup {"wait", "notify"})
    /\ \E r \in Traps(t, call[t].op) : call' = [call EXCEPT ![t] = Done(r)]
    /\ UNCHANGED <<mem, pages, seen, queue>>

After(op, old) ==
    CASE op.kind = "load"    -> old
      [] op.kind = "store"   -> op.arg
      [] op.kind = "xchg"    -> op.arg
      [] op.kind = "add"     -> (old + op.arg) % Word
      [] op.kind = "sub"     -> (old - op.arg) % Word
      [] op.kind = "and"     -> And(old, op.arg)
      [] op.kind = "or"      -> Or(old, op.arg)
      [] op.kind = "xor"     -> Xor(old, op.arg)
      [] op.kind = "cmpxchg" -> IF old = op.exp THEN op.arg ELSE old

Access(t) ==
    /\ Called(t, Accesses)
    /\ LET op  == call[t].op
           old == mem[op.addr]
       IN  /\ Traps(t, op) = {}
           /\ mem' = [mem EXCEPT ![op.addr] = After(op, old)]
           /\ call' = [call EXCEPT ![t] = Done(IF op.kind = "store" THEN 0 ELSE old)]
    /\ UNCHANGED <<pages, seen, queue>>

Size(t) ==
    /\ Called(t, {"size"})
    /\ call' = [call EXCEPT ![t] = Done(seen[t])]
    /\ UNCHANGED <<mem, pages, seen, queue>>

Growing == {t \in Threads : call[t].status = "growing"}

\* The threads in first know the new length at once.
Grow(t) ==
    /\ Called(t, {"grow"})
    /\ Growing = {}
    /\ LET delta == call[t].op.arg
       IN  IF delta = 0 \/ pages + delta > MaxPages
           THEN /\ call' = [call EXCEPT ![t] = Done(IF delta = 0 THEN pages ELSE GrowFailed)]
                /\ UNCHANGED <<pages, seen>>
           ELSE \E first \in SUBSET Threads :
                /\ pages' = pages + delta
                /\ seen' = [u \in Threads |-> IF u \in first THEN pages' ELSE seen[u]]
                /\ call' = [call EXCEPT ![t] = [status |-> "growing", res |-> pages]]
    /\ UNCHANGED <<mem, queue>>

Grown(t) ==
    /\ call[t].status = "growing"
    /\ seen' = [u \in Threads |-> pages]
    /\ call' = [call EXCEPT ![t] = Done(call[t].res)]
    /\ UNCHANGED <<mem, pages, queue>>

Wait(t) ==
    /\ Called(t, {"wait"})
    /\ LET op == call[t].op
       IN  /\ Traps(t, op) = {}
           /\ IF mem[op.addr] # op.exp
              THEN /\ call' = [call EXCEPT ![t] = Done(1)]
                   /\ UNCHANGED queue
              ELSE IF Len(queue[op.addr]) + 1 = MaxWaiters
              THEN /\ call' = [call EXCEPT ![t] = Done(TooManyWaiters)]
                   /\ UNCHANGED queue
              ELSE /\ call' = [call EXCEPT ![t].status = "waiting"]
                   /\ queue' = [queue EXCEPT ![op.addr] = Append(@, t)]
    /\ UNCHANGED <<mem, pages, seen>>

Notify(t) ==
    /\ Called(t, {"notify"})
    /\ LET op == call[t].op
           q  == queue[op.addr]
           n  == IF op.arg < Len(q) THEN op.arg ELSE Len(q)
       IN  /\ Traps(t, op) = {}
           /\ queue' = [queue EXCEPT ![op.addr] = SubSeq(q, n + 1, Len(q))]
           /\ call' = [u \in Threads |->
                  IF u = t THEN Done(n)
                  ELSE IF \E i \in 1..n : u = q[i] THEN [call[u] EXCEPT !.status = "woken"]
                  ELSE call[u]]
    /\ UNCHANGED <<mem, pages, seen>>

Woken(t) ==
    /\ call[t].status = "woken"
    /\ call' = [call EXCEPT ![t] = Done(0)]
    /\ UNCHANGED <<mem, pages, seen, queue>>

\* A timeout ends a wait, and may still end it when it was just notified.
Expire(t) ==
    /\ call[t].status \in {"waiting", "woken"}
    /\ call[t].op.timed
    /\ queue' = [queue EXCEPT ![call[t].op.addr] = Without(@, t)]
    /\ call' = [call EXCEPT ![t] = Done(2)]
    /\ UNCHANGED <<mem, pages, seen>>

Next == \E t \in Threads :
    \/ Invoke(t) \/ Trap(t) \/ Access(t) \/ Size(t) \/ Grow(t) \/ Grown(t)
    \/ Wait(t) \/ Notify(t) \/ Woken(t) \/ Expire(t)

Spec == Init /\ [][Next]_vars
=============================================================================
