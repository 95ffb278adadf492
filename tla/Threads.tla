------------------------------- MODULE Threads -------------------------------
(***************************************************************************)
(* Guest threads on one shared memory (internal/wasm/memory.go and the     *)
(* engines' atomic instructions).                                          *)
(*                                                                         *)
(* The interpreter brackets every atomic access with the memory's Mux.     *)
(* Compiled code checks the bounds and then runs one atomic instruction,   *)
(* except for the logical operations on amd64, which load and retry a      *)
(* compare-exchange.  Waiting and notifying go through a per-address list  *)
(* of channels under a mutex of its own.  Growing holds Mux, stores the    *)
(* new length and then refreshes the length compiled code of the module    *)
(* that defines the memory keeps.                                          *)
(***************************************************************************)
EXTENDS MemoryOps

CONSTANTS Threads, Free,
          Builds,       \* the engines, and whose code each thread runs (see engine and owner)
          Ops           \* per thread, the operations it may call

\* The interpreter reads the length from the memory itself.
ASSUME ThreadsAssumption ==
    /\ Free \notin Threads
    /\ Builds \subseteq ({"interpreter"} \X [Threads -> {FALSE}])
                       \cup ({"amd64", "arm64"} \X [Threads -> BOOLEAN])
    /\ Ops \in [Threads -> SUBSET Operation]

VARIABLES engine,   \* what runs the threads
          owner,    \* per thread, whether it runs compiled code of the module that defines
                    \* the memory; the others run that of a module that imports it
          mem,      \* Buffer's cells
          pages,    \* Buffer's length
          view,     \* the length in the defining module's context
          mux,      \* who holds Mux
          waiters,  \* per address: whether it has an entry, who holds its mux, its list
          ready,    \* the waiting threads whose channel is closed
          thread    \* per thread: where it is, its operation and the value it read

vars == <<engine, owner, mem, pages, view, mux, waiters, ready, thread>>

Idle == [pc |-> "idle"]
Done(r) == [pc |-> "done", res |-> r]

Interpreted == engine = "interpreter"

\* The length the code that t runs compares an address with.
Length(t) == IF owner[t] THEN view ELSE pages

Init ==
    /\ \E b \in Builds : engine = b[1] /\ owner = b[2]
    /\ mem = [a \in Cells |-> 0]
    /\ pages = 1
    /\ view = 1
    /\ mux = Free
    /\ waiters = [a \in Cells |-> [entry |-> FALSE, mux |-> Free, list |-> << >>]]
    /\ ready = {}
    /\ thread = [t \in Threads |-> Idle]

At(t, pc) == thread[t].pc = pc
Goto(t, pc) == thread' = [thread EXCEPT ![t].pc = pc]
Finish(t, r) == thread' = [thread EXCEPT ![t] = Done(r)]
Op(t) == thread[t].op
Returned(t) == thread[t].pc \in {"idle", "done"}
-----------------------------------------------------------------------------
Invoke(t) ==
    /\ Returned(t)
    /\ \E op \in Ops[t] : thread' = [thread EXCEPT ![t] = [pc |-> "start", op |-> op, old |-> 0]]
    /\ UNCHANGED <<engine, owner, mem, pages, view, mux, waiters, ready>>

\* The checks in front of an operation.  The interpreter leaves the bounds of
\* plain atomic accesses to the access itself.
EarlyTraps(t, op) ==
    IF op.kind \in {"grow", "size"} THEN {}
    ELSE IF Interpreted
    THEN IF ~op.aligned THEN {Unaligned}
         ELSE IF op.kind \notin Accesses /\ op.addr >= Length(t) THEN {OutOfBounds} ELSE {}
    ELSE IF op.addr >= Length(t) THEN {OutOfBounds}
         ELSE IF ~op.aligned THEN {Unaligned} ELSE {}

FirstStep(op) ==
    CASE op.kind = "wait"   -> "waiters"
      [] op.kind = "notify" -> "find"
      [] op.kind = "grow"   -> "lock"
      [] op.kind \in Accesses ->
             IF Interpreted THEN "lock"
             ELSE IF engine = "amd64" /\ op.kind \in Logical THEN "load" ELSE "exec"

Start(t) ==
    /\ At(t, "start")
    /\ IF EarlyTraps(t, Op(t)) # {} THEN \E r \in EarlyTraps(t, Op(t)) : Finish(t, r)
       ELSE IF Op(t).kind = "size" THEN Finish(t, Length(t))
       ELSE Goto(t, FirstStep(Op(t)))
    /\ UNCHANGED <<engine, owner, mem, pages, view, mux, waiters, ready>>
-----------------------------------------------------------------------------
(* Atomic accesses *)

Negated(v) == (Word - v) % Word
Flipped(v) == Word - 1 - v

\* The value an access leaves in its cell.  Compiled code subtracts by adding the
\* negated operand; arm64 clears the bits of the flipped one.
Modify(op, old) ==
    CASE op.kind = "load"    -> old
      [] op.kind = "store"   -> op.arg
      [] op.kind = "xchg"    -> op.arg
      [] op.kind = "add"     -> (old + op.arg) % Word
      [] op.kind = "sub"     -> IF Interpreted THEN (old - op.arg) % Word
                                ELSE (old + Negated(op.arg)) % Word
      [] op.kind = "and"     -> IF engine = "arm64" THEN And(old, Flipped(Flipped(op.arg)))
                                ELSE And(old, op.arg)
      [] op.kind = "or"      -> Or(old, op.arg)
      [] op.kind = "xor"     -> Xor(old, op.arg)
      [] op.kind = "cmpxchg" -> IF old = op.exp THEN op.arg ELSE old

ResultOf(op, old) == IF op.kind = "store" THEN 0 ELSE old

Lock(t) ==
    /\ thread[t].pc \in {"lock", "rlock"}
    /\ mux = Free
    /\ mux' = t
    /\ Goto(t, IF At(t, "lock") THEN "locked" ELSE "compare")
    /\ UNCHANGED <<engine, owner, mem, pages, view, waiters, ready>>

\* The read inside the interpreter's critical section; nothing but the access is
\* between it and the write.
Read(t) ==
    /\ At(t, "locked")
    /\ Op(t).kind \in Accesses
    /\ IF Op(t).addr >= pages
       THEN Finish(t, OutOfBounds) /\ mux' = Free
       ELSE IF Op(t).kind = "load"
       THEN Finish(t, mem[Op(t).addr]) /\ mux' = Free
       ELSE /\ thread' = [thread EXCEPT ![t].pc = "write", ![t].old = mem[Op(t).addr]]
            /\ UNCHANGED mux
    /\ UNCHANGED <<engine, owner, mem, pages, view, waiters, ready>>

Write(t) ==
    /\ At(t, "write")
    /\ mem' = [mem EXCEPT ![Op(t).addr] = Modify(Op(t), thread[t].old)]
    /\ mux' = Free
    /\ Finish(t, ResultOf(Op(t), thread[t].old))
    /\ UNCHANGED <<engine, owner, pages, view, waiters, ready>>

\* One atomic instruction.
Execute(t) ==
    /\ At(t, "exec")
    /\ LET old == mem[Op(t).addr]
       IN  /\ mem' = [mem EXCEPT ![Op(t).addr] = Modify(Op(t), old)]
           /\ Finish(t, ResultOf(Op(t), old))
    /\ UNCHANGED <<engine, owner, pages, view, mux, waiters, ready>>

\* The loop of amd64's logical operations.
LoadAccumulator(t) ==
    /\ At(t, "load")
    /\ thread' = [thread EXCEPT ![t].pc = "cas", ![t].old = mem[Op(t).addr]]
    /\ UNCHANGED <<engine, owner, mem, pages, view, mux, waiters, ready>>

CompareExchange(t) ==
    /\ At(t, "cas")
    /\ IF mem[Op(t).addr] = thread[t].old
       THEN /\ mem' = [mem EXCEPT ![Op(t).addr] = Modify(Op(t), thread[t].old)]
            /\ Finish(t, thread[t].old)
       ELSE Goto(t, "load") /\ UNCHANGED mem
    /\ UNCHANGED <<engine, owner, pages, view, mux, waiters, ready>>
-----------------------------------------------------------------------------
(* MemoryInstance.Grow *)

\* The operand is unsigned and as wide as the sum; half of its values are negative.
Grow(t) ==
    LET delta == Op(t).arg
        new   == (pages + delta) % MaxDelta
    IN  /\ At(t, "locked")
        /\ Op(t).kind = "grow"
        /\ IF delta = 0 THEN /\ Finish(t, pages)
                             /\ mux' = Free
                             /\ UNCHANGED pages
           ELSE IF new > MaxPages \/ delta >= MaxDelta \div 2
           THEN /\ Finish(t, GrowFailed)
                /\ mux' = Free
                /\ UNCHANGED pages
           ELSE /\ pages' = new
                /\ thread' = [thread EXCEPT ![t].pc = "grown", ![t].old = pages]
                /\ UNCHANGED mux
        /\ UNCHANGED <<engine, owner, mem, view, waiters, ready>>

MemoryGrown(t) ==
    /\ At(t, "grown")
    /\ view' = pages
    /\ mux' = Free
    /\ Finish(t, thread[t].old)
    /\ UNCHANGED <<engine, owner, mem, pages, waiters, ready>>
-----------------------------------------------------------------------------
(* Wait32, Wait64 and Notify *)

\* Mutant of getWaiters: the list it returns is locked already.
getWaitersLocked(t) ==
    /\ At(t, "waiters")
    /\ waiters' = [waiters EXCEPT ![Op(t).addr].entry = TRUE, ![Op(t).addr].mux = t]
    /\ Goto(t, "wlock")
    /\ UNCHANGED <<engine, owner, mem, pages, view, mux, ready>>

getWaiters(t) ==
    /\ At(t, "waiters")
    /\ waiters' = [waiters EXCEPT ![Op(t).addr].entry = TRUE]
    /\ Goto(t, "wlock")
    /\ UNCHANGED <<engine, owner, mem, pages, view, mux, ready>>

AfterLock(t) ==
    IF At(t, "elock") THEN "remove"
    ELSE IF Op(t).kind = "notify" THEN "wake"
    ELSE IF Interpreted THEN "rlock" ELSE "compare"

LockWaiters(t) ==
    /\ thread[t].pc \in {"wlock", "elock"}
    /\ waiters[Op(t).addr].mux = Free
    /\ waiters' = [waiters EXCEPT ![Op(t).addr].mux = t]
    /\ Goto(t, AfterLock(t))
    /\ UNCHANGED <<engine, owner, mem, pages, view, mux, ready>>

\* Mutant of Compare: the list's mutex is released before the channel is on it.
CompareAndUnlock(t) ==
    /\ At(t, "compare")
    /\ mux' = IF Interpreted THEN Free ELSE mux
    /\ waiters' = [waiters EXCEPT ![Op(t).addr].mux = Free]
    /\ IF mem[Op(t).addr] = Op(t).exp THEN Goto(t, "push") ELSE Finish(t, 1)
    /\ UNCHANGED <<engine, owner, mem, pages, view, ready>>

\* The reader, which in the interpreter held Mux, and the comparison.
Compare(t) ==
    /\ At(t, "compare")
    /\ mux' = IF Interpreted THEN Free ELSE mux
    /\ IF mem[Op(t).addr] = Op(t).exp
       THEN Goto(t, "push") /\ UNCHANGED waiters
       ELSE /\ waiters' = [waiters EXCEPT ![Op(t).addr].mux = Free]
            /\ Finish(t, 1)
    /\ UNCHANGED <<engine, owner, mem, pages, view, ready>>

Full(a) == Len(waiters[a].list) + 1 = MaxWaiters

Push(t) ==
    /\ At(t, "push")
    /\ IF Full(Op(t).addr)
       THEN /\ waiters' = [waiters EXCEPT ![Op(t).addr].mux = Free]
            /\ Finish(t, TooManyWaiters)
       ELSE /\ waiters' = [waiters EXCEPT ![Op(t).addr].mux = Free,
                                          ![Op(t).addr].list = Append(@, t)]
            /\ Goto(t, "blocked")
    /\ UNCHANGED <<engine, owner, mem, pages, view, mux, ready>>

\* The select: a closed channel and a fired timer may be seen in either order.
Ready(t) ==
    /\ At(t, "blocked")
    /\ t \in ready
    /\ ready' = ready \ {t}
    /\ Finish(t, 0)
    /\ UNCHANGED <<engine, owner, mem, pages, view, mux, waiters>>

Timeout(t) ==
    /\ At(t, "blocked")
    /\ Op(t).timed
    /\ Goto(t, "elock")
    /\ UNCHANGED <<engine, owner, mem, pages, view, mux, waiters, ready>>

GiveUp(t) ==
    /\ At(t, "remove")
    /\ waiters' = [waiters EXCEPT ![Op(t).addr].mux = Free,
                                  ![Op(t).addr].list = Without(@, t)]
    /\ ready' = ready \ {t}
    /\ Finish(t, 2)
    /\ UNCHANGED <<engine, owner, mem, pages, view, mux>>

FindWaiters(t) ==
    /\ At(t, "find")
    /\ IF waiters[Op(t).addr].entry THEN Goto(t, "wlock") ELSE Finish(t, 0)
    /\ UNCHANGED <<engine, owner, mem, pages, view, mux, waiters, ready>>

Notify(t) ==
    LET a == Op(t).addr
        l == waiters[a].list
        n == IF Op(t).arg < Len(l) THEN Op(t).arg ELSE Len(l)
    IN  /\ At(t, "wake")
        /\ waiters' = [waiters EXCEPT ![a].mux = Free, ![a].list = SubSeq(l, n + 1, Len(l))]
        /\ ready' = ready \cup {l[i] : i \in 1..n}
        /\ Finish(t, n)
        /\ UNCHANGED <<engine, owner, mem, pages, view, mux>>
-----------------------------------------------------------------------------
Acquire(t) == Lock(t) \/ LockWaiters(t)

Proceed(t) ==
    \/ Start(t) \/ Read(t) \/ Write(t) \/ Execute(t) \/ LoadAccumulator(t)
    \/ CompareExchange(t) \/ Grow(t) \/ MemoryGrown(t) \/ getWaiters(t) \/ Compare(t)
    \/ Push(t) \/ Ready(t) \/ Timeout(t) \/ GiveUp(t) \/ FindWaiters(t) \/ Notify(t)

Next == \E t \in Threads : Invoke(t) \/ Acquire(t) \/ Proceed(t)

\* Goroutines are scheduled, timers fire, and Go's mutexes hand over to whoever
\* has waited too long; nothing says a thread ever calls again.
Spec ==
    /\ Init
    /\ [][Next]_vars
    /\ \A t \in Threads : SF_vars(Acquire(t) \/ Proceed(t))
-----------------------------------------------------------------------------
(* Where the operations take effect.  A wait does when it has compared, with *)
(* the list's mutex still held; growing does when the length of Buffer is    *)
(* stored, and returns once the copy of the length is refreshed.             *)

Linearised(t) ==
    LET c == thread[t]
        status(s) == [status |-> s, op |-> c.op]
        result(r) == [status |-> "done", res |-> r]
    IN  CASE c.pc = "idle" -> [status |-> "idle"]
          [] c.pc = "done" -> result(c.res)
          [] c.pc = "grown" -> [status |-> "growing", res |-> c.old]
          [] c.pc = "push" -> IF Full(c.op.addr) THEN result(TooManyWaiters) ELSE status("waiting")
          [] c.pc \in {"blocked", "elock", "remove"} ->
                 status(IF t \in ready THEN "woken" ELSE "waiting")
          [] OTHER -> status("called")

Pushing(a) == {t \in Threads : At(t, "push") /\ Op(t).addr = a /\ ~Full(a)}

\* The list's mutex lets one thread at a time push.
Queue(a) ==
    IF Pushing(a) = {} THEN waiters[a].list
    ELSE Append(waiters[a].list, CHOOSE t \in Pushing(a) : TRUE)

Queues == [a \in Cells |-> Queue(a)]
Calls == [t \in Threads |-> Linearised(t)]
Lengths == [t \in Threads |-> Length(t)]

Memory == INSTANCE AtomicMemory WITH seen <- Lengths, queue <- Queues, call <- Calls

\* Whatever the interleaving, the operations of the threads have the results and
\* effects of operations that each happen in one step, on every engine: nothing
\* is lost between a read and its write, between a comparison and its wait, or
\* between a timeout and a notification.  A length grows by one growth at a time
\* and, whichever module's code the threads run, all of them know the new one
\* when memory.grow returns.
ImplementsAtomicMemory == Memory!Spec

\* The loop of a logical operation, which other threads' stores may keep turning.
Spinning(t) == thread[t].pc \in {"load", "cas"}

Listens(t, l) == \E i \in 1..Len(l) : l[i] = t
Suspended(t) == At(t, "blocked") /\ ~Op(t).timed /\ Listens(t, waiters[Op(t).addr].list)

\* An operation returns, or waits without a timeout where the next notification
\* will find it: no thread is left behind by a mutex, by a timeout or by a
\* notification that counted it.
OperationsReturn ==
    \A t \in Threads :
        (~Returned(t) /\ ~Spinning(t) /\ ~Suspended(t))
            ~> (Returned(t) \/ Spinning(t) \/ Suspended(t))
=============================================================================
