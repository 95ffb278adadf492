------------------------------ MODULE MemoryOps ------------------------------
(***************************************************************************)
(* The operations threads issue on a shared memory, and their results.     *)
(*                                                                         *)
(* An operation is a record: its kind, the cell it accesses (one cell per  *)
(* page), whether the address is aligned, its argument (operand,           *)
(* replacement, count or number of pages), the value it expects and        *)
(* whether it waits with a timeout.  A result is a number: a value, or one *)
(* of the negative ones below.                                             *)
(***************************************************************************)
EXTENDS Integers, Sequences

CONSTANTS Bits,         \* the width of the accessed value
          MaxPages,     \* the memory's declared maximum
          MaxDelta,     \* two to the width of memory.grow's operand
          MaxWaiters    \* the number of waiters that is one too many

ASSUME MemoryAssumption ==
    /\ Bits \in Nat \ {0}
    /\ MaxPages \in Nat \ {0}
    /\ MaxDelta \in Nat /\ MaxDelta > 2 * MaxPages
    /\ MaxWaiters \in Nat \ {0}

\* A fact of arithmetic: the provers know nothing of powers.
ASSUME PowerAssumption == \A n \in 0..Bits : 2 ^ n \in Nat \ {0}

Word == 2 ^ Bits
Values == 0..(Word - 1)
Cells == 0..(MaxPages - 1)

GrowFailed == -1
Unaligned == -2
OutOfBounds == -3
TooManyWaiters == -4

Logical == {"and", "or", "xor"}
Rmw == {"add", "sub", "xchg"} \cup Logical
Accesses == Rmw \cup {"load", "store", "cmpxchg"}

Operation ==
    [kind : Accesses \cup {"wait", "notify", "grow", "size"}, addr : Nat, aligned : BOOLEAN,
     arg : Nat, exp : Values, timed : BOOLEAN]

\* A number and the positions of its one bits.
Ones(x) == {i \in 0..(Bits - 1) : (x \div 2 ^ i) % 2 = 1}
Number(ones) ==
    LET upTo[n \in 0..Bits] ==
            IF n = 0 THEN 0 ELSE upTo[n - 1] + (IF n - 1 \in ones THEN 2 ^ (n - 1) ELSE 0)
    IN  upTo[Bits]

And(x, y) == Number(Ones(x) \cap Ones(y))
Or(x, y) == Number(Ones(x) \cup Ones(y))
Xor(x, y) == Number((Ones(x) \ Ones(y)) \cup (Ones(y) \ Ones(x)))

\* A queue of waiting threads once t has left it.
Without(q, t) ==
    IF \E i \in 1..Len(q) : q[i] = t
    THEN LET place == CHOOSE i \in 1..Len(q) : q[i] = t
         IN  SubSeq(q, 1, place - 1) \o SubSeq(q, place + 1, Len(q))
    ELSE q
=============================================================================
