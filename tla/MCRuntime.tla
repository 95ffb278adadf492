------------------------------ MODULE MCRuntime ------------------------------
(* Four instances, two of one name and one with none, and the programs that use them. *)
EXTENDS Runtime, TLC

CONSTANTS m1, m2, m3, m4, c1, c2, k1, k2

MCName == (m1 :> "a") @@ (m2 :> "b") @@ (m3 :> "a") @@ (m4 :> Nil)

Program(runs, section, function, ends, engine, closeOnContextDone) ==
    [runs |-> runs, section |-> section, function |-> function, ends |-> ends,
     engine |-> engine, closeOnContextDone |-> closeOnContextDone]

MCPrograms ==
    {\* Instances that share a name come and go while the runtime closes.
     Program({m1, m2, m3, k1, k2}, {}, {}, {}, "compiler", FALSE),
     \* Callers of an instance, one with a context that ends.
     Program({m1, c1, c2}, {}, {}, {c1}, "interpreter", TRUE),
     Program({m1, c1, k1, k2}, {}, {}, {c1}, "compiler", TRUE),
     \* Start functions under a context that ends, and a name that is taken.
     Program({m1, k1}, {m1}, {m1}, {m1}, "compiler", TRUE),
     Program({m1, m3, k1}, {m1}, {}, {m1}, "interpreter", TRUE),
     \* Calls no context ends.
     Program({m1, m4, k1}, {}, {m4}, {}, "interpreter", FALSE),
     Program({m1, c1, k1}, {}, {m1}, {c1}, "interpreter", FALSE)}
=============================================================================
