------------------------------ MODULE MCThreads ------------------------------
(* Three threads and the operations each of them calls. *)
EXTENDS Threads

Request(kind, addr, arg, exp) ==
    [kind |-> kind, addr |-> addr, aligned |-> TRUE, arg |-> arg, exp |-> exp, timed |-> FALSE]

MCOps ==
    <<{Request("sub", 0, 1, 0), Request("notify", 0, 2, 0), Request("size", 0, 0, 0)},
      {Request("and", 0, 0, 0), [Request("wait", 0, 0, 0) EXCEPT !.timed = TRUE],
       Request("grow", 0, 1, 0), Request("grow", 0, 7, 0)},
      {Request("wait", 0, 0, 0), Request("load", 1, 0, 0)}>>

\* The threads run code of a module that imports the memory, of the one that
\* defines it, or the first of them of the one and the others of the other.
MCBuilds ==
    {<<"interpreter", <<FALSE, FALSE, FALSE>>>>, <<"arm64", <<TRUE, TRUE, TRUE>>>>,
     <<"amd64", <<TRUE, FALSE, FALSE>>>>}
=============================================================================
