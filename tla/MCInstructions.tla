--------------------------- MODULE MCInstructions ---------------------------
(* A function with a scalar local below and above a vector one, and four    *)
(* function types: none, a vector between scalars, references, a reflected  *)
(* function's single i32.                                                   *)
EXTENDS Instructions

MCLocals == <<"i32", "v128", "f32">>
MCFuncTypes ==
    [none |-> [params |-> <<>>, results |-> <<>>],
     mixed |-> [params |-> <<"i32", "v128">>, results |-> <<"v128", "f32">>],
     refs |-> [params |-> <<"externref">>, results |-> <<"funcref">>],
     int |-> [params |-> <<"i64">>, results |-> <<"i32">>]]
=============================================================================
