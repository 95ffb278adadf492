--------------------------- MODULE MCControlFlow ---------------------------
(* Bodies of a function of one i32 result, in four small alphabets.         *)
EXTENDS ControlFlow

MCBlockTypes ==
    [fn |-> [params |-> <<>>, results |-> <<"i32">>],
     none |-> [params |-> <<>>, results |-> <<>>],
     int |-> [params |-> <<>>, results |-> <<"i32">>],
     pass |-> [params |-> <<"i32">>, results |-> <<"i32">>],
     sink |-> [params |-> <<"i32">>, results |-> <<>>],
     wide |-> [params |-> <<"i32">>, results |-> <<"v128", "i32">>]]

MCAlphabets ==
    {\* a local assigned in some branches, read after them
     {CodeOf("loop", "int"), CodeOf("if", "none"), CodeTo("br_if", 0), Code("i32.const"), Code("local.get"), Code("local.set")},
     \* blocks nested in blocks, and code after a jump
     {CodeOf("block", "int"), CodeOf("loop", "pass"), CodeTo("br", 0), CodeTo("br", 1), CodeTo("br_if", 0), Code("i32.const")},
     \* values two slots wide under and over the ones a branch keeps
     {CodeOf("block", "wide"), CodeOf("loop", "sink"), CodeTo("br_if", 0), CodeTable(<<0>>, 1), Code("v128.const"), Code("i32.const"), Code("drop")},
     \* an if that gives a value, with and without else
     {CodeOf("if", "pass"), Code("else"), CodeTable(<<1>>, 0), CodeTable(<<>>, 1), Code("i32.const"), Code("unreachable"), Code("return")}}

MCConditions == [1..3 -> 0..1] \cup {<<2, 2, 2>>}
=============================================================================
