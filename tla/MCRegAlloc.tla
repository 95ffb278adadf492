----------------------------- MODULE MCRegAlloc -----------------------------
(***************************************************************************)
(* Small functions for the register allocator: three registers, the first    *)
(* two of the calling convention, the third saved by the callee; bodies that *)
(* need more registers than there are, or call, in every block of a diamond, *)
(* of loops with parameters, and of blocks left early.                       *)
(***************************************************************************)
EXTENDS RegAlloc

MCArgRegs == <<1, 2>>
MCMachines == {[isa |-> "amd64", typ |-> "int"], [isa |-> "arm64", typ |-> "int"], [isa |-> "amd64", typ |-> "float"]}

Blk(params, body, on, cond, jump) == [params |-> params, body |-> body, on |-> on, cond |-> cond, jump |-> jump]
To(b, args) == [to |-> b, args |-> args]
Op(d, uses) == Instr("op", uses, <<d>>)

(* A body that makes z of x and y; t names its temporaries.                   *)
Plain(z, x, y, t) == <<Op(z, <<x, y>>)>>
InPlace(z, x, y, t) == <<Move(t, x), Instr("modify", <<y, t>>, <<>>), Move(z, t)>>
Calling(z, x, y, t) == lowerCall("call", <<>>, <<x>>, <<z>>)
CallingAll(z, x, y, t) == lowerCall("call", <<>>, <<y, x, y>>, <<t, t + 1, t + 2>>) \o <<Op(z, <<t, t + 1>>), Instr("use", <<t + 2>>, <<>>)>>
Indirect(z, x, y, t) == lowerCall("callIndirect", <<y>>, <<x>>, <<z>>)
Memmove(z, x, y, t) == lowerCall("memmove", <<>>, <<x, y>>, <<>>) \o <<Op(z, <<x>>)>>
Pressing(z, x, y, t) == <<Op(t, <<x>>), Op(t + 1, <<y>>), Op(t + 2, <<x, y>>), Op(t + 3, <<t, t + 1>>), Op(z, <<t + 2, t + 3>>)>>

Bodies(z, x, y, t) == {Plain(z, x, y, t), InPlace(z, x, y, t), Calling(z, x, y, t), CallingAll(z, x, y, t), Indirect(z, x, y, t),
                       Memmove(z, x, y, t), Pressing(z, x, y, t)}
Some(z, x, y, t) == {Plain(z, x, y, t), Calling(z, x, y, t), Pressing(z, x, y, t)}

Straight == {<<Blk(<<11, 12, 13>>, b1 \o b2, 0, NoBranch, To(Ret, r))>> :
                b1 \in Bodies(21, 11, 12, 31), b2 \in Bodies(22, 12, 21, 41), r \in {<<22, 11>>, <<21, 22, 13>>}}

Diamond == {<<Blk(<<11, 12>>, b1, 21, To(3, <<>>), To(2, <<>>)), Blk(<<>>, b2, 0, NoBranch, To(4, <<22, 11>>)),
              Blk(<<>>, b3, 0, NoBranch, To(4, <<0, 23>>)), Blk(<<24, 25>>, b4, 0, NoBranch, To(Ret, <<26, 12>>))>> :
               b1 \in Some(21, 11, 12, 31), b2 \in Some(22, 11, 12, 41), b3 \in Some(23, 12, 11, 51), b4 \in Some(26, 24, 25, 61)}

(* Two values that one arm, or both, reload after a call in either order.     *)
Reloading == {<<>>} \cup {lowerCall("call", <<>>, <<>>, <<>>) \o <<Instr("use", <<x>>, <<>>), Instr("use", <<y>>, <<>>)>> : x, y \in {11, 12}}
Crossed == {<<Blk(<<11, 12>>, <<>>, 11, To(3, <<>>), To(2, <<>>)), Blk(<<>>, b2, 0, NoBranch, To(4, <<>>)),
              Blk(<<>>, b3, 0, NoBranch, To(4, <<>>)), Blk(<<>>, <<>>, 0, NoBranch, To(Ret, <<11, 12>>))>> :
               b2, b3 \in Reloading}

(* A loop that carries two values, exchanged or not, and leaves with one.     *)
Loop == {<<Blk(<<11, 12>>, b1, 0, NoBranch, To(2, <<21, 12>>)), Blk(<<22, 23>>, b2, 24, To(2, args), To(3, <<>>)),
           Blk(<<>>, b3, 0, NoBranch, To(Ret, <<25, 11>>))>> :
            b1 \in Some(21, 11, 12, 31), b2 \in Bodies(24, 22, 23, 41), b3 \in Some(25, 22, 23, 51), args \in {<<23, 22>>, <<24, 22>>, <<23, 0>>}}

(* A block left early with a value, and a function left early.                *)
Early == {<<Blk(<<11, 12>>, b1, 21, To(3, <<11, 21>>), To(2, <<>>)), Blk(<<>>, b2, 0, NoBranch, To(3, <<22, 12>>)),
            Blk(<<23, 24>>, b3, 0, NoBranch, To(Ret, <<25, 24>>))>> :
             b1 \in Some(21, 11, 12, 31), b2 \in Some(22, 21, 12, 41), b3 \in Some(25, 23, 24, 51)}
Left == {<<Blk(<<11, 12>>, b1, 21, To(Ret, <<12, 21>>), To(2, <<>>)), Blk(<<>>, b2, 0, NoBranch, To(Ret, <<22, 21>>))>> :
            b1 \in Bodies(21, 11, 12, 31), b2 \in Bodies(22, 21, 12, 41)}

(* A loop in a loop; the inner one needs what the outer one carries.          *)
Nested == {<<Blk(<<11, 12>>, <<>>, 0, NoBranch, To(2, <<12>>)), Blk(<<21>>, b2, 0, NoBranch, To(3, <<22>>)),
             Blk(<<23>>, b3, 24, To(3, <<24>>), To(4, <<>>)), Blk(<<>>, b4, 25, To(2, args), To(5, <<>>)),
             Blk(<<>>, <<>>, 0, NoBranch, To(Ret, <<25, 11>>))>> :
              b2 \in Some(22, 21, 11, 31), b3 \in Some(24, 23, 21, 41), b4 \in Some(25, 24, 22, 51), args \in {<<25>>, <<22>>}}

(* A loop continued from two places and left from its head; a second loop     *)
(* follows it.                                                               *)
Continued == {<<Blk(<<11, 12>>, <<>>, 0, NoBranch, To(2, <<11, 12>>)), Blk(<<21, 22>>, b2, 23, To(5, <<>>), To(3, <<>>)),
                Blk(<<>>, b3, 24, To(2, <<22, 24>>), To(4, <<>>)), Blk(<<>>, b4, 0, NoBranch, To(2, <<25, 21>>)),
                Blk(<<>>, <<>>, 0, NoBranch, To(6, <<23>>)), Blk(<<28>>, b6, 27, To(6, <<27>>), To(7, <<>>)),
                Blk(<<>>, <<>>, 0, NoBranch, To(Ret, <<27, 12>>))>> :
                 b2 \in Some(23, 21, 22, 31), b3 \in Some(24, 21, 23, 41), b4 \in Some(25, 24, 22, 51), b6 \in Some(27, 28, 12, 61)}

(* Every graph of four blocks the frontend can build, with a call in the      *)
(* second and two values that live throughout: a conditional branch falls    *)
(* through to a block of its own, a branch backward goes to a loop header,   *)
(* and a header is entered by one unconditional branch.                      *)
Next4(b) == ({-1} \X {Ret, 2, 3, 4}) \cup {<<c, j>> \in {Ret, 2, 3, 4} \X ((b + 1)..4) : c # j}
Leads(next, b) == {c \in {next[b][1], next[b][2]} : c > Ret}
FromTo(next, c) == {b \in 1..4 : c \in Leads(next, b)}
RECURSIVE Reached(_, _, _)
Reached(next, seen, without) ==
    LET more == (seen \cup UNION {Leads(next, b) : b \in seen}) \ {without}
    IN  IF more = seen THEN seen ELSE Reached(next, more, without)

Buildable(next) ==
    /\ \A b \in 1..4 : next[b][1] # -1 => FromTo(next, next[b][2]) = {b}
    /\ \A c \in 2..4 : \E b \in 1..(c - 1) : c \in Leads(next, b)
    /\ \A c \in 2..4 : (\E b \in c..4 : c \in Leads(next, b)) =>
           /\ \A b \in c..4 : c \in Leads(next, b) => b \notin Reached(next, {1}, c)
           /\ \E b \in 1..(c - 1) : FromTo(next, c) \cap 1..(c - 1) = {b} /\ next[b][1] = -1

Branch(c) == IF c = -1 THEN NoBranch ELSE To(c, IF c = Ret THEN <<12, 11>> ELSE <<>>)
Graphs == {[b \in 1..4 |-> Blk(IF b = 1 THEN <<11, 12>> ELSE <<>>, IF b = 2 THEN b2 ELSE <<Op(20 + b, <<11, 12>>)>>,
                               IF next[b][1] = -1 THEN 0 ELSE 20 + b, Branch(next[b][1]), Branch(next[b][2]))] :
             next \in {<<n1, n2, n3, n4>> \in Next4(1) \X Next4(2) \X Next4(3) \X Next4(4) : Buildable(<<n1, n2, n3, n4>>)},
             b2 \in Some(22, 11, 12, 31)}

MCTexts == Straight \cup Diamond \cup Crossed \cup Loop \cup Early \cup Left \cup Nested \cup Continued \cup Graphs
==============================================================================
