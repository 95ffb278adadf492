-------------------------- MODULE ControlValidation --------------------------
(***************************************************************************)
(* validateFunction of internal/wasm/func_validation.go on the structured   *)
(* control instructions: the control block stack, and the value type stack  *)
(* with its limits and its unknown type for code after a jump.              *)
(*                                                                          *)
(* A control instruction is [op, bt, k, ks]: the name of its block type, its *)
(* label, and of a br_table the labels before its default one k.            *)
(***************************************************************************)
EXTENDS Integers, Sequences, SequencesExt

CONSTANT BlockTypes    \* name -> [params, results]; "fn" is the function's own type

ASSUME BlockTypesAssumption ==
    \A n \in DOMAIN BlockTypes :
        /\ BlockTypes[n].params \in Seq({"i32", "v128"})
        /\ BlockTypes[n].results \in Seq({"i32", "v128"})

Params(bt) == BlockTypes[bt].params
Results(bt) == BlockTypes[bt].results
Unknown == "unknown"

Code(op) == [op |-> op, bt |-> "", k |-> 0, ks |-> <<>>]
CodeOf(op, bt) == [Code(op) EXCEPT !.bt = bt]
CodeTo(op, k) == [Code(op) EXCEPT !.k = k]
CodeTable(ks, k) == [Code("br_table") EXCEPT !.ks = ks, !.k = k]
LabelsOf(i) == Append(i.ks, i.k)
Picked(i, v) == IF v < Len(i.ks) THEN v + 1 ELSE Len(i.ks) + 1

---------------------------------------------------------------------------
(* valueTypeStack: s is [vs, limits, ...].                                  *)

Limit(s) == IF s.limits = <<>> THEN 0 ELSE Last(s.limits)

(* tryPop: the unknown type at the limit stands for any number of values.   *)
AtUnknown(s) == Len(s.vs) = Limit(s) + 1 /\ s.vs[Limit(s) + 1] = Unknown
TryPop(s) ==
    IF Len(s.vs) <= Limit(s) THEN [ok |-> FALSE, t |-> "", s |-> s]
    ELSE IF AtUnknown(s) THEN [ok |-> TRUE, t |-> Unknown, s |-> s]
    ELSE [ok |-> TRUE, t |-> Last(s.vs), s |-> [s EXCEPT !.vs = Front(@)]]
Fits(have, want) == have = want \/ have = Unknown \/ want = Unknown
PopAndVerifyType(s, want) == LET p == TryPop(s) IN [p EXCEPT !.ok = @ /\ Fits(p.t, want)]
PushTypes(s, ts) == [s EXCEPT !.vs = @ \o ts]
ResetAtStackLimit(s) == [s EXCEPT !.vs = SubSeq(@, 1, Limit(s))]
MarkUnreachable(s) == PushTypes(ResetAtStackLimit(s), <<Unknown>>)
PushStackLimit(s, params) == [s EXCEPT !.limits = Append(@, Len(s.vs) - params)]
PopStackLimit(s) == IF s.limits = <<>> THEN s ELSE [s EXCEPT !.limits = Front(@)]

(* requireStackValues: the types wanted are on top, and with checkAboveLimit*)
(* nothing else is above the limit.                                         *)
RECURSIVE RequireStackValues(_, _, _)
RequireStackValues(s, want, checkAboveLimit) ==
    IF want = <<>>
    THEN [ok |-> checkAboveLimit => (Len(s.vs) = Limit(s) \/ AtUnknown(s)), s |-> s]
    ELSE LET p == PopAndVerifyType(s, Last(want))
         IN  IF p.ok THEN RequireStackValues(p.s, Front(want), checkAboveLimit) ELSE [ok |-> FALSE, s |-> s]

---------------------------------------------------------------------------
(* controlBlockStack: s.ctl, innermost last.                                *)

Block(op, bt) == [op |-> op, bt |-> bt]
PushBlock(s, op, bt) == [s EXCEPT !.ctl = Append(@, Block(op, bt))]
HasLabel(s, k) == k < Len(s.ctl)
Label(s, k) == s.ctl[Len(s.ctl) - k]
LabelTypes(blk) == IF blk.op = "loop" THEN Params(blk.bt) ELSE Results(blk.bt)

Refused(s) == [ok |-> FALSE, s |-> s]
Accepted(s) == [ok |-> TRUE, s |-> s]
Then(r, s) == IF r.ok THEN Accepted(s) ELSE Refused(s)

(* stacks.reset.                                                            *)
ValidatorStart == [vs |-> <<>>, limits |-> <<>>, ctl |-> <<Block("", "fn")>>]

(* block and loop, and if once its condition is popped; a block has no op.  *)
EnterBlock(s, i) ==
    LET r == RequireStackValues(PushBlock(s, IF i.op = "block" THEN "" ELSE i.op, i.bt), Params(i.bt), FALSE)
    IN  Then(r, PushStackLimit(PushTypes(r.s, Params(i.bt)), Len(Params(i.bt))))
ValidateIf(s, i) == LET c == PopAndVerifyType(s, "i32") IN IF c.ok THEN EnterBlock(c.s, i) ELSE Refused(s)

ValidateElse(s) ==
    LET blk == Last(s.ctl)
        r == RequireStackValues(s, Results(blk.bt), TRUE)
    IN  IF blk.op # "if" THEN Refused(s)
        ELSE Then(r, [PushTypes(ResetAtStackLimit(r.s), Params(blk.bt)) EXCEPT !.ctl = Append(Front(@), [blk EXCEPT !.op = "else"])])

(* An if without else must give back the types it takes.                    *)
ValidateEnd(s) ==
    LET blk == Last(s.ctl)
        r == RequireStackValues(s, Results(blk.bt), TRUE)
    IN  IF blk.op = "if" /\ Params(blk.bt) # Results(blk.bt) THEN Refused(s)
        ELSE Then(r, [PopStackLimit(PushTypes(ResetAtStackLimit(r.s), Results(blk.bt))) EXCEPT !.ctl = Front(@)])

ValidateBr(s, i) ==
    IF ~HasLabel(s, i.k) THEN Refused(s)
    ELSE LET r == RequireStackValues(s, LabelTypes(Label(s, i.k)), FALSE) IN Then(r, MarkUnreachable(r.s))
ValidateBrIf(s, i) ==
    IF ~HasLabel(s, i.k) THEN Refused(s)
    ELSE LET c == PopAndVerifyType(s, "i32")
             ts == LabelTypes(Label(s, i.k))
             r == RequireStackValues(c.s, ts, FALSE)
         IN  IF c.ok THEN Then(r, PushTypes(r.s, ts)) ELSE Refused(s)

(* The types the default label takes are popped, an unknown one standing    *)
(* for any type of another label; every label takes as many.                *)
RECURSIVE PopLabelTypes(_, _)
PopLabelTypes(s, want) ==
    IF want = <<>> THEN [ok |-> TRUE, ts |-> <<>>, s |-> s]
    ELSE LET p == TryPop(s)
             rest == PopLabelTypes(p.s, Front(want))
         IN  [ok |-> p.ok /\ p.t \in {Unknown, Last(want)} /\ rest.ok, ts |-> Append(rest.ts, p.t), s |-> rest.s]
SameLabelTypes(ts, other) ==
    Len(ts) = Len(other) /\ \A j \in 1..Len(ts) : ts[j] \in {Unknown, other[j]}
ValidateBrTable(s, i) ==
    IF \E k \in ToSet(LabelsOf(i)) : ~HasLabel(s, k) THEN Refused(s)
    ELSE LET c == PopAndVerifyType(s, "i32")
             r == PopLabelTypes(c.s, LabelTypes(Label(s, i.k)))
         IN  IF c.ok /\ r.ok /\ \A k \in ToSet(i.ks) : SameLabelTypes(r.ts, LabelTypes(Label(s, k)))
             THEN Accepted(MarkUnreachable(r.s)) ELSE Refused(s)

ValidateReturn(s) == LET r == RequireStackValues(s, Results("fn"), FALSE) IN Then(r, MarkUnreachable(r.s))

(* The instructions without control flow: a constant of either width, drop, *)
(* and access to the function's one local, an i32.                          *)
ConstType(i) == IF i.op = "i32.const" THEN "i32" ELSE "v128"
ValidatePlain(s, i) ==
    CASE i.op \in {"i32.const", "v128.const"} -> Accepted(PushTypes(s, <<ConstType(i)>>))
      [] i.op = "drop" -> LET p == TryPop(s) IN Then(p, p.s)
      [] i.op = "local.get" -> Accepted(PushTypes(s, <<"i32">>))
      [] i.op = "local.set" -> LET p == PopAndVerifyType(s, "i32") IN Then(p, p.s)
=============================================================================
