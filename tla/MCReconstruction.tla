---------------------------- MODULE MCReconstruction ----------------------------
(***************************************************************************)
(* The assembler fed with every sequence of at most MaxRecords records.    *)
(*                                                                         *)
(* The producer declares a name once, before its first use. The run starts *)
(* after the declarations of most names, so that MaxRecords is spent on    *)
(* what the assembler does with them; the others are left to the run.      *)
(***************************************************************************)
EXTENDS Reconstruction

CONSTANTS e1, i1, i2, g1

MCInitial(mutable) ==
  [mems |-> {}, globals |-> {g1}, mutable |-> mutable, decodes |-> TRUE]

MCRecord(record, mutable, malformed) ==
  [t |-> "Event", what |-> "hostState", malformed |-> malformed,
   record |-> record, initial |-> MCInitial(mutable),
   mutation |-> [after |-> 1, writes |-> {}, sets |-> {g1}, decodes |-> TRUE]]

\* An initial record, a mutation (refused unless the initial record came
\* first), and a record the parser refuses.
MCHostRecords ==
  {MCRecord("initial", {g1}, FALSE), MCRecord("mutation", {}, FALSE),
   MCRecord("initial", {}, TRUE)}

Slot0(label, role) == [label |-> label, role |-> role, slot |-> 0]

Declared ==
  <<Slot0(e1, "arg"), Slot0(e1, "ret"), Slot0(i1, "arg"), Slot0(i1, "ret"),
    Slot0(i2, "arg")>>

MCInit ==
  /\ rebuilt = [newAssembler EXCEPT !.functions = <<e1>>, !.varNames = Declared]
  /\ pushed = 0
  /\ ended = FALSE

DeclaredOnce(names) == \A i, j \in DOMAIN names : names[i] = names[j] => i = j

MCNext == ReconstructionNext /\ DeclaredOnce(rebuilt'.functions) /\ DeclaredOnce(rebuilt'.varNames)

MCSpec == MCInit /\ [][MCNext]_asmVars
=============================================================================
