-------------------------- MODULE RecordingProofs --------------------------
(***************************************************************************)
(* The two ways a recording is read, from what AssemblerProofs shows of    *)
(* one record: reconstructCrossings over any sequence of records, and the  *)
(* streaming reader over every well-formed document, every size of read    *)
(* and every timing of the producer.                                       *)
(***************************************************************************)
EXTENDS Reconstruction, StreamReader, AssemblerProofs, SequenceTheorems

-----------------------------------------------------------------------------
(***************************************************************************)
(* reconstructCrossings.                                                   *)
(***************************************************************************)

\* What every record preserves: the type, the structure and the agreement of
\* the two witnesses, which together are inductive.
ReconstructionInv == TypeOK /\ StructureSound /\ WitnessesAgree

\* The reconstruction starts with it.
LEMMA ReconstructionInvStarts == ReconstructionInit => ReconstructionInv
<1>1. SUFFICES ASSUME ReconstructionInit PROVE ReconstructionInv
  OBVIOUS
<1>2. rebuilt = newAssembler /\ pushed = 0 /\ ended = FALSE
  BY <1>1 DEF ReconstructionInit
<1>3. Sound(rebuilt) /\ Witnessed(rebuilt) /\ Settled(rebuilt)
  BY <1>2, NewAssemblerSound
<1>4. TypeOK
  <2>1. 0 \in 0..MaxRecords
    BY ReconstructionAssumption
  <2>2. QED
    BY <1>2, <1>3, <2>1, Zenon DEF TypeOK, Sound
<1>5. StructureSound
  BY <1>3 DEF StructureSound, Sound, Structure
<1>6. WitnessesAgree
  BY <1>3 DEF WitnessesAgree, Witnessed, Bracketed
<1>7. QED
  BY <1>4, <1>5, <1>6 DEF ReconstructionInv

\* Every action either pushes one record or finishes.
LEMMA NextCases ==
  ASSUME ReconstructionInv, ReconstructionNext
  PROVE  /\ ~rebuilt.failed
         /\ \/ \E ev \in Record : Feed(ev)
            \/ Finish
<1>1. rebuilt.varNames \in Seq(Binding \cup {OtherBinding}) /\ rebuilt.functions \in Seq(Exports)
  BY DEF ReconstructionInv, TypeOK, Assemblers
<1>2. Len(rebuilt.varNames) \in Nat /\ Len(rebuilt.functions) \in Nat
  BY <1>1
<1>3. CASE FeedFunction
  BY <1>3 DEF FeedFunction, Feed, Record
<1>4. CASE FeedVariableName
  <2>1. PICK l \in Labels, r \in {"arg", "ret"}, n \in 0..(MaxSlots - 1) :
          Feed([t |-> "VariableName", binding |-> [label |-> l, role |-> r, slot |-> n]])
    BY <1>4 DEF FeedVariableName
  <2>2. [label |-> l, role |-> r, slot |-> n] \in Binding
    BY ReconstructionAssumption DEF Binding
  <2>3. [t |-> "VariableName", binding |-> [label |-> l, role |-> r, slot |-> n]] \in Record
    BY <2>2 DEF Record
  <2>4. QED
    BY <2>1, <2>3 DEF Feed
<1>5. CASE FeedOtherName
  <2>1. [t |-> "VariableName", binding |-> OtherBinding] \in Record
    BY DEF Record
  <2>2. QED
    BY <1>5, <2>1 DEF FeedOtherName, Feed
<1>6. CASE FeedValue
  <2>1. PICK n \in 1..(Len(rebuilt.varNames) + 1), v \in Vals :
          Feed([t |-> "Value", id |-> n, value |-> v])
    BY <1>6 DEF FeedValue
  <2>2. n \in Nat
    BY <1>2
  <2>3. [t |-> "Value", id |-> n, value |-> v] \in Record
    BY <2>2 DEF Record
  <2>4. QED
    BY <2>1, <2>3 DEF Feed
<1>7. CASE FeedCall
  <2>1. PICK n \in 1..(Len(rebuilt.functions) + 1) : Feed([t |-> "Call", id |-> n])
    BY <1>7 DEF FeedCall
  <2>2. n \in Nat
    BY <1>2
  <2>3. [t |-> "Call", id |-> n] \in Record
    BY <2>2 DEF Record
  <2>4. QED
    BY <2>1, <2>3 DEF Feed
<1>8. CASE FeedMarker
  BY <1>8 DEF FeedMarker, Feed, Record
<1>9. CASE FeedHostState
  BY <1>9, ReconstructionAssumption DEF FeedHostState, Feed, Record
<1>10. CASE FeedReturn
  <2>1. [t |-> "Return"] \in Record
    BY DEF Record
  <2>2. QED
    BY <1>10, <2>1 DEF FeedReturn, Feed
<1>11. CASE FeedDelimiter
  BY <1>11 DEF FeedDelimiter, Feed, Record
<1>12. CASE Finish
  BY <1>12 DEF Finish
<1>13. QED
  BY <1>3, <1>4, <1>5, <1>6, <1>7, <1>8, <1>9, <1>10, <1>11, <1>12 DEF ReconstructionNext

\* A step of the specification is a push or finish.
LEMMA StepStepped ==
  ASSUME ReconstructionInv, ReconstructionNext
  PROVE  Stepped(rebuilt, rebuilt') /\ pushed' \in 0..MaxRecords /\ ended' \in BOOLEAN
<1>1. ~rebuilt.failed /\ (Finish \/ \E ev \in Record : Feed(ev))
  BY NextCases
<1>2. Sound(rebuilt) /\ Witnessed(rebuilt)
  BY <1>1 DEF ReconstructionInv, TypeOK, StructureSound, Structure, Sound, WitnessesAgree,
              Witnessed, Bracketed
<1>3. pushed \in 0..MaxRecords /\ ended \in BOOLEAN /\ MaxRecords \in Nat
  BY ReconstructionAssumption DEF ReconstructionInv, TypeOK
<1>4. CASE Finish
  BY <1>2, <1>3, <1>4, FinishStepped DEF Finish
<1>5. CASE \E ev \in Record : Feed(ev)
  BY <1>2, <1>3, <1>5, PushStepped DEF Feed
<1>6. QED
  BY <1>1, <1>4, <1>5

\* Every step keeps the inductive invariant.
LEMMA ReconstructionInvKept == ReconstructionInv /\ [ReconstructionNext]_asmVars => ReconstructionInv'
<1>1. SUFFICES ASSUME ReconstructionInv, [ReconstructionNext]_asmVars PROVE ReconstructionInv'
  OBVIOUS
<1>2. CASE ReconstructionNext
  <2>1. Stepped(rebuilt, rebuilt') /\ pushed' \in 0..MaxRecords /\ ended' \in BOOLEAN
    BY <1>1, <1>2, StepStepped
  <2>2. TypeOK'
    BY <2>1 DEF TypeOK, Stepped
  <2>3. StructureSound'
    BY <2>1 DEF StructureSound, Stepped, Structure
  <2>4. WitnessesAgree'
    BY <2>1 DEF WitnessesAgree, Stepped, Witnessed, Bracketed
  <2>5. QED
    BY <2>2, <2>3, <2>4 DEF ReconstructionInv
<1>3. CASE UNCHANGED asmVars
  BY <1>1, <1>3 DEF asmVars, ReconstructionInv, TypeOK, StructureSound, WitnessesAgree
<1>4. QED
  BY <1>1, <1>2, <1>3

\* The inductive invariant holds throughout.
LEMMA ReconstructionInvHolds == ReconstructionSpec => []ReconstructionInv
BY ReconstructionInvStarts, ReconstructionInvKept, PTL DEF ReconstructionSpec

\* Whatever records arrive, the assembler's fields keep their types.
THEOREM TypeCorrect == ReconstructionSpec => []TypeOK
<1>1. ReconstructionInv => TypeOK
  BY DEF ReconstructionInv
<1>2. QED
  BY <1>1, ReconstructionInvHolds, PTL

\* Whatever records arrive, crossings, stack and group marks describe one
\* nesting of calls.
THEOREM StructureHolds == ReconstructionSpec => []StructureSound
<1>1. ReconstructionInv => StructureSound
  BY DEF ReconstructionInv
<1>2. QED
  BY <1>1, ReconstructionInvHolds, PTL

\* The witness of import edges the batch loader derives and the one the
\* streaming driver derives are the same, whatever records arrive.
THEOREM WitnessesAlwaysAgree == ReconstructionSpec => []WitnessesAgree
<1>1. ReconstructionInv => WitnessesAgree
  BY DEF ReconstructionInv
<1>2. QED
  BY <1>1, ReconstructionInvHolds, PTL

\* No completed call group holds two top-level exported calls, so the second
\* error branch of appendGroup is never taken.
THEOREM OneTopLevelExport == ReconstructionSpec => []OneTopLevelExportPerGroup
<1>1. ASSUME ReconstructionInv PROVE OneTopLevelExportPerGroup
  <2>1. SUFFICES ASSUME NEW g \in 1..Len(rebuilt.groupEnds),
                        NEW i \in GroupFirst(rebuilt, g)..rebuilt.groupEnds[g],
                        NEW j \in GroupFirst(rebuilt, g)..rebuilt.groupEnds[g],
                        IsTop(rebuilt.crossings[i]), IsTop(rebuilt.crossings[j]), i # j
                 PROVE  FALSE
    BY DEF OneTopLevelExportPerGroup
  <2>2. /\ rebuilt.groupEnds \in Seq(Nat) /\ Len(rebuilt.groupEnds) \in Nat
        /\ rebuilt.groupStart \in Nat /\ Len(rebuilt.crossings) \in Nat
    BY <1>1, SMTT(30) DEF ReconstructionInv, TypeOK, Assemblers
  <2>3. /\ rebuilt.groupStart <= Len(rebuilt.crossings)
        /\ \A x \in 1..Len(rebuilt.groupEnds) : rebuilt.groupEnds[x] \in 1..rebuilt.groupStart
        /\ \A x, y \in 1..Len(rebuilt.groupEnds) : x < y => rebuilt.groupEnds[x] < rebuilt.groupEnds[y]
    BY <1>1 DEF ReconstructionInv, StructureSound, GroupsDelimited
  <2>4. /\ GroupFirst(rebuilt, g) \in Nat \ {0}
        /\ g # 1 => g - 1 \in 1..Len(rebuilt.groupEnds)
        /\ g # 1 => GroupFirst(rebuilt, g) = rebuilt.groupEnds[g - 1] + 1
    <3>1. g # 1 => g - 1 \in 1..Len(rebuilt.groupEnds)
      BY <2>2
    <3>2. g # 1 => GroupFirst(rebuilt, g) = rebuilt.groupEnds[g - 1] + 1
      BY DEF GroupFirst
    <3>3. g # 1 => rebuilt.groupEnds[g - 1] \in 1..rebuilt.groupStart
      BY <2>3, <3>1
    <3>4. ASSUME g # 1 PROVE GroupFirst(rebuilt, g) \in Nat \ {0}
      <4> DEFINE e == rebuilt.groupEnds[g - 1]
                 start == rebuilt.groupStart
      <4>1. e \in 1..start /\ start \in Nat
        BY <2>2, <3>3, <3>4
      <4>2. GroupFirst(rebuilt, g) = e + 1
        BY <3>2, <3>4
      <4> HIDE DEF e, start
      <4>3. e + 1 \in Nat \ {0}
        BY <4>1
      <4>4. QED
        BY <4>2, <4>3
    <3>5. g = 1 => GroupFirst(rebuilt, g) = 1
      BY DEF GroupFirst
    <3>6. QED
      BY <3>1, <3>2, <3>4, <3>5
  <2>5. /\ i \in 1..Len(rebuilt.crossings) /\ j \in 1..Len(rebuilt.crossings)
        /\ GroupFirst(rebuilt, g) <= i /\ i <= rebuilt.groupEnds[g]
        /\ GroupFirst(rebuilt, g) <= j /\ j <= rebuilt.groupEnds[g]
    <3> DEFINE first == GroupFirst(rebuilt, g)
               last == rebuilt.groupEnds[g]
               start == rebuilt.groupStart
               n == Len(rebuilt.crossings)
    <3>1. last \in 1..start
      BY <2>3
    <3>2. start <= n
      BY <2>3
    <3>3. first \in Nat \ {0} /\ n \in Nat /\ start \in Nat
      BY <2>2, <2>4
    <3>4. i \in first..last /\ j \in first..last
      OBVIOUS
    <3> HIDE DEF first, last, start, n
    <3>5. i \in 1..n /\ j \in 1..n /\ first <= i /\ i <= last /\ first <= j /\ j <= last
      BY <3>1, <3>2, <3>3, <3>4
    <3>6. QED
      BY <3>5 DEF first, last, n
  <2>6. ASSUME NEW x \in 1..Len(rebuilt.crossings), NEW y \in 1..Len(rebuilt.crossings), x < y,
               IsTop(rebuilt.crossings[x]), IsTop(rebuilt.crossings[y]),
               GroupFirst(rebuilt, g) <= x, y <= rebuilt.groupEnds[g]
        PROVE  FALSE
    <3>1. PICK h \in 1..Len(rebuilt.groupEnds) : x <= rebuilt.groupEnds[h] /\ rebuilt.groupEnds[h] < y
      BY <1>1, <2>6 DEF ReconstructionInv, StructureSound, TopsSeparated
    <3>2. rebuilt.groupEnds[h] \in Nat /\ rebuilt.groupEnds[g] \in Nat
      BY <2>2, Elements, Zenon
    <3>3. rebuilt.groupEnds[h] < rebuilt.groupEnds[g]
      BY <2>6, <3>1, <3>2, SMTT(30)
    <3>4. h < g
      <4>1. ~(g < h)
        BY <2>3, <3>2, <3>3, SMTT(30)
      <4>2. g # h
        BY <3>2, <3>3
      <4>3. QED
        BY <2>2, <4>1, <4>2
    <3>5. g # 1 /\ g - 1 \in 1..Len(rebuilt.groupEnds) /\ (h = g - 1 \/ h < g - 1)
      BY <2>2, <2>4, <3>4, SMTT(30)
    <3>6. rebuilt.groupEnds[h] <= rebuilt.groupEnds[g - 1] /\ rebuilt.groupEnds[g - 1] \in Nat
      <4>1. rebuilt.groupEnds[g - 1] \in Nat
        <5>1. rebuilt.groupEnds[g - 1] \in 1..rebuilt.groupStart
          BY <2>3, <3>5
        <5>2. QED
          BY <2>2, <5>1, SMTT(30)
      <4>2. CASE h = g - 1
        BY <3>2, <4>1, <4>2, SMTT(30)
      <4>3. CASE h < g - 1
        <5>1. rebuilt.groupEnds[h] < rebuilt.groupEnds[g - 1]
          BY <2>3, <3>5, <4>3
        <5>2. QED
          BY <3>2, <4>1, <5>1, SMTT(30)
      <4>4. QED
        BY <3>5, <4>2, <4>3
    <3>7. x \in Int /\ rebuilt.groupEnds[g - 1] + 1 <= x
      BY <2>4, <2>6, <3>5, SMTT(30)
    <3>8. x <= rebuilt.groupEnds[h]
      BY <3>1
    <3> DEFINE eh == rebuilt.groupEnds[h]
               eg == rebuilt.groupEnds[g - 1]
    <3>9. x \in Int /\ eg + 1 <= x /\ x <= eh /\ eh <= eg /\ eh \in Nat /\ eg \in Nat
      BY <3>2, <3>6, <3>7, <3>8
    <3> HIDE DEF eh, eg
    <3>10. QED
      BY <3>9
  <2>7. CASE i < j
    BY <2>1, <2>5, <2>6, <2>7
  <2>8. CASE j < i
    BY <2>1, <2>5, <2>6, <2>8
  <2>9. i < j \/ j < i
    BY <2>1, <2>2, <2>5
  <2>10. QED
    BY <2>7, <2>8, <2>9
<1>2. QED
  BY <1>1, ReconstructionInvHolds, PTL

\* Once a call group is delimited no later record changes it, so a group that
\* NextGroup has handed out stays as it was.
THEOREM GroupsStayFrozen == ReconstructionSpec => GroupsFrozen
<1>1. ASSUME ReconstructionInv, [ReconstructionNext]_asmVars
      PROVE  [ /\ \A i \in 1..rebuilt.groupStart :
                    i \in DOMAIN rebuilt'.crossings /\ rebuilt'.crossings[i] = rebuilt.crossings[i]
               /\ \A g \in 1..Len(rebuilt.groupEnds) :
                    g \in DOMAIN rebuilt'.groupEnds /\ rebuilt'.groupEnds[g] = rebuilt.groupEnds[g]
             ]_asmVars
  <2>1. CASE ReconstructionNext
    BY <1>1, <2>1, StepStepped DEF Stepped, Frozen
  <2>2. CASE UNCHANGED asmVars
    BY <2>2
  <2>3. QED
    BY <1>1, <2>1, <2>2
<1>2. QED
  BY <1>1, ReconstructionInvHolds, PTL DEF ReconstructionSpec, GroupsFrozen

-----------------------------------------------------------------------------
(***************************************************************************)
(* The streaming reader: the groups NextGroup hands out are those          *)
(* LoadRecording would find, and the end it reports is the end the file    *)
(* has.                                                                    *)
(*                                                                         *)
(* First, the assembler LoadRecording holds, unit by unit.                 *)
(***************************************************************************)

Good(a) == Sound(a) /\ (~a.failed => Witnessed(a))

\* A sound assembler's fields.
LEMMA Fields ==
  ASSUME NEW a, Sound(a)
  PROVE  /\ a.crossings \in Seq(Crossing) /\ a.groupEnds \in Seq(Nat)
         /\ Len(a.crossings) \in Nat /\ Len(a.groupEnds) \in Nat /\ a.groupStart \in Nat
         /\ a.groupStart <= Len(a.crossings)
         /\ \A k \in 1..Len(a.groupEnds) : a.groupEnds[k] \in 1..a.groupStart
         /\ a.groupEnds # <<>> => a.groupStart = a.groupEnds[Len(a.groupEnds)]
         /\ a.groupEnds = <<>> => a.groupStart = 0
         /\ a.failed \in BOOLEAN
<1>1. a \in Assemblers /\ GroupsDelimited(a)
  BY DEF Sound, Structure
<1>2. /\ a.crossings \in Seq(Crossing) /\ a.groupEnds \in Seq(Nat)
      /\ a.groupStart \in Nat /\ a.failed \in BOOLEAN
  BY <1>1 DEF Assemblers
<1>3. QED
  BY <1>1, <1>2 DEF GroupsDelimited

LEMMA FrozenReflexive == ASSUME NEW a, Sound(a) PROVE Frozen(a, a)
<1>1. DOMAIN a.crossings = 1..Len(a.crossings) /\ DOMAIN a.groupEnds = 1..Len(a.groupEnds)
  BY Fields
<1>2. \A i \in 1..a.groupStart : i \in 1..Len(a.crossings)
  BY Fields
<1>3. QED
  BY <1>1, <1>2 DEF Frozen

LEMMA FrozenTransitive ==
  ASSUME NEW a, Sound(a), NEW b, Sound(b), NEW c,
         Frozen(a, b), Frozen(b, c)
  PROVE  Frozen(a, c)
<1>1. DOMAIN b.groupEnds = 1..Len(b.groupEnds)
  BY Fields
<1>2. a.groupStart \in Nat /\ b.groupStart \in Nat /\ a.groupStart <= b.groupStart
  <2>1. CASE a.groupEnds = <<>>
    BY <2>1, Fields
  <2>2. CASE a.groupEnds # <<>>
    <3>1. Len(a.groupEnds) \in 1..Len(a.groupEnds)
      BY <2>2, Fields
    <3>2. Len(a.groupEnds) \in 1..Len(b.groupEnds)
          /\ b.groupEnds[Len(a.groupEnds)] = a.groupEnds[Len(a.groupEnds)]
      BY <1>1, <3>1 DEF Frozen
    <3>3. b.groupEnds[Len(a.groupEnds)] \in 1..b.groupStart
      BY <3>2, Fields, SMTT(30)
    <3>4. a.groupStart = a.groupEnds[Len(a.groupEnds)] /\ a.groupStart \in Nat /\ b.groupStart \in Nat
      BY <2>2, Fields
    <3>5. QED
      BY <3>2, <3>3, <3>4
  <2>3. QED
    BY <2>1, <2>2
<1>3. \A i \in 1..a.groupStart : i \in 1..b.groupStart
  BY <1>2
<1>4. QED
  BY <1>1, <1>3 DEF Frozen

\* A group that is delimited stays as it is.
LEMMA FrozenGroups ==
  ASSUME NEW a, Sound(a), NEW b, Sound(b), Frozen(a, b)
  PROVE  /\ Len(a.groupEnds) <= Len(b.groupEnds)
         /\ \A k \in 1..Len(a.groupEnds) : group(b, k) = group(a, k)
<1>1. /\ DOMAIN b.groupEnds = 1..Len(b.groupEnds) /\ DOMAIN b.crossings = 1..Len(b.crossings)
      /\ Len(b.groupEnds) \in Nat /\ Len(a.groupEnds) \in Nat
  BY Fields
<1>2. Len(a.groupEnds) <= Len(b.groupEnds)
  <2>1. Len(a.groupEnds) > 0 => Len(a.groupEnds) \in 1..Len(b.groupEnds)
    BY <1>1 DEF Frozen
  <2>2. QED
    BY <1>1, <2>1
<1>3. ASSUME NEW k \in 1..Len(a.groupEnds)
      PROVE  group(b, k) = group(a, k)
  <2> DEFINE f == GroupFirst(a, k)
             e == a.groupEnds[k]
  <2>1. b.groupEnds[k] = e /\ GroupFirst(b, k) = f
    <3>1. k # 1 => k - 1 \in 1..Len(a.groupEnds)
      BY <1>1
    <3>2. QED
      BY <3>1 DEF Frozen, GroupFirst
  <2>2. e \in 1..a.groupStart /\ f \in Nat \ {0}
    <3>1. e \in 1..a.groupStart
      BY Fields
    <3>2. k # 1 => a.groupEnds[k - 1] \in 1..a.groupStart
      BY <1>1, Fields
    <3>3. a.groupStart \in Nat
      BY Fields
    <3>4. QED
      BY <3>1, <3>2, <3>3 DEF GroupFirst
  <2>3. \A i \in f..e : b.crossings[i] = a.crossings[i]
    <3>1. a.groupStart \in Nat
      BY Fields
    <3> HIDE DEF f, e
    <3>2. \A i \in f..e : i \in 1..a.groupStart
      BY <2>2, <3>1
    <3>3. QED
      BY <3>2 DEF Frozen
  <2>4. group(a, k) = SubSeq(a.crossings, f, e) /\ group(b, k) = SubSeq(b.crossings, f, e)
    BY <2>1 DEF group
  <2> HIDE DEF f, e
  <2>5. SubSeq(a.crossings, f, e) = SubSeq(b.crossings, f, e)
    <3>1. a.groupStart \in Nat
      BY Fields
    <3>2. f \in Int /\ e \in Int
      BY <2>2, <3>1
    <3>3. \A i \in 1..(1 + e - f) : i + f - 1 \in f..e
      BY <3>2
    <3>4. QED
      BY <2>3, <3>2, <3>3 DEF SubSeq
  <2>6. QED
    BY <2>4, <2>5
<1>4. QED
  BY <1>2, <1>3

\* One unit keeps the assembler good and the groups it has delimited.
LEMMA LoadedKeeps ==
  ASSUME NEW a, Good(a), NEW u \in Unit
  PROVE  Good(Loaded(a, u)) /\ Frozen(a, Loaded(a, u))
<1>1. Sound(a)
  BY DEF Good
<1>2. CASE a.failed \/ u.u # "tail"
  BY <1>1, <1>2, FrozenReflexive DEF Loaded
<1>3. CASE ~a.failed /\ u.u = "tail" /\ u.rec = Undecodable
  <2>1. Loaded(a, u) = Fail(a)
    BY <1>3 DEF Loaded
  <2>2. Preserved(a, Fail(a)) /\ Fail(a).failed
    BY <1>1, FailKeeps
  <2>3. Sound(Fail(a))
    BY <2>2, PreservedIsSound
  <2>4. Frozen(a, Fail(a))
    BY <1>1, <2>2, <2>3, KeepsFrozen
    DEF Preserved, Sound, Structure
  <2>5. QED
    BY <2>1, <2>2, <2>3, <2>4 DEF Good
<1>4. CASE ~a.failed /\ u.u = "tail" /\ u.rec # Undecodable
  <2>1. Loaded(a, u) = push(a, u.rec)
    BY <1>4 DEF Loaded
  <2>2. u.rec \in Record
    BY <1>4 DEF Unit
  <2>3. Stepped(a, push(a, u.rec))
    BY <1>1, <1>4, <2>2, PushStepped DEF Good
  <2>4. QED
    BY <2>1, <2>3 DEF Stepped, Good, Sound
<1>5. QED
  BY <1>2, <1>3, <1>4

LEMMA FinishKeeps ==
  ASSUME NEW a, Good(a), ~a.failed
  PROVE  /\ Good(finish(a)) /\ Frozen(a, finish(a))
         /\ ~finish(a).failed => ~ExportOpen(a)
         /\ finish(a).failed => ExportOpen(a) \/ closeRun(a).failed
<1>1. Sound(a) /\ Witnessed(a)
  BY DEF Good
<1>2. Stepped(a, finish(a))
  BY <1>1, FinishStepped
<1>3. ExportOpen(a) <=> ExportOpen(a)
  BY DEF ExportOpen, ExportOpen
<1>4. QED
  BY <1>1, <1>2, <1>3, FinishOutcome
  DEF Stepped, Good, Sound

\* The recursion of BatchOf has a solution.
IsBatch(d, n, f) ==
  /\ DOMAIN f = 0..n
  /\ f[0] = newAssembler
  /\ \A m \in 1..n : f[m] = Loaded(f[m - 1], d[m])

LEMMA BatchExists ==
  ASSUME NEW d, NEW n \in Nat
  PROVE  \E f : IsBatch(d, n, f)
<1> DEFINE T == {m \in Nat : ~ \E f : IsBatch(d, m, f)}
<1> SUFFICES ASSUME T # {} PROVE FALSE
  OBVIOUS
<1>1. PICK m \in T : \A k \in T : m <= k
  BY MinExists, Zenon
<1>2. m # 0
  <2> DEFINE f == [k \in 0..0 |-> newAssembler]
  <2>1. IsBatch(d, 0, f)
    BY DEF IsBatch
  <2>2. QED
    BY <1>1, <2>1
<1>3. m - 1 \in Nat /\ m - 1 \notin T
  BY <1>1, <1>2
<1>4. PICK f : IsBatch(d, m - 1, f)
  BY <1>3
<1> DEFINE g == [k \in 0..m |-> IF k = m THEN Loaded(f[m - 1], d[m]) ELSE f[k]]
<1>5. IsBatch(d, m, g)
  <2>1. m \in Nat /\ 0 \in 0..m /\ m \in 0..m /\ m - 1 \in 0..m
    BY <1>2
  <2>2. g[0] = newAssembler
    BY <1>2, <1>4, <2>1 DEF IsBatch
  <2>3. ASSUME NEW k \in 1..m PROVE g[k] = Loaded(g[k - 1], d[k])
    <3>1. k \in 0..m /\ k - 1 \in 0..m /\ k - 1 # m
      BY <2>1
    <3>2. g[k - 1] = f[k - 1]
      BY <3>1
    <3>3. CASE k = m
      BY <3>1, <3>2, <3>3
    <3>4. CASE k # m
      <4>1. k \in 1..(m - 1)
        BY <2>1, <3>4
      <4>2. f[k] = Loaded(f[k - 1], d[k])
        BY <1>4, <4>1 DEF IsBatch
      <4>3. QED
        BY <3>1, <3>2, <3>4, <4>2
    <3>5. QED
      BY <3>3, <3>4
  <2>4. DOMAIN g = 0..m
    OBVIOUS
  <2> HIDE DEF g
  <2>5. QED
    BY <2>2, <2>3, <2>4 DEF IsBatch
<1>6. QED
  BY <1>1, <1>5

LEMMA BatchUnfolds ==
  ASSUME NEW d \in Documents
  PROVE  IsBatch(d, Len(d), BatchOf(d))
<1>1. Len(d) \in Nat
  BY StreamAssumption
<1>2. PICK f : IsBatch(d, Len(d), f)
  BY <1>1, BatchExists
<1> DEFINE Body(g) == [n \in 0..Len(d) |->
                         IF n = 0 THEN newAssembler ELSE Loaded(g[n - 1], d[n])]
           g0 == [n \in 0..Len(d) |-> f[n]]
<1>3. g0 = Body(g0)
  <2>1. ASSUME NEW n \in 0..Len(d)
        PROVE  f[n] = IF n = 0 THEN newAssembler ELSE Loaded(g0[n - 1], d[n])
    <3>1. CASE n = 0
      BY <1>2, <3>1 DEF IsBatch
    <3>2. CASE n # 0
      <4>1. n \in 1..Len(d) /\ n - 1 \in 0..Len(d)
        BY <1>1, <3>2
      <4>2. QED
        BY <1>2, <3>2, <4>1 DEF IsBatch
    <3>3. QED
      BY <3>1, <3>2
  <2>2. QED
    BY <2>1
<1>4. BatchOf(d) = CHOOSE g : g = Body(g)
  BY DEF BatchOf
<1> HIDE DEF g0
<1>5. BatchOf(d) = Body(BatchOf(d))
  <2>1. \E g : g = Body(g)
    BY <1>3
  <2> HIDE DEF Body
  <2>2. QED
    BY <1>4, <2>1
<1>6. \A n \in 0..Len(d) :
        BatchOf(d)[n] = IF n = 0 THEN newAssembler ELSE Loaded(BatchOf(d)[n - 1], d[n])
  BY <1>5, SMTT(30)
<1>7. DOMAIN BatchOf(d) = 0..Len(d)
  BY <1>5
<1>8. 0 \in 0..Len(d) /\ \A m \in 1..Len(d) : m \in 0..Len(d) /\ m # 0
  BY <1>1
<1>9. QED
  BY <1>6, <1>7, <1>8 DEF IsBatch

\* The batch after n units.
LEMMA BatchStep ==
  ASSUME NEW d \in Documents
  PROVE  /\ Len(d) \in Nat
         /\ BatchOf(d)[0] = newAssembler
         /\ \A n \in 1..Len(d) :
              /\ d[n] \in Unit
              /\ n - 1 \in 0..Len(d)
              /\ BatchOf(d)[n] = Loaded(BatchOf(d)[n - 1], d[n])
<1>1. d \in Seq(Unit) /\ Len(d) \in Nat
  BY StreamAssumption
<1>2. \A n \in 1..Len(d) : d[n] \in Unit /\ n - 1 \in 0..Len(d)
  BY <1>1
<1>3. QED
  BY <1>1, <1>2, BatchUnfolds DEF IsBatch

LEMMA BatchGood ==
  ASSUME NEW d \in Documents, NEW n \in 0..Len(d)
  PROVE  Good(BatchOf(d)[n])
<1> DEFINE T == {m \in 0..Len(d) : ~Good(BatchOf(d)[m])}
<1> SUFFICES ASSUME T # {} PROVE FALSE
  OBVIOUS
<1>1. Len(d) \in Nat
  BY BatchStep
<1>2. PICK m \in T : \A k \in T : m <= k
  <2>1. T \subseteq Nat
    BY <1>1
  <2> HIDE DEF T
  <2>2. QED
    BY <2>1, MinExists, Zenon
<1>3. m # 0
  <2>1. Good(newAssembler)
    BY NewAssemblerSound DEF Good
  <2>2. QED
    BY <1>2, <2>1, BatchStep
<1>4. m \in 1..Len(d) /\ m - 1 \in 0..Len(d) /\ m - 1 < m
  BY <1>1, <1>2, <1>3
<1>5. Good(BatchOf(d)[m - 1])
  BY <1>1, <1>2, <1>4
<1>6. Good(BatchOf(d)[m])
  BY <1>4, <1>5, BatchStep, LoadedKeeps
<1>7. QED
  BY <1>2, <1>6

LEMMA BatchFrozen ==
  ASSUME NEW d \in Documents, NEW m \in 0..Len(d), NEW n \in 0..Len(d), m <= n
  PROVE  Frozen(BatchOf(d)[m], BatchOf(d)[n])
<1> DEFINE T == {k \in m..Len(d) : ~Frozen(BatchOf(d)[m], BatchOf(d)[k])}
<1>1. Len(d) \in Nat /\ m \in Nat /\ n \in m..Len(d)
  BY BatchStep
<1> SUFFICES ASSUME T # {} PROVE FALSE
  BY <1>1
<1>2. PICK k \in T : \A j \in T : k <= j
  <2>1. T \subseteq Nat
    BY <1>1
  <2> HIDE DEF T
  <2>2. QED
    BY <2>1, MinExists, Zenon
<1>3. Sound(BatchOf(d)[m])
  BY BatchGood DEF Good
<1>4. k # m
  BY <1>2, <1>3, FrozenReflexive
<1>5. /\ k \in 1..Len(d) /\ k - 1 \in 0..Len(d)
      /\ k - 1 \in m..Len(d) /\ k - 1 < k
  BY <1>1, <1>2, <1>4
<1>6. Frozen(BatchOf(d)[m], BatchOf(d)[k - 1])
  BY <1>1, <1>2, <1>5
<1>7. Good(BatchOf(d)[k - 1])
  BY <1>5, BatchGood
<1>8. Frozen(BatchOf(d)[k - 1], BatchOf(d)[k])
  BY <1>5, <1>7, BatchStep, LoadedKeeps
<1>9. Frozen(BatchOf(d)[m], BatchOf(d)[k])
  BY <1>3, <1>6, <1>7, <1>8, FrozenTransitive DEF Good
<1>10. QED
  BY <1>2, <1>9

\* What the units after the closing bracket leave of it.
LEMMA BatchClosed ==
  ASSUME NEW d \in Documents, NEW m \in 0..Len(d), NEW c \in 1..m, d[c].u = "close"
  PROVE  BatchOf(d)[Len(d)] = BatchOf(d)[m]
<1> DEFINE T == {k \in m..Len(d) : BatchOf(d)[k] # BatchOf(d)[m]}
<1>1. Len(d) \in Nat /\ m \in Nat /\ Len(d) \in m..Len(d)
  BY BatchStep
<1> SUFFICES ASSUME T # {} PROVE FALSE
  BY <1>1
<1>2. PICK k \in T : \A j \in T : k <= j
  <2>1. T \subseteq Nat
    BY <1>1
  <2> HIDE DEF T
  <2>2. QED
    BY <2>1, MinExists, Zenon
<1>3. k # m
  BY <1>2
<1>4. /\ k \in 1..Len(d) /\ c \in 1..Len(d) /\ c < k
      /\ k - 1 \in m..Len(d) /\ k - 1 < k
  BY <1>1, <1>2, <1>3
<1>5. BatchOf(d)[k - 1] = BatchOf(d)[m]
  BY <1>1, <1>2, <1>4
<1>6. d[k].u # "tail"
  BY <1>4, StreamAssumption DEF WellFormed
<1>7. BatchOf(d)[k] = BatchOf(d)[k - 1]
  <2>1. BatchOf(d)[k] = Loaded(BatchOf(d)[k - 1], d[k])
    BY <1>4, BatchStep
  <2>2. QED
    BY <1>6, <2>1 DEF Loaded
<1>8. QED
  BY <1>2, <1>5, <1>7

\* What LoadRecording ends with.
Complete(d) ==
  LET whole == BatchOf(d)[Len(d)] IN IF whole.failed THEN whole ELSE finish(whole)

\* Every group found on the way is a group of it.
LEMMA BatchGroups ==
  ASSUME NEW d \in Documents, NEW n \in 0..Len(d)
  PROVE  /\ Sound(Complete(d))
         /\ Len(BatchOf(d)[n].groupEnds) <= Len(Complete(d).groupEnds)
         /\ \A k \in 1..Len(BatchOf(d)[n].groupEnds) :
              group(Complete(d), k) = group(BatchOf(d)[n], k)
<1> DEFINE a == BatchOf(d)[n]
           w == BatchOf(d)[Len(d)]
<1>1. Len(d) \in 0..Len(d) /\ n <= Len(d)
  BY BatchStep
<1>2. Good(a) /\ Good(w) /\ Frozen(a, w)
  BY <1>1, BatchGood, BatchFrozen
<1>3. Complete(d) = IF w.failed THEN w ELSE finish(w)
  BY DEF Complete
<1> HIDE DEF a, w
<1>4. Sound(Complete(d)) /\ Frozen(w, Complete(d))
  BY <1>2, <1>3, FinishKeeps, FrozenReflexive DEF Good
<1>5. Frozen(a, Complete(d))
  BY <1>2, <1>4, FrozenTransitive DEF Good
<1>6. QED
  BY <1>2, <1>4, <1>5, FrozenGroups DEF Good, a

-----------------------------------------------------------------------------
(***************************************************************************)
(* The inductive invariant.                                                *)
(***************************************************************************)

\* The units the scanner has examined.
Examined == pos - Len(chunk)

Failures == {"scan", "record", "io", "midRecord", "midCrossing", "finish", "unterminated"}

TypeInv ==
  /\ doc \in Documents
  /\ written \in 0..Len(doc) /\ pos \in 0..written
  /\ done \in BOOLEAN /\ eof \in BOOLEAN /\ closed \in BOOLEAN
  /\ pc \in {"caller", "loop", "read", "select", "last", "drain"}
  /\ chunk \in Seq(Unit)
  /\ scan \in [started : BOOLEAN, done : BOOLEAN, inElem : BOOLEAN]
  /\ got \in Seq(Seq(Crossing)) /\ next = Len(got)
  /\ failed \in Failures \cup {NoError}

\* The chunk is the part of the document before the reader's position.
ChunkInv ==
  /\ Len(chunk) <= pos
  /\ \A i \in 1..Len(chunk) : chunk[i] = doc[Examined + i]

\* Where the goroutine can be.
FlowInv ==
  /\ failed # NoError => pc = "caller"
  /\ failed = NoError /\ chunk # <<>> => pc = "drain" \/ scan.done
  /\ pc = "last" => done
  /\ eof => done /\ pos = written /\ pc \in {"caller", "loop"}
  /\ closed => eof

\* The scanner has seen the first n units of document d: it takes none after
\* the bracket that closes the array.
ScanInv(d, s, n) ==
  /\ s.started <=> n > 0
  /\ s.inElem <=> n > 0 /\ d[n].u = "head"
  /\ s.done <=> \E m \in 1..n : d[m].u = "close"
  /\ s.done => n > 0 /\ d[n].u = "close"

\* Until the end the assembler is the one LoadRecording would hold after the
\* units examined; past an orderly end it is the one it would end with.
AsmInv ==
  failed = NoError =>
    /\ ScanInv(doc, scan, Examined)
    /\ ~asm.failed
    /\ ~closed => asm = BatchOf(doc)[Examined]
    /\ closed => /\ scan.done
                 /\ ~BatchOf(doc)[written].failed
                 /\ asm = finish(BatchOf(doc)[written])
                 /\ asm = Complete(doc)

GotInv ==
  /\ failed = NoError => next <= Len(asm.groupEnds)
  /\ Len(got) <= Len(Complete(doc).groupEnds)
  /\ \A k \in 1..Len(got) : got[k] = group(Complete(doc), k)

Terminated == \E n \in 1..written : doc[n].u = "close"
CutInRecord == written > 0 /\ doc[written].u = "head" /\ ~Terminated

\* Unit n cannot stand where it is in an array of records.
Misplaced(n) ==
  IF n = 1 THEN doc[n].u # "open"
  ELSE \/ doc[n - 1].u = "close"
       \/ doc[n - 1].u # "head" /\ doc[n].u \notin {"head", "close"}

\* What the report r says of the file.
EndInv(r) ==
  /\ r \in {"EOF", "midRecord", "midCrossing", "unterminated"} => eof
  /\ r = "EOF" => closed /\ failed = NoError /\ next = Len(asm.groupEnds)
  /\ r = "scan" => \E n \in 1..pos : Misplaced(n)
  /\ r = "midRecord" => CutInRecord
  /\ r = "midCrossing" =>
       /\ ~CutInRecord
       /\ \/ ExportOpen(BatchOf(doc)[written])
          \/ /\ BatchOf(doc)[written].stack # <<>>
             /\ closeRun(BatchOf(doc)[written]).failed
  /\ r = "unterminated" =>
       ~CutInRecord /\ ~ExportOpen(BatchOf(doc)[written]) /\ ~Terminated

IInv ==
  /\ TypeInv /\ ChunkInv /\ FlowInv /\ AsmInv /\ GotInv
  /\ EndInv(result) /\ EndInv(failed)

LEMMA NotAnError == NoError \notin Failures \cup {"EOF", "group"}
BY DEF NoError, Failures

LEMMA InitIInv == Init => IInv
<1> SUFFICES ASSUME Init PROVE IInv
  OBVIOUS
<1>1. Len(doc) \in Nat /\ doc \in Documents
  BY BatchStep DEF Init
<1>2. TypeInv
  <2>1. chunk \in Seq(Unit) /\ got \in Seq(Seq(Crossing)) /\ next = Len(got)
    BY DEF Init
  <2>2. scan \in [started : BOOLEAN, done : BOOLEAN, inElem : BOOLEAN]
    BY DEF Init, newScanner
  <2>3. done \in BOOLEAN /\ eof \in BOOLEAN /\ closed \in BOOLEAN
    BY Zenon DEF Init
  <2>4. written \in 0..Len(doc) /\ pos \in 0..written
    BY <1>1 DEF Init
  <2>5. QED
    BY <1>1, <2>1, <2>2, <2>3, <2>4 DEF Init, TypeInv
<1>3. ChunkInv /\ Examined = 0
  <2>1. Len(chunk) = 0 /\ pos = 0
    BY DEF Init
  <2>2. QED
    BY <2>1 DEF ChunkInv, Examined
<1>4. FlowInv
  BY DEF Init, FlowInv
<1>5. AsmInv
  <2>1. asm = BatchOf(doc)[0] /\ ~asm.failed
    BY <1>1, BatchStep, Zenon DEF Init, newAssembler
  <2>2. ScanInv(doc, scan, 0)
    BY DEF Init, newScanner, ScanInv
  <2>3. QED
    BY <1>3, <2>1, <2>2 DEF Init, AsmInv
<1>6. GotInv
  <2>1. asm.groupEnds = <<>>
    BY DEF Init, newAssembler
  <2>2. Len(Complete(doc).groupEnds) \in Nat
    <3>1. 0 \in 0..Len(doc)
      BY <1>1
    <3>2. QED
      BY <1>1, <3>1, BatchGroups, Fields
  <2>3. QED
    BY <2>1, <2>2 DEF Init, GotInv
<1>7. EndInv(result) /\ EndInv(failed)
  BY NotAnError DEF Init, EndInv, Failures
<1>8. QED
  BY <1>2, <1>3, <1>4, <1>5, <1>6, <1>7 DEF IInv

\* jsonArrayScanner.next on the unit after the first n.
LEMMA ScannedInv ==
  ASSUME NEW d \in Documents, NEW n \in Nat, n + 1 <= Len(d),
         NEW s \in [started : BOOLEAN, done : BOOLEAN, inElem : BOOLEAN],
         ScanInv(d, s, n), ~ScanFails(s, d[n + 1])
  PROVE  /\ Scanned(s, d[n + 1]) \in [started : BOOLEAN, done : BOOLEAN, inElem : BOOLEAN]
         /\ ScanInv(d, Scanned(s, d[n + 1]), n + 1)
<1> DEFINE u == d[n + 1]
           t == Scanned(s, u)
<1>1. (\E m \in 1..(n + 1) : d[m].u = "close") <=> (\E m \in 1..n : d[m].u = "close") \/ u.u = "close"
  <2>1. \A m : m \in 1..(n + 1) <=> m \in 1..n \/ m = n + 1
    OBVIOUS
  <2>2. QED
    BY <2>1
<1>2. n + 1 > 0 /\ (n > 0 <=> n # 0)
  OBVIOUS
<1>3. CASE ~s.started
  <2>1. u.u = "open" /\ n = 0
    BY <1>3 DEF ScanFails, ScanInv
  <2>2. t = [s EXCEPT !.started = TRUE]
    BY <1>3 DEF Scanned
  <2>3. u.u # "close" /\ u.u # "head" /\ ~s.inElem /\ ~s.done
    BY <1>2, <2>1 DEF ScanInv
  <2>4. t.started = TRUE /\ t.inElem = s.inElem /\ t.done = s.done
    BY <2>2
  <2>5. t \in [started : BOOLEAN, done : BOOLEAN, inElem : BOOLEAN]
    BY <2>2, Zenon
  <2>6. QED
    BY <1>1, <1>2, <2>3, <2>4, <2>5, Zenon DEF ScanInv
<1>4. CASE s.started /\ ~s.inElem
  <2>1. u.u \in {"close", "head"} /\ ~s.done
    BY <1>4 DEF ScanFails
  <2>2. CASE u.u = "close"
    <3>1. t = [s EXCEPT !.done = TRUE] /\ u.u # "head"
      BY <1>4, <2>2 DEF Scanned
    <3>2. t.started = s.started /\ t.inElem = s.inElem /\ t.done = TRUE
      BY <3>1
    <3>3. t \in [started : BOOLEAN, done : BOOLEAN, inElem : BOOLEAN]
      BY <3>1, Zenon
    <3>4. QED
      BY <1>1, <1>2, <1>4, <2>1, <2>2, <3>1, <3>2, <3>3, Zenon DEF ScanInv
  <2>3. CASE u.u = "head"
    <3>1. t = [s EXCEPT !.inElem = TRUE] /\ u.u # "close"
      BY <1>4, <2>3 DEF Scanned
    <3>2. t.started = s.started /\ t.inElem = TRUE /\ t.done = s.done
      BY <3>1
    <3>3. t \in [started : BOOLEAN, done : BOOLEAN, inElem : BOOLEAN]
      BY <3>1, Zenon
    <3>4. QED
      BY <1>1, <1>2, <1>4, <2>1, <2>3, <3>1, <3>2, <3>3, Zenon DEF ScanInv
  <2>4. QED
    BY <2>1, <2>2, <2>3
<1>5. CASE s.started /\ s.inElem
  <2>1. n \in 1..(Len(d) - 1) /\ d[n].u = "head" /\ ~s.done
    BY <1>5, BatchStep DEF ScanInv
  <2>2. u.u = "tail"
    BY <2>1, StreamAssumption DEF WellFormed
  <2>3. t = [s EXCEPT !.inElem = FALSE] /\ u.u # "close" /\ u.u # "head"
    BY <1>5, <2>2, Zenon DEF Scanned
  <2>4. t.started = s.started /\ t.inElem = FALSE /\ t.done = s.done
    BY <2>3
  <2>5. t \in [started : BOOLEAN, done : BOOLEAN, inElem : BOOLEAN]
    BY <2>3, Zenon
  <2>6. QED
    BY <1>1, <1>2, <1>5, <2>1, <2>3, <2>4, <2>5, Zenon DEF ScanInv
<1>6. QED
  BY <1>3, <1>4, <1>5, Zenon

\* The groups the assembler holds are groups of the whole recording.
LEMMA AsmGroups ==
  ASSUME IInv, failed = NoError
  PROVE  /\ Examined \in 0..Len(doc)
         /\ Len(asm.groupEnds) \in Nat
         /\ Len(asm.groupEnds) <= Len(Complete(doc).groupEnds)
         /\ \A k \in 1..Len(asm.groupEnds) :
              /\ group(Complete(doc), k) = group(asm, k)
              /\ group(asm, k) \in Seq(Crossing)
<1>1. doc \in Documents /\ Len(doc) \in Nat
  BY BatchStep DEF IInv, TypeInv
<1>2. Examined \in 0..Len(doc)
  BY <1>1 DEF IInv, TypeInv, ChunkInv, Examined
<1>3. /\ Sound(asm)
      /\ Len(asm.groupEnds) <= Len(Complete(doc).groupEnds)
      /\ \A k \in 1..Len(asm.groupEnds) : group(Complete(doc), k) = group(asm, k)
  <2>1. CASE closed
    <3>1. asm = Complete(doc)
      BY <2>1 DEF IInv, AsmInv
    <3>2. Sound(asm)
      BY <1>1, <1>2, <3>1, BatchGroups
    <3>3. QED
      BY <3>1, <3>2, Fields
  <2>2. CASE ~closed
    <3>1. asm = BatchOf(doc)[Examined]
      BY <2>2 DEF IInv, AsmInv
    <3>2. Sound(asm)
      BY <1>1, <1>2, <3>1, BatchGood DEF Good
    <3>3. QED
      BY <1>1, <1>2, <3>1, <3>2, BatchGroups, SMTT(30)
  <2>3. QED
    BY <2>1, <2>2
<1>4. ASSUME NEW k \in 1..Len(asm.groupEnds) PROVE group(asm, k) \in Seq(Crossing)
  <2>1. /\ asm.crossings \in Seq(Crossing) /\ Len(asm.crossings) \in Nat
        /\ asm.groupEnds[k] \in 1..Len(asm.crossings)
    BY <1>3, Fields, SMTT(30)
  <2>2. GroupFirst(asm, k) \in Nat \ {0}
    <3>1. k > 1 => asm.groupEnds[k - 1] \in Nat
      BY <1>3, Fields, SMTT(30)
    <3>2. QED
      BY <1>3, <3>1, Fields, SMTT(30) DEF GroupFirst
  <2>3. QED
    BY <2>1, <2>2 DEF group
<1>5. QED
  BY <1>2, <1>3, <1>4, Fields

-----------------------------------------------------------------------------
(***************************************************************************)
(* Every step keeps it.                                                    *)
(***************************************************************************)

\* A step that neither reads, examines nor hands out anything keeps what the
\* invariant says of the data.
LEMMA DataKept ==
  ASSUME IInv, UNCHANGED <<doc, pos, chunk, scan, asm, next, got>>,
         failed' = NoError => failed = NoError /\ closed' = closed,
         written' = written \/ ~closed
  PROVE  ChunkInv' /\ AsmInv' /\ GotInv'
<1>1. Examined' = Examined
  BY DEF Examined
<1>2. ChunkInv'
  BY <1>1 DEF IInv, ChunkInv
<1>3. AsmInv'
  BY <1>1 DEF IInv, AsmInv
<1>4. GotInv'
  BY DEF IInv, GotInv
<1>5. QED
  BY <1>2, <1>3, <1>4

\* What a report says stays true while the file stays as it is.
LEMMA EndKept ==
  ASSUME IInv, NEW r, EndInv(r), UNCHANGED <<doc, written, eof, closed, failed, next, asm>>,
         pos' = pos \/ (pos' \in Nat /\ pos <= pos')
  PROVE  EndInv(r)'
<1>1. pos \in Nat
  BY BatchStep DEF IInv, TypeInv
<1>2. r = "scan" => \E n \in 1..pos' : Misplaced(n)'
  <2>1. 1..pos \subseteq 1..pos'
    BY <1>1
  <2>2. \A n : Misplaced(n)' <=> Misplaced(n)
    BY DEF Misplaced
  <2>3. QED
    BY <2>1, <2>2, Zenon DEF EndInv
<1>3. QED
  BY <1>2 DEF EndInv, CutInRecord, Terminated

LEMMA WriteStep == ASSUME IInv, Write PROVE IInv'
<1>1. Len(doc) \in Nat
  BY BatchStep DEF IInv, TypeInv
<1>2. ~eof /\ ~closed
  BY DEF IInv, FlowInv, Write
<1>3. TypeInv'
  BY <1>1 DEF IInv, TypeInv, Write
<1>4. ChunkInv' /\ AsmInv' /\ GotInv'
  BY <1>2, DataKept DEF Write
<1>5. FlowInv'
  BY <1>2 DEF IInv, FlowInv, Write
<1>6. EndInv(result)' /\ EndInv(failed)'
  BY <1>2 DEF IInv, EndInv, Misplaced, Write
<1>7. QED
  BY <1>3, <1>4, <1>5, <1>6 DEF IInv

LEMMA StopStep == ASSUME IInv, Stop PROVE IInv'
<1>1. TypeInv'
  BY DEF IInv, TypeInv, Stop
<1>2. ChunkInv' /\ AsmInv' /\ GotInv'
  BY DataKept DEF Stop
<1>3. FlowInv'
  BY DEF IInv, FlowInv, Stop
<1>4. EndInv(result)' /\ EndInv(failed)'
  BY EndKept DEF IInv, Stop
<1>5. QED
  BY <1>1, <1>2, <1>3, <1>4 DEF IInv

LEMMA CallNextGroupStep == ASSUME IInv, CallNextGroup PROVE IInv'
<1>1. TypeInv'
  BY DEF IInv, TypeInv, CallNextGroup, Return, producerVars
<1>2. ChunkInv' /\ AsmInv' /\ GotInv'
  BY DataKept DEF CallNextGroup, producerVars
<1>3. FlowInv'
  BY DEF IInv, FlowInv, CallNextGroup, Return, producerVars
<1>4. EndInv(result)' /\ EndInv(failed)'
  BY EndKept DEF IInv, CallNextGroup, Return, producerVars
<1>5. QED
  BY <1>1, <1>2, <1>3, <1>4 DEF IInv

LEMMA ReturnEOFStep == ASSUME IInv, ReturnEOF PROVE IInv'
<1>1. TypeInv'
  BY DEF IInv, TypeInv, ReturnEOF, Return, producerVars
<1>2. ChunkInv' /\ AsmInv' /\ GotInv'
  BY DataKept DEF ReturnEOF, producerVars
<1>3. FlowInv'
  BY DEF IInv, FlowInv, ReturnEOF, Return, producerVars
<1>4. EndInv(failed)'
  BY EndKept DEF IInv, ReturnEOF, producerVars
<1>5. EndInv("EOF")
  BY DEF IInv, FlowInv, EndInv, ReturnEOF
<1>6. EndInv(result)'
  BY <1>5, EndKept DEF ReturnEOF, Return, producerVars
<1>7. QED
  BY <1>1, <1>2, <1>3, <1>4, <1>6 DEF IInv

\* The steps between two looks at the file: nothing but pc changes.
LEMMA PollingStep ==
  ASSUME IInv, StartRead \/ Drained \/ ReadNothing \/ Poll \/ SeeDone
  PROVE  IInv'
<1>1. /\ UNCHANGED <<producerVars, pos, chunk, scan, asm, next, eof, closed, failed, got, result>>
      /\ pc' \in {"read", "loop", "select", "last"} /\ pc # "caller"
  BY DEF StartRead, Drained, ReadNothing, Poll, SeeDone
<1>2. TypeInv'
  BY <1>1 DEF IInv, TypeInv, producerVars
<1>3. ChunkInv' /\ AsmInv' /\ GotInv'
  BY <1>1, DataKept DEF producerVars
<1>4. FlowInv'
  <2>1. failed = NoError => chunk = <<>> \/ scan.done
    BY DEF IInv, FlowInv, StartRead, Drained, ReadNothing, Poll, SeeDone
  <2>2. pc' = "last" => done
    BY DEF StartRead, Drained, ReadNothing, Poll, SeeDone
  <2>3. ~eof
    BY DEF IInv, FlowInv, StartRead, Drained, ReadNothing, Poll, SeeDone
  <2>4. QED
    BY <1>1, <2>1, <2>2, <2>3 DEF IInv, FlowInv, producerVars
<1>5. EndInv(result)' /\ EndInv(failed)'
  BY <1>1, EndKept DEF IInv, producerVars
<1>6. QED
  BY <1>2, <1>3, <1>4, <1>5 DEF IInv

LEMMA ReadEOFStep == ASSUME IInv, ReadEOF PROVE IInv'
<1>1. TypeInv'
  BY DEF IInv, TypeInv, ReadEOF, producerVars
<1>2. ChunkInv' /\ AsmInv' /\ GotInv'
  BY DataKept DEF ReadEOF, producerVars
<1>3. FlowInv'
  BY DEF IInv, FlowInv, ReadEOF, producerVars
<1>4. EndInv(result)' /\ EndInv(failed)'
  BY DEF IInv, EndInv, CutInRecord, Terminated, Misplaced, ReadEOF, producerVars
<1>5. QED
  BY <1>1, <1>2, <1>3, <1>4 DEF IInv

LEMMA ReadFailsStep == ASSUME IInv, ReadFails PROVE IInv'
<1>1. ~closed /\ ~eof
  BY DEF IInv, FlowInv, ReadFails
<1>2. TypeInv'
  BY DEF IInv, TypeInv, ReadFails, FailWith, Return, Failures, producerVars
<1>3. ChunkInv' /\ AsmInv' /\ GotInv'
  BY NotAnError, DataKept DEF ReadFails, FailWith, Failures, producerVars
<1>4. FlowInv'
  BY <1>1 DEF IInv, FlowInv, ReadFails, FailWith, Return, producerVars
<1>5. EndInv(result)' /\ EndInv(failed)'
  BY DEF EndInv, ReadFails, FailWith, Return
<1>6. QED
  BY <1>2, <1>3, <1>4, <1>5 DEF IInv

LEMMA ReadSomeStep == ASSUME IInv, ReadSome PROVE IInv'
<1>1. PICK n \in 1..MaxChunk : /\ pos + n <= written
                               /\ pos' = pos + n
                               /\ chunk' = chunk \o SubSeq(doc, pos + 1, pos + n)
  BY Zenon DEF ReadSome
<1> DEFINE more == SubSeq(doc, pos + 1, pos + n)
           held == Len(chunk)
<1>2. /\ UNCHANGED <<doc, written, done, scan, asm, next, eof, closed, failed, got, result>>
      /\ pc' = "drain" /\ pc \in {"read", "last"}
  BY DEF ReadSome, producerVars
<1>3. failed = NoError /\ ~eof /\ ~closed
  BY <1>2 DEF IInv, FlowInv
<1>4. /\ doc \in Seq(Unit) /\ Len(doc) \in Nat /\ n \in Nat \ {0}
      /\ written \in 0..Len(doc) /\ pos \in 0..written
      /\ chunk \in Seq(Unit) /\ held \in 0..pos
      /\ \A i \in 1..held : chunk[i] = doc[Examined + i]
  BY StreamAssumption DEF IInv, TypeInv, ChunkInv
<1>5. /\ more \in Seq(Unit) /\ Len(more) = n
      /\ \A i \in 1..n : more[i] = doc[pos + i]
  <2>1. pos + 1 \in 1..(Len(doc) + 1) /\ pos + n \in 0..Len(doc) /\ pos + 1 <= pos + n
    BY <1>1, <1>4
  <2>2. more \in Seq(Unit)
    BY <1>4, <2>1, SMTT(30)
  <2>3. Len(more) = n
    BY <1>4, <2>1
  <2>4. \A i \in 1..n : more[i] = doc[pos + i]
    BY <1>4, <2>1
  <2>5. QED
    BY <2>2, <2>3, <2>4
<1>6. chunk' = chunk \o more
  BY <1>1
<1> HIDE DEF more
<1>7. /\ chunk' \in Seq(Unit) /\ Len(chunk') = held + n
      /\ \A i \in 1..(held + n) : chunk'[i] = IF i <= held THEN chunk[i] ELSE more[i - held]
  <2>1. /\ (chunk \o more) \in Seq(Unit)
        /\ Len(chunk \o more) = Len(chunk) + Len(more)
        /\ \A i \in 1..(Len(chunk) + Len(more)) :
             (chunk \o more)[i] = IF i <= Len(chunk) THEN chunk[i] ELSE more[i - Len(chunk)]
    BY <1>4, <1>5, ConcatProperties, Zenon
  <2>2. QED
    BY <1>5, <1>6, <2>1, Zenon
<1> HIDE DEF held
<1>8. Examined' = Examined /\ Examined = pos - held
  BY <1>1, <1>4, <1>7 DEF Examined, held
<1>9. TypeInv'
  <2>1. pos' \in 0..written'
    BY <1>1, <1>2, <1>4
  <2>2. QED
    BY <1>2, <1>7, <2>1 DEF IInv, TypeInv
<1>10. ChunkInv'
  <2>1. Len(chunk') <= pos'
    BY <1>1, <1>4, <1>7
  <2>2. ASSUME NEW i \in 1..Len(chunk') PROVE chunk'[i] = doc[Examined + i]
    <3>1. CASE i <= held
      BY <1>4, <1>7, <3>1
    <3>2. CASE i > held
      <4>1. i - held \in 1..n /\ pos + (i - held) = Examined + i
        BY <1>4, <1>7, <1>8, <3>2
      <4>2. chunk'[i] = more[i - held]
        BY <1>4, <1>7, <3>2
      <4>3. QED
        BY <1>5, <4>1, <4>2
    <3>3. QED
      BY <1>4, <1>7, <3>1, <3>2
  <2>3. QED
    BY <1>2, <1>8, <2>1, <2>2 DEF ChunkInv
<1>11. FlowInv'
  BY <1>2, <1>3 DEF FlowInv
<1>12. AsmInv' /\ GotInv'
  BY <1>2, <1>8 DEF IInv, AsmInv, GotInv
<1>13. EndInv(result)' /\ EndInv(failed)'
  <2>1. pos' \in Nat /\ pos <= pos'
    BY <1>1, <1>4
  <2>2. QED
    BY <1>2, <2>1, EndKept DEF IInv
<1>14. QED
  BY <1>9, <1>10, <1>11, <1>12, <1>13 DEF IInv

LEMMA HandOutStep == ASSUME IInv, HandOut PROVE IInv'
<1>1. /\ UNCHANGED <<doc, written, done, pos, chunk, scan, asm, eof, closed, failed>>
      /\ pc = "loop" /\ pc' = "caller" /\ result' = "group"
      /\ got' = Append(got, group(asm, next + 1)) /\ next' = next + 1
      /\ Len(asm.groupEnds) > next
  BY DEF HandOut, Return, producerVars
<1>2. failed = NoError
  BY <1>1 DEF IInv, FlowInv
<1>3. got \in Seq(Seq(Crossing)) /\ next = Len(got) /\ next \in Nat
  BY DEF IInv, TypeInv
<1>4. next + 1 \in 1..Len(asm.groupEnds)
  BY <1>1, <1>2, <1>3, AsmGroups
<1> DEFINE g == group(asm, next + 1)
<1>5. g \in Seq(Crossing) /\ g = group(Complete(doc), next + 1)
  BY <1>2, <1>4, AsmGroups
<1>6. Len(asm.groupEnds) \in Nat /\ Len(asm.groupEnds) <= Len(Complete(doc).groupEnds)
  BY <1>2, AsmGroups
<1>7. Len(Complete(doc).groupEnds) \in Nat
  <2>1. doc \in Documents /\ Examined \in 0..Len(doc)
    BY <1>2, AsmGroups DEF IInv, TypeInv
  <2>2. QED
    BY <2>1, BatchGroups, Fields
<1>8. Complete(doc)' = Complete(doc)
  BY <1>1
<1> HIDE DEF g
<1>9. /\ got' \in Seq(Seq(Crossing)) /\ Len(got') = next + 1 /\ got'[next + 1] = g
      /\ \A k \in 1..next : got'[k] = got[k]
  BY <1>1, <1>3, <1>5 DEF g
<1>10. TypeInv'
  BY <1>1, <1>9 DEF IInv, TypeInv
<1>11. FlowInv'
  BY <1>1, <1>2 DEF IInv, FlowInv
<1>12. ChunkInv' /\ AsmInv'
  BY <1>1 DEF IInv, ChunkInv, AsmInv, Examined
<1>13. GotInv'
  <2>1. next' <= Len(asm'.groupEnds) /\ Len(got') <= Len(Complete(doc)'.groupEnds)
    BY <1>1, <1>3, <1>4, <1>6, <1>7, <1>8, <1>9
  <2>2. ASSUME NEW k \in 1..Len(got') PROVE got'[k] = group(Complete(doc), k)
    <3>1. k \in 1..next \/ k = next + 1
      BY <1>3, <1>9
    <3>2. QED
      BY <1>3, <1>5, <1>9, <3>1 DEF IInv, GotInv
  <2>3. QED
    BY <1>1, <2>1, <2>2 DEF GotInv
<1>14. EndInv(result)' /\ EndInv(failed)'
  BY <1>1, <1>2, NotAnError DEF EndInv, Failures
<1>15. QED
  BY <1>10, <1>11, <1>12, <1>13, <1>14 DEF IInv

\* At the end of the file everything in it has been examined, or the array is
\* closed and what follows holds no record.
LEMMA AllExamined ==
  ASSUME IInv, failed = NoError, eof
  PROVE  /\ Examined = written \/ scan.done
         /\ Examined \in 0..written /\ written \in 0..Len(doc) /\ doc \in Documents
         /\ Examined = written - Len(chunk)
         /\ ScanInv(doc, scan, Examined)
         /\ BatchOf(doc)[Examined] = BatchOf(doc)[written]
<1>1. (chunk = <<>> \/ scan.done) /\ pos = written /\ ScanInv(doc, scan, Examined)
  BY DEF IInv, FlowInv, AsmInv
<1>2. /\ written \in 0..Len(doc) /\ doc \in Documents /\ Len(doc) \in Nat
      /\ chunk \in Seq(Unit) /\ Len(chunk) \in 0..written
  BY <1>1, BatchStep DEF IInv, TypeInv, ChunkInv
<1>3. Examined = written - Len(chunk) /\ Examined \in 0..written
  BY <1>1, <1>2 DEF Examined
<1>4. CASE chunk = <<>>
  BY <1>1, <1>2, <1>3, <1>4
<1>5. CASE scan.done
  <2>1. PICK c \in 1..Examined : doc[c].u = "close"
    BY <1>1, <1>5 DEF ScanInv
  <2>2. c \in 1..written /\ Examined \in 0..Len(doc)
    BY <1>2, <1>3
  <2>3. BatchOf(doc)[Len(doc)] = BatchOf(doc)[Examined]
    BY <1>2, <2>1, <2>2, BatchClosed
  <2>4. BatchOf(doc)[Len(doc)] = BatchOf(doc)[written]
    BY <1>2, <2>1, <2>2, BatchClosed
  <2>5. QED
    BY <1>1, <1>2, <1>3, <1>5, <2>3, <2>4
<1>6. QED
  BY <1>1, <1>4, <1>5

\* finishStream's report is what the file holds.
LEMMA Reported ==
  ASSUME IInv, failed = NoError, eof, ~closed
  PROVE  LET err == finishStream(scan, asm)
         IN  /\ err \in {"midRecord", "midCrossing", "finish", "unterminated", NoError}
             /\ err = "midRecord" => CutInRecord
             /\ err = "midCrossing" =>
                  /\ ~CutInRecord
                  /\ \/ ExportOpen(BatchOf(doc)[written])
                     \/ /\ BatchOf(doc)[written].stack # <<>>
                        /\ closeRun(BatchOf(doc)[written]).failed
             /\ err = "unterminated" =>
                  ~CutInRecord /\ ~ExportOpen(BatchOf(doc)[written]) /\ ~Terminated
             /\ err = NoError => ~scan.inElem /\ ~finish(asm).failed /\ scan.done
<1> DEFINE err == finishStream(scan, asm)
<1>1. /\ asm = BatchOf(doc)[written] /\ ~asm.failed
      /\ written \in 0..Len(doc) /\ doc \in Documents
  BY AllExamined DEF IInv, AsmInv
<1>2. Good(asm)
  BY <1>1, BatchGood
<1>3. /\ scan.inElem <=> CutInRecord
      /\ scan.done <=> Terminated
  <2>1. /\ ScanInv(doc, scan, Examined) /\ Examined \in 0..written /\ written \in Nat
        /\ Examined = written \/ scan.done
    BY <1>1, BatchStep, AllExamined
  <2>2. scan.done => Terminated /\ ~scan.inElem
    BY <2>1 DEF ScanInv, Terminated
  <2>3. ~scan.done => ~Terminated /\ (scan.inElem <=> written > 0 /\ doc[written].u = "head")
    BY <2>1 DEF ScanInv, Terminated
  <2>4. QED
    BY <2>2, <2>3 DEF CutInRecord
<1>4. /\ ~finish(asm).failed => ~ExportOpen(asm)
      /\ finish(asm).failed => ExportOpen(asm) \/ closeRun(asm).failed
  BY <1>1, <1>2, FinishKeeps
<1>5. CASE scan.inElem
  <2>1. err = "midRecord"
    BY <1>5 DEF finishStream
  <2>2. QED
    BY <1>3, <1>5, <2>1, NotAnError DEF Failures
<1>6. CASE ~scan.inElem /\ finish(asm).failed
  <2>1. err = IF openCrossings(asm) > 0 THEN "midCrossing" ELSE "finish"
    BY <1>6 DEF finishStream
  <2>2. openCrossings(asm) > 0 => asm.stack # <<>>
    BY DEF openCrossings
  <2>3. CASE openCrossings(asm) > 0
    <3>1. err = "midCrossing"
      BY <2>1, <2>3
    <3>2. QED
      BY <1>1, <1>3, <1>4, <1>6, <2>2, <2>3, <3>1, NotAnError DEF Failures
  <2>4. CASE ~(openCrossings(asm) > 0)
    <3>1. err = "finish"
      BY <2>1, <2>4
    <3>2. QED
      BY <3>1, NotAnError DEF Failures
  <2>5. QED
    BY <2>3, <2>4
<1>7. CASE ~scan.inElem /\ ~finish(asm).failed /\ ~scan.done
  <2>1. err = "unterminated"
    BY <1>7 DEF finishStream
  <2>2. QED
    BY <1>1, <1>3, <1>4, <1>7, <2>1, NotAnError DEF Failures
<1>8. CASE ~scan.inElem /\ ~finish(asm).failed /\ scan.done
  <2>1. err = NoError
    BY <1>8 DEF finishStream
  <2>2. QED
    BY <1>8, <2>1, NotAnError DEF Failures
<1>9. QED
  BY <1>5, <1>6, <1>7, <1>8, Zenon

LEMMA FinishStreamStep == ASSUME IInv, FinishStream PROVE IInv'
<1> DEFINE err == finishStream(scan, asm)
<1>1. /\ UNCHANGED <<doc, written, done, pos, chunk, scan, next, eof, got>>
      /\ pc = "loop" /\ eof /\ ~closed /\ closed' = TRUE
      /\ asm' = IF scan.inElem THEN asm ELSE finish(asm)
      /\ IF err # NoError THEN failed' = err /\ pc' = "caller" /\ result' = err
                          ELSE UNCHANGED <<pc, failed, result>>
  BY DEF FinishStream, FailWith, Return, producerVars
<1>2. failed = NoError /\ done /\ pos = written /\ (chunk = <<>> \/ scan.done)
  BY <1>1 DEF IInv, FlowInv
<1>3. err \in {"midRecord", "midCrossing", "finish", "unterminated", NoError}
  BY <1>1, <1>2, Reported
<1>4. Examined' = Examined
  BY <1>1 DEF Examined
<1>5. ChunkInv'
  BY <1>1, <1>4 DEF IInv, ChunkInv
<1>6. CASE err # NoError
  <2>1. failed' = err /\ pc' = "caller" /\ result' = err /\ err \in Failures
    BY <1>1, <1>3, <1>6 DEF Failures
  <2>2. TypeInv'
    BY <1>1, <2>1 DEF IInv, TypeInv
  <2>3. FlowInv'
    BY <1>1, <1>2, <2>1 DEF FlowInv
  <2>4. AsmInv'
    BY <1>6, <2>1 DEF AsmInv
  <2>5. GotInv'
    BY <1>1, <1>6, <2>1 DEF IInv, GotInv
  <2>6. EndInv(result)' /\ EndInv(failed)'
    <3>1. err # "EOF"
      BY <2>1 DEF Failures
    <3>2. PICK e : e = err
      OBVIOUS
    <3>3. /\ e = "midRecord" => CutInRecord
          /\ e = "midCrossing" =>
               /\ ~CutInRecord
               /\ \/ ExportOpen(BatchOf(doc)[written])
                  \/ /\ BatchOf(doc)[written].stack # <<>>
                     /\ closeRun(BatchOf(doc)[written]).failed
          /\ e = "unterminated" =>
               ~CutInRecord /\ ~ExportOpen(BatchOf(doc)[written]) /\ ~Terminated
      BY <1>1, <1>2, <3>2, Reported, Zenon
    <3>4. EndInv(e)'
      <4>1. e # "scan"
        BY <1>3, <3>2, NotAnError DEF Failures
      <4>2. QED
        BY <1>1, <3>1, <3>2, <3>3, <4>1 DEF EndInv, CutInRecord, Terminated
    <3>5. failed' = e /\ result' = e
      BY <2>1, <3>2
    <3>6. QED
      BY <3>4, <3>5 DEF EndInv
  <2>7. QED
    BY <1>5, <2>2, <2>3, <2>4, <2>5, <2>6 DEF IInv

<1>7. CASE err = NoError
  <2>1. UNCHANGED <<pc, failed, result>> /\ failed' = NoError
    BY <1>1, <1>2, <1>7
  <2>2. /\ ~scan.inElem /\ ~finish(asm).failed /\ scan.done
    BY <1>1, <1>2, <1>7, Reported
  <2>3. /\ asm = BatchOf(doc)[written] /\ ~asm.failed
        /\ ScanInv(doc, scan, Examined) /\ Examined \in 0..written
        /\ written \in 0..Len(doc) /\ doc \in Documents /\ written \in Nat
    <3>1. /\ ScanInv(doc, scan, Examined) /\ Examined \in 0..written
          /\ written \in 0..Len(doc) /\ doc \in Documents
          /\ BatchOf(doc)[Examined] = BatchOf(doc)[written]
      BY <1>1, <1>2, AllExamined, Zenon
    <3>2. asm = BatchOf(doc)[Examined] /\ ~asm.failed
      BY <1>1, <1>2, Zenon DEF IInv, AsmInv
    <3>3. Len(doc) \in Nat
      BY <3>1, BatchStep
    <3>4. written \in Nat
      BY <3>1, <3>3
    <3>5. QED
      BY <3>1, <3>2, <3>4, Zenon
  <2>4. asm' = finish(asm) /\ ~asm'.failed
    BY <1>1, <2>2
  <2>5. finish(asm) = Complete(doc)
    <3>1. PICK c \in 1..written : doc[c].u = "close"
      BY <2>2, <2>3 DEF ScanInv
    <3>2. BatchOf(doc)[Len(doc)] = asm
      BY <2>3, <3>1, BatchClosed
    <3>3. QED
      BY <2>3, <3>2 DEF Complete
  <2>6. Len(asm.groupEnds) <= Len(finish(asm).groupEnds) /\ Len(finish(asm).groupEnds) \in Nat
    <3>1. Good(asm)
      BY <2>3, BatchGood
    <3>2. Good(finish(asm)) /\ Frozen(asm, finish(asm))
      BY <2>3, <3>1, FinishKeeps
    <3>3. QED
      BY <3>1, <3>2, FrozenGroups, Fields DEF Good
  <2>7. TypeInv'
    BY <1>1, <2>1 DEF IInv, TypeInv
  <2>8. FlowInv'
    BY <1>1, <1>2, <2>1 DEF IInv, FlowInv
  <2>9. AsmInv'
    <3>1. ScanInv(doc, scan, Examined)
      BY <1>2 DEF IInv, AsmInv
    <3>2. QED
      BY <1>1, <1>4, <2>2, <2>3, <2>4, <2>5, <3>1 DEF AsmInv
  <2>10. GotInv'
    <3>1. next \in Nat /\ Len(asm.groupEnds) \in Nat
      BY <1>2, AsmGroups DEF IInv, TypeInv
    <3>2. next <= Len(asm.groupEnds)
      BY <1>2 DEF IInv, GotInv
    <3>3. next' <= Len(asm'.groupEnds)
      BY <1>1, <2>4, <2>6, <3>1, <3>2
    <3>4. QED
      BY <1>1, <3>3 DEF IInv, GotInv
  <2>11. EndInv(result)' /\ EndInv(failed)'
    <3>1. result # "EOF" /\ failed # "EOF"
      BY <1>1, Zenon DEF IInv, EndInv
    <3>2. QED
      BY <1>1, <2>1, <3>1, Zenon DEF IInv, EndInv, CutInRecord, Terminated, Misplaced
  <2>12. QED
    BY <1>5, <2>7, <2>8, <2>9, <2>10, <2>11 DEF IInv
<1>8. QED
  BY <1>6, <1>7

LEMMA DrainStep == ASSUME IInv, Drain PROVE IInv'
<1> DEFINE n == Examined
           u == Head(chunk)
<1>1. /\ UNCHANGED <<doc, written, done, pos, next, eof, closed, got>>
      /\ pc = "drain" /\ chunk # <<>> /\ chunk' = Tail(chunk)
  BY DEF Drain, producerVars
<1>2. failed = NoError /\ ~eof /\ ~closed
  BY <1>1 DEF IInv, FlowInv
<1>3. /\ chunk \in Seq(Unit) /\ doc \in Documents /\ Len(doc) \in Nat
      /\ pos \in 0..written /\ written \in 0..Len(doc) /\ Len(chunk) \in 1..pos
      /\ \A i \in 1..Len(chunk) : chunk[i] = doc[n + i]
  <2>1. Len(chunk) # 0
    BY <1>1 DEF IInv, TypeInv
  <2>2. chunk \in Seq(Unit) /\ doc \in Documents /\ Len(doc) \in Nat
    BY BatchStep DEF IInv, TypeInv
  <2>3. QED
    BY <2>1, <2>2 DEF IInv, TypeInv, ChunkInv
<1>4. /\ n \in Nat /\ n + 1 \in 1..Len(doc) /\ u = doc[n + 1]
      /\ u \in Unit
  <2>1. n \in Nat /\ n + 1 <= pos /\ n + 1 \in 1..Len(doc)
    BY <1>3 DEF Examined
  <2>2. u = chunk[1] /\ 1 \in 1..Len(chunk)
    BY <1>1, <1>3
  <2>3. u = doc[n + 1]
    BY <1>3, <2>2
  <2>4. QED
    BY <1>3, <2>1, <2>2, <2>3
<1>5. /\ chunk' \in Seq(Unit) /\ Len(chunk') = Len(chunk) - 1
      /\ \A i \in 1..Len(chunk') : chunk'[i] = chunk[i + 1]
  BY <1>1, <1>3
<1>6. Examined' = n + 1
  BY <1>1, <1>3, <1>5 DEF Examined
<1>7. asm = BatchOf(doc)[n] /\ ~asm.failed /\ ScanInv(doc, scan, n)
  BY <1>2 DEF IInv, AsmInv
<1> HIDE DEF n
<1>8. ChunkInv'
  <2>1. Len(chunk') <= pos
    BY <1>3, <1>5
  <2>2. ASSUME NEW i \in 1..Len(chunk') PROVE chunk'[i] = doc[n + 1 + i]
    <3>1. i + 1 \in 1..Len(chunk) /\ n + (i + 1) = n + 1 + i
      BY <1>3, <1>4, <1>5
    <3>2. QED
      BY <1>3, <1>5, <3>1, SMTT(30)
  <2>3. QED
    BY <1>1, <1>6, <2>1, <2>2 DEF ChunkInv
<1>9. scan \in [started : BOOLEAN, done : BOOLEAN, inElem : BOOLEAN]
  BY DEF IInv, TypeInv
<1>10. CASE ScanFails(scan, u)
  <2>1. failed' = "scan" /\ pc' = "caller" /\ result' = "scan" /\ UNCHANGED <<scan, asm>>
    BY <1>10 DEF Drain, FailWith, Return
  <2>2. TypeInv'
    BY <1>1, <1>5, <2>1 DEF IInv, TypeInv, Failures
  <2>3. FlowInv'
    BY <1>1, <1>2, <2>1, NotAnError DEF FlowInv, Failures
  <2>4. AsmInv' /\ GotInv'
    BY <1>1, <2>1, NotAnError DEF IInv, AsmInv, GotInv, Failures
  <2>5. Misplaced(n + 1)
    <3>1. CASE ~scan.started
      <4>1. n = 0 /\ u.u # "open"
        BY <1>4, <1>7, <1>10, <3>1 DEF ScanFails, ScanInv
      <4>2. QED
        BY <1>4, <4>1 DEF Misplaced
    <3>2. CASE scan.started /\ ~scan.inElem
      <4>1. n > 0 /\ (scan.done \/ u.u \notin {"close", "head"})
        BY <1>7, <1>10, <3>2 DEF ScanFails, ScanInv
      <4>2. /\ n + 1 # 1 /\ (n + 1) - 1 = n
            /\ scan.done => doc[n].u = "close"
            /\ doc[n].u # "head"
        BY <1>4, <1>7, <3>2, <4>1 DEF ScanInv
      <4>3. QED
        BY <1>4, <4>1, <4>2 DEF Misplaced
    <3>3. CASE scan.started /\ scan.inElem
      BY <1>10, <3>3 DEF ScanFails
    <3>4. QED
      BY <3>1, <3>2, <3>3
  <2>6. EndInv(result)' /\ EndInv(failed)'
    <3>1. PICK m \in 1..pos : Misplaced(m)
      <4>1. n + 1 \in 1..pos
        BY <1>3, <1>4 DEF n, Examined
      <4>2. QED
        BY <2>5, <4>1
    <3>2. Misplaced(m)' /\ m \in 1..pos'
      BY <1>1, <3>1 DEF Misplaced
    <3>3. EndInv("scan")'
      BY <3>2 DEF EndInv
    <3>4. QED
      BY <2>1, <3>3 DEF EndInv
  <2>7. QED
    BY <1>8, <2>2, <2>3, <2>4, <2>6 DEF IInv
<1>11. CASE ~ScanFails(scan, u)
  <2>1. scan' = Scanned(scan, u)
    BY <1>11 DEF Drain
  <2>2. /\ scan' \in [started : BOOLEAN, done : BOOLEAN, inElem : BOOLEAN]
        /\ ScanInv(doc, scan', n + 1)
    <3>1. n + 1 <= Len(doc) /\ ~ScanFails(scan, doc[n + 1])
      BY <1>4, <1>11
    <3>2. /\ Scanned(scan, doc[n + 1]) \in [started : BOOLEAN, done : BOOLEAN, inElem : BOOLEAN]
          /\ ScanInv(doc, Scanned(scan, doc[n + 1]), n + 1)
      BY <1>3, <1>4, <1>7, <1>9, <3>1, ScannedInv
    <3>3. QED
      BY <1>4, <2>1, <3>2
  <2>3. asm' = Loaded(asm, u)
    <3>1. CASE u.u = "tail"
      <4>1. asm' = Pushed(asm, u.rec)
        BY <1>11, <3>1 DEF Drain
      <4>2. QED
        BY <1>7, <3>1, <4>1 DEF Loaded, Pushed
    <3>2. CASE u.u # "tail"
      <4>1. asm' = asm
        BY <1>11, <3>2 DEF Drain
      <4>2. QED
        BY <3>2, <4>1 DEF Loaded
    <3>3. QED
      BY <3>1, <3>2
  <2>4. asm' = BatchOf(doc)[n + 1]
    <3>1. (n + 1) - 1 = n
      BY <1>4
    <3>2. \A m \in 1..Len(doc) : BatchOf(doc)[m] = Loaded(BatchOf(doc)[m - 1], doc[m])
      BY <1>3, BatchStep
    <3>3. BatchOf(doc)[n + 1] = Loaded(BatchOf(doc)[n], doc[n + 1])
      BY <1>4, <3>1, <3>2, Zenon
    <3>4. QED
      BY <1>4, <1>7, <2>3, <3>3, Zenon
  <2>5. \/ asm'.failed /\ failed' = "record" /\ pc' = "caller" /\ result' = "record"
        \/ /\ ~asm'.failed /\ UNCHANGED <<failed, result>>
           /\ pc' = pc \/ (pc' = "loop" /\ u.u = "close")
    <3>1. CASE u.u = "tail"
      BY <1>11, <3>1 DEF Drain, FailWith, Return
    <3>2. CASE u.u # "tail"
      BY <1>7, <1>11, <3>2 DEF Drain
    <3>3. QED
      BY <3>1, <3>2

  <2>6. CASE asm'.failed /\ failed' = "record" /\ pc' = "caller" /\ result' = "record"
    <3>1. TypeInv'
      BY <1>1, <1>5, <2>2, <2>6 DEF IInv, TypeInv, Failures
    <3>2. FlowInv'
      BY <1>1, <1>2, <2>6, NotAnError DEF FlowInv, Failures
    <3>3. AsmInv' /\ GotInv'
      BY <1>1, <2>6, NotAnError DEF IInv, AsmInv, GotInv, Failures
    <3>4. EndInv(result)' /\ EndInv(failed)'
      BY <2>6 DEF EndInv
    <3>5. QED
      BY <1>8, <3>1, <3>2, <3>3, <3>4 DEF IInv
  <2>7. CASE /\ ~asm'.failed /\ UNCHANGED <<failed, result>>
             /\ pc' = pc \/ (pc' = "loop" /\ u.u = "close")
    <3>1. TypeInv'
      BY <1>1, <1>5, <2>2, <2>7 DEF IInv, TypeInv
    <3>2. FlowInv'
      <4>1. u.u = "close" => scan'.done
        BY <1>4, <2>2 DEF ScanInv
      <4>2. QED
        BY <1>1, <1>2, <2>7, <4>1 DEF FlowInv
    <3>3. AsmInv'
      BY <1>1, <1>2, <1>6, <2>2, <2>4, <2>7 DEF AsmInv
    <3>4. next <= Len(asm'.groupEnds)
      <4>1. n \in 0..Len(doc) /\ n + 1 \in 0..Len(doc) /\ n <= n + 1
        BY <1>3, <1>4
      <4>2. /\ Sound(asm) /\ Sound(asm')
            /\ Frozen(asm, asm')
        BY <1>3, <1>7, <2>4, <4>1, BatchGood, BatchFrozen DEF Good
      <4>3. Len(asm.groupEnds) <= Len(asm'.groupEnds)
        BY <4>2, FrozenGroups
      <4>4. Len(asm.groupEnds) \in Nat /\ Len(asm'.groupEnds) \in Nat /\ next \in Nat
        BY <4>2, Fields DEF IInv, TypeInv
      <4>5. next <= Len(asm.groupEnds)
        BY <1>2 DEF IInv, GotInv
      <4>6. QED
        BY <4>3, <4>4, <4>5
    <3>5. GotInv'
      BY <1>1, <3>4 DEF IInv, GotInv
    <3>6. EndInv(result)' /\ EndInv(failed)'
      BY <1>1, <1>2, <2>7 DEF IInv, EndInv, Misplaced
    <3>7. QED
      BY <1>8, <3>1, <3>2, <3>3, <3>5, <3>6 DEF IInv
  <2>8. QED
    BY <2>5, <2>6, <2>7
<1>12. QED
  BY <1>10, <1>11

\* IInv is inductive: the reader keeps it whatever the producer does.
THEOREM Inductive == Spec => []IInv
<1>1. ASSUME IInv, [Next]_streamVars PROVE IInv'
  <2>1. CASE Write
    BY <1>1, <2>1, WriteStep
  <2>2. CASE Stop
    BY <1>1, <2>2, StopStep
  <2>3. CASE ReadFails
    BY <1>1, <2>3, ReadFailsStep
  <2>4. CASE Reader
    BY <1>1, <2>4, CallNextGroupStep, HandOutStep, FinishStreamStep, ReturnEOFStep,
       ReadSomeStep, DrainStep, PollingStep, ReadEOFStep DEF Reader
  <2>5. CASE UNCHANGED streamVars
    <3>1. TypeInv'
      BY <1>1, <2>5 DEF IInv, TypeInv, streamVars, producerVars
    <3>2. FlowInv'
      BY <1>1, <2>5 DEF IInv, FlowInv, streamVars, producerVars
    <3>3. ChunkInv' /\ AsmInv' /\ GotInv'
      BY <1>1, <2>5, DataKept DEF streamVars, producerVars
    <3>4. EndInv(result)' /\ EndInv(failed)'
      BY <1>1, <2>5, EndKept DEF IInv, streamVars, producerVars
    <3>5. QED
      BY <3>1, <3>2, <3>3, <3>4 DEF IInv
  <2>6. QED
    BY <1>1, <2>1, <2>2, <2>3, <2>4, <2>5 DEF Next
<1>2. QED
  BY <1>1, InitIInv, PTL DEF Spec

-----------------------------------------------------------------------------
(***************************************************************************)
(* The results.                                                            *)
(***************************************************************************)

LEMMA BatchIs == ASSUME IInv, NEW n \in 0..Len(doc) PROVE BatchAfter(n) = BatchOf(doc)[n]
<1>1. doc \in Documents
  BY DEF IInv, TypeInv
<1>2. Batches[doc] = [k \in 0..Len(doc) |-> BatchOf(doc)[k]]
  BY <1>1 DEF Batches
<1>3. QED
  BY <1>2 DEF BatchAfter

\* Whatever the timing of the producer and the size of the reads, what
\* NextGroup has handed out are the first groups LoadRecording would find in
\* the finished document, in its order.
THEOREM StreamedIsPrefix == Spec => []StreamedIsPrefixOfBatch
<1>1. ASSUME IInv PROVE StreamedIsPrefixOfBatch
  <2>1. Len(doc) \in 0..Len(doc)
    BY <1>1, BatchStep DEF IInv, TypeInv
  <2>2. BatchAfter(Len(doc)) = BatchOf(doc)[Len(doc)]
    BY <1>1, <2>1, BatchIs
  <2>3. doc \in Documents
    BY <1>1 DEF IInv, TypeInv
  <2>4. Len(Complete(doc).groupEnds) \in Nat /\ Len(got) \in Nat
    BY <1>1, <2>1, <2>3, BatchGroups, Fields DEF IInv, TypeInv
  <2>5. /\ Len(Complete(doc).groupEnds) >= Len(got)
        /\ \A k \in 1..Len(got) : got[k] = group(Complete(doc), k)
    BY <1>1, <2>4 DEF IInv, GotInv
  <2>6. QED
    BY <2>2, <2>5 DEF StreamedIsPrefixOfBatch, Complete
<1>2. QED
  BY <1>1, Inductive, PTL

\* The end NextGroup reports is the end the file has, up to the bracket that
\* closes the array, and it is reported only once the producer has stopped and
\* everything it wrote has been read. A refusal by the scanner is of a unit
\* that cannot stand where it is.
THEOREM EndIsClassified == Spec => []EndClassified
<1>1. ASSUME IInv PROVE EndClassified
  <2> DEFINE B == BatchOf(doc)[written]
  <2>1. written \in 0..Len(doc) /\ doc \in Documents
    BY <1>1 DEF IInv, TypeInv
  <2>2. BatchAfter(written) = B
    BY <1>1, <2>1, BatchIs
  <2>3. eof => done /\ pos = written
    BY <1>1 DEF IInv, FlowInv
  <2>4. ASSUME result = "EOF"
        PROVE  /\ Len(chunk) < written /\ doc[written - Len(chunk)].u = "close"
               /\ ~ExportOpen(B) /\ Len(got) = Len(finish(B).groupEnds)
    <3>1. eof /\ closed /\ failed = NoError /\ next = Len(asm.groupEnds)
      BY <1>1, <2>4 DEF IInv, EndInv
    <3>2. /\ Examined = written - Len(chunk) /\ Examined \in 0..written
          /\ ScanInv(doc, scan, Examined)
      BY <1>1, <3>1, AllExamined
    <3>3. scan.done /\ ~B.failed /\ asm = finish(B) /\ ~asm.failed
      BY <1>1, <3>1 DEF IInv, AsmInv
    <3>4. Len(chunk) < written /\ doc[written - Len(chunk)].u = "close"
      <4>1. Len(chunk) \in Nat /\ written \in Nat
        BY <1>1, <2>1, BatchStep DEF IInv, TypeInv
      <4>2. QED
        BY <3>2, <3>3, <4>1 DEF ScanInv
    <3>5. ~ExportOpen(B)
      BY <2>1, <3>3, BatchGood, FinishKeeps
    <3>6. next = Len(got)
      BY <1>1 DEF IInv, TypeInv
    <3>7. QED
      BY <3>1, <3>3, <3>4, <3>5, <3>6
  <2>5. EndInv(result)
    BY <1>1 DEF IInv
  <2> HIDE DEF B
  <2>6. QED
    BY <2>2, <2>3, <2>4, <2>5 DEF EndClassified, EndInv, CutInRecord, Terminated, Misplaced, B
<1>2. QED
  BY <1>1, Inductive, PTL
=============================================================================
