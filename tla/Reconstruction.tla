--------------------------- MODULE Reconstruction ---------------------------
(***************************************************************************)
(* internal/boundarylog/recording.go, reconstructCrossings: the assembler  *)
(* fed with a sequence of records, the producer's or not, one push per     *)
(* record until one fails, then finish. StreamReader.drain feeds it the    *)
(* same way.                                                               *)
(***************************************************************************)
EXTENDS Assembler

CONSTANTS
  MaxSlots,   \* the longest argument or result tuple
  HostRecords,\* the host-state records the producer may send
  MaxRecords  \* records pushed before the input ends

ASSUME ReconstructionAssumption ==
  /\ MaxSlots \in Nat
  /\ HostRecords \subseteq HostRecord
  /\ MaxRecords \in Nat

VARIABLES
  rebuilt, \* the assembler
  pushed,  \* how many records it has been fed
  ended    \* whether finish has run

asmVars == <<rebuilt, pushed, ended>>

Feed(ev) ==
  /\ ~rebuilt.failed /\ ~ended
  /\ pushed < MaxRecords
  /\ rebuilt' = push(rebuilt, ev)
  /\ pushed' = pushed + 1
  /\ UNCHANGED ended

FeedFunction == \E e \in Exports : Feed([t |-> "Function", name |-> e])

FeedVariableName ==
  \E l \in Labels, r \in {"arg", "ret"}, n \in 0..(MaxSlots - 1) :
    Feed([t |-> "VariableName", binding |-> [label |-> l, role |-> r, slot |-> n]])

FeedOtherName == Feed([t |-> "VariableName", binding |-> OtherBinding])

\* An id one past the table is a record that refers to nothing.
FeedValue ==
  \E n \in 1..(Len(rebuilt.varNames) + 1), v \in Vals :
    Feed([t |-> "Value", id |-> n, value |-> v])

FeedCall == \E n \in 1..(Len(rebuilt.functions) + 1) : Feed([t |-> "Call", id |-> n])

FeedMarker ==
  \E what \in {"enterImport", "leaveImport"}, i \in Imports :
    Feed([t |-> "Event", what |-> what, index |-> i])

FeedHostState == \E h \in HostRecords : Feed(h)

FeedReturn == Feed([t |-> "Return"])

FeedDelimiter ==
  \E ev \in [t : {"Step", "Other"}] \cup [t : {"Event"}, what : {"other"}] : Feed(ev)

Finish ==
  /\ ~rebuilt.failed /\ ~ended
  /\ rebuilt' = finish(rebuilt)
  /\ ended' = TRUE
  /\ UNCHANGED pushed

ReconstructionInit ==
  /\ rebuilt = newAssembler
  /\ pushed = 0
  /\ ended = FALSE

ReconstructionNext ==
  \/ FeedFunction \/ FeedVariableName \/ FeedOtherName \/ FeedValue
  \/ FeedCall \/ FeedMarker \/ FeedHostState \/ FeedReturn \/ FeedDelimiter
  \/ Finish

ReconstructionSpec == ReconstructionInit /\ [][ReconstructionNext]_asmVars

-----------------------------------------------------------------------------
(***************************************************************************)
(* Properties.                                                             *)
(***************************************************************************)

\* The assembler's fields hold what assembler.go declares them to hold.
TypeOK ==
  /\ rebuilt \in Assemblers
  /\ pushed \in 0..MaxRecords
  /\ ended \in BOOLEAN

\* Crossings and stack describe one nesting: a crossing is numbered by its
\* place in call order, an open one sits at the depth it was opened at, and
\* none belongs to a call group that was already delimited. closeRun, the
\* marker handlers and push keep the two in step whatever records arrive.
StructureSound ==
  /\ CrossingsNumbered(rebuilt)
  /\ StackNested(rebuilt)
  /\ GroupsDelimited(rebuilt)
  /\ TopsSeparated(rebuilt)
  /\ OpenGroupTop(rebuilt)
  /\ ~rebuilt.failed => Settled(rebuilt)

\* A completed call group holds at most one top-level exported call, which is
\* what appendGroup in stream_replay.go says cannot be otherwise "unless the
\* assembler is wrong".
OneTopLevelExportPerGroup ==
  \A g \in 1..Len(rebuilt.groupEnds) :
    \A i, j \in GroupFirst(rebuilt, g)..rebuilt.groupEnds[g] :
      IsTop(rebuilt.crossings[i]) /\ IsTop(rebuilt.crossings[j]) => i = j

\* The witness LoadRecording derives (a marker was seen) is the witness
\* appendGroup derives from the crossings it is handed (one of them is
\* bracketed by markers).
WitnessesAgree ==
  ~rebuilt.failed =>
    (rebuilt.sawImportMarker
       <=> \E i \in 1..Len(rebuilt.crossings) : rebuilt.crossings[i].markerBracketed)

\* No record changes a call group once it is delimited: NextGroup hands out a
\* slice of the assembler's own array while later records are still pushed.
GroupsFrozen ==
  [][ /\ \A i \in 1..rebuilt.groupStart :
           i \in DOMAIN rebuilt'.crossings /\ rebuilt'.crossings[i] = rebuilt.crossings[i]
      /\ \A g \in 1..Len(rebuilt.groupEnds) :
           g \in DOMAIN rebuilt'.groupEnds /\ rebuilt'.groupEnds[g] = rebuilt.groupEnds[g]
    ]_asmVars
=============================================================================
