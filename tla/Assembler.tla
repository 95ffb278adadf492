----------------------------- MODULE Assembler -----------------------------
(***************************************************************************)
(* internal/boundarylog/assembler.go: recovers boundary crossings from the *)
(* browser's rendered trace records, one record at a time, and delimits    *)
(* the call groups the streaming driver replays. hoststate.go: the host    *)
(* state it folds out of the same records.                                 *)
(*                                                                         *)
(* The assembler is a record value; each method is an operator from that   *)
(* value to the value it leaves behind, with failed = TRUE when the method *)
(* returns an error. An index into crossings or stack is one more than the *)
(* Go index; Seq and Depth keep their Go values.                           *)
(***************************************************************************)
EXTENDS Integers, Sequences, FiniteSetsExt

CONSTANTS
  Exports,    \* names of exported functions
  Imports,    \* import indices
  Vals,       \* recorded values
  Memories,   \* the memories a module may import
  Globals     \* the globals a module may import

NoLabel == ""

\* parseBindingName tells an import's label, which is never empty, from an
\* export's name.
ASSUME AssemblerAssumption == Exports \cap Imports = {} /\ NoLabel \notin Imports

-----------------------------------------------------------------------------
(***************************************************************************)
(* internal/boundarylog/hoststate.go: the host-supplied state of a         *)
(* recording (initial contents of imported memories and globals, and the   *)
(* writes the host made while it serviced an import call), carried by the  *)
(* boundary_state.json sidecar, by records of the event stream, or both.   *)
(* Byte contents are abstracted to whether they decode; names to the       *)
(* members of Memories and Globals.                                        *)
(***************************************************************************)

\* InitialState: the memories and globals described, those of the globals
\* declared mutable, and whether every entry decodes.
InitialState ==
  [mems : SUBSET Memories, globals : SUBSET Globals, mutable : SUBSET Globals,
   decodes : BOOLEAN]

EmptyInitial == [mems |-> {}, globals |-> {}, mutable |-> {}, decodes |-> TRUE]

\* HostMutation: the crossing it is anchored to, the memories it writes, the
\* globals it assigns, and whether its bytes and values decode.
HostMutation ==
  [after : Int, writes : SUBSET Memories, sets : SUBSET Globals, decodes : BOOLEAN]

\* *HostState; present = FALSE is the nil pointer.
HostStates ==
  [present : BOOLEAN, initialSeen : BOOLEAN, initial : InitialState,
   mutations : Seq(HostMutation)]

NilHostState ==
  [present |-> FALSE, initialSeen |-> FALSE, initial |-> EmptyInitial,
   mutations |-> <<>>]

\* validate: a state that cannot be applied in full is refused.
Valid(h) ==
  /\ h.initial.decodes
  /\ \A i \in DOMAIN h.mutations :
       LET mu == h.mutations[i]
       IN  /\ mu.after >= 0
           /\ mu.decodes
           /\ mu.sets \subseteq h.initial.mutable

\* The state foldHostStateMarker leaves behind, before it is validated. A
\* second initial record is ignored: the calls already replayed ran under the
\* first.
Folded(h, m) ==
  CASE m.record = "initial" /\ ~h.initialSeen ->
         [h EXCEPT !.present = TRUE, !.initialSeen = TRUE, !.initial = m.initial]
    [] m.record = "initial" /\ h.initialSeen -> h
    [] OTHER ->
         [h EXCEPT !.present = TRUE, !.mutations = Append(@, m.mutation)]

\* foldHostStateMarker fails when the state it produced does not validate; the
\* ignored second initial record is not re-validated.
FoldFails(h, m) ==
  /\ ~(m.record = "initial" /\ h.initialSeen)
  /\ ~Valid(Folded(h, m))

\* reconcileHostState compares the two carriers by their rendering, which
\* leaves out the private initialSeen flag.
SameDocument(h1, h2) ==
  h1.initial = h2.initial /\ h1.mutations = h2.mutations

ReconcileFails(sidecar, streamed) ==
  sidecar.present /\ streamed.present /\ ~SameDocument(sidecar, streamed)

Reconciled(sidecar, streamed) ==
  IF sidecar.present THEN sidecar ELSE streamed

\* MutationsFor: the host writes anchored to one crossing, in stream order.
MutationsFor(h, seq) ==
  SelectSeq(h.mutations, LAMBDA mu : mu.after = seq)

-----------------------------------------------------------------------------
(***************************************************************************)
(* The assembler's own types.                                              *)
(***************************************************************************)

Labels == Exports \cup Imports

\* What parseBindingName makes of a variable name: a slot of an argument or
\* result tuple, or a binding that is not the boundary's.
Binding == [label : Labels, role : {"arg", "ret"}, slot : Nat]
OtherBinding == [label |-> "other", role |-> "other", slot |-> 0]

NoRun == [label |-> NoLabel, role |-> "none", values |-> <<>>]
Run == [label : Labels, role : {"arg", "ret"}, values : Seq(Vals)]

CrossingOf(kind, labels) ==
  [seq : Nat, depth : Nat, kind : {kind}, label : labels, args : Seq(Vals),
   results : Seq(Vals), hasResults : BOOLEAN, markerBracketed : BOOLEAN]

Crossing == CrossingOf("export", Exports) \cup CrossingOf("import", Imports)

OpenCrossing == [idx : Nat \ {0}, label : Labels]

\* An in-stream host-state record; malformed stands for an unknown version,
\* an unknown kind or a missing document.
HostRecord ==
  [t : {"Event"}, what : {"hostState"}, malformed : BOOLEAN,
   record : {"initial", "mutation"}, initial : InitialState,
   mutation : HostMutation]

\* The records of the trace, as the assembler tells them apart.
Record ==
  [t : {"Function"}, name : Exports]
    \cup [t : {"VariableName"}, binding : Binding \cup {OtherBinding}]
    \cup [t : {"Value"}, id : Nat, value : Vals]
    \cup [t : {"Call"}, id : Nat]
    \cup [t : {"Event"}, what : {"enterImport", "leaveImport"}, index : Imports]
    \cup [t : {"Event"}, what : {"other"}]
    \cup HostRecord
    \cup [t : {"Return", "Step", "Other"}]

newAssembler ==
  [functions |-> <<>>, varNames |-> <<>>, crossings |-> <<>>, stack |-> <<>>,
   pending |-> NoRun, groupStart |-> 0, groupEnds |-> <<>>,
   sawImportMarker |-> FALSE, hostState |-> NilHostState, failed |-> FALSE]

-----------------------------------------------------------------------------
Fail(a) == [a EXCEPT !.failed = TRUE]

Top(a) == a.stack[Len(a.stack)]

\* The innermost open crossing, and a with that crossing changed to c.
TopCrossing(a) == a.crossings[Top(a).idx]

WithTop(a, c) == [a EXCEPT !.crossings[Top(a).idx] = c]

TopHasLabel(a, label) == a.stack # <<>> /\ Top(a).label = label

Popped(a) == [a EXCEPT !.stack = SubSeq(@, 1, Len(@) - 1)]

NewCrossing(a, kind, label) ==
  [seq |-> Len(a.crossings), depth |-> Len(a.stack), kind |-> kind,
   label |-> label, args |-> <<>>, results |-> <<>>, hasResults |-> FALSE,
   markerBracketed |-> FALSE]

Appended(a, c) == [a EXCEPT !.crossings = Append(@, c)]

\* Mutant of Opened: the index is taken before the crossing is counted.
OpenedUncounted(a, c) ==
  [a EXCEPT !.crossings = Append(@, c),
            !.stack = Append(@, [idx |-> Len(a.crossings), label |-> c.label])]

\* A crossing whose end has not been seen: appended, and pushed on the stack.
Opened(a, c) ==
  [a EXCEPT !.crossings = Append(@, c),
            !.stack = Append(@, [idx |-> Len(a.crossings) + 1, label |-> c.label])]

\* closeDanglingImports pops an open crossing only when this holds of it.
Dangles(a, open, keep, force) ==
  /\ a.crossings[open.idx].kind = "import"
  /\ open.label # keep
  /\ a.crossings[open.idx].markerBracketed => force

\* The loop stops at the highest open crossing that does not dangle.
Kept(a, keep, force) ==
  Max({0} \cup {k \in 1..Len(a.stack) : ~Dangles(a, a.stack[k], keep, force)})

closeDanglingImports(a, keep, force) ==
  [a EXCEPT !.stack = SubSeq(@, 1, Kept(a, keep, force))]

\* closeRun on an argument run: it opens an import crossing, or fills in the
\* arguments of the export the last Call opened.
ArgumentRun(a, run) ==
  CASE run.label \in Imports ->
         Opened(a, [NewCrossing(a, "import", run.label) EXCEPT !.args = run.values])
    [] run.label \notin Imports /\ TopHasLabel(a, run.label) ->
         WithTop(a, [TopCrossing(a) EXCEPT !.args = run.values])
    [] OTHER -> Fail(a)

\* closeRun on a result run: it belongs to the innermost open crossing, and
\* ends it when that is an import no marker brackets; an import with no open
\* crossing is one that takes no arguments.
FilledResults(a, run) ==
  WithTop(a, [TopCrossing(a) EXCEPT !.results = run.values, !.hasResults = TRUE])

ResultRun(a, run) ==
  CASE TopHasLabel(a, run.label) ->
         IF /\ run.label \in Imports
            /\ ~TopCrossing(a).markerBracketed
         THEN Popped(FilledResults(a, run))
         ELSE FilledResults(a, run)
    [] ~TopHasLabel(a, run.label) /\ run.label \in Imports ->
         Appended(a, [NewCrossing(a, "import", run.label)
                        EXCEPT !.results = run.values, !.hasResults = TRUE])
    [] OTHER -> Fail(a)

\* A run that is not the open import's own result run ends that import.
ContinuedBy(run) == IF run.role = "ret" THEN run.label ELSE NoLabel

closeRun(a) ==
  LET run == a.pending
      b == closeDanglingImports([a EXCEPT !.pending = NoRun], ContinuedBy(run), FALSE)
  IN  CASE run = NoRun -> a
        [] run # NoRun /\ run.role = "arg" -> ArgumentRun(b, run)
        [] OTHER -> ResultRun(b, run)

-----------------------------------------------------------------------------
(***************************************************************************)
(* push, one operator per kind of record.                                  *)
(***************************************************************************)

\* Mutant of noteGroupBoundary: the crossing stack is not looked at.
noteGroupBoundaryEarly(a) ==
  IF a.pending = NoRun /\ Len(a.crossings) > a.groupStart
  THEN [a EXCEPT !.groupEnds = Append(@, Len(a.crossings)),
                 !.groupStart = Len(a.crossings)]
  ELSE a

\* noteGroupBoundary: a group is complete when the crossing stack has emptied
\* and no value run is in flight.
noteGroupBoundary(a) ==
  IF a.stack = <<>> /\ a.pending = NoRun /\ Len(a.crossings) > a.groupStart
  THEN [a EXCEPT !.groupEnds = Append(@, Len(a.crossings)),
                 !.groupStart = Len(a.crossings)]
  ELSE a

pushFunction(a, ev) ==
  LET b == closeRun(a)
  IN  IF b.failed THEN b ELSE [b EXCEPT !.functions = Append(@, ev.name)]

pushVariableName(a, ev) == [a EXCEPT !.varNames = Append(@, ev.binding)]

\* A Call never closes an import left open: it may be a callback from it.
pushCall(a, ev) ==
  LET b == closeRun(a)
  IN  CASE b.failed -> b
        [] ~b.failed /\ ev.id \notin DOMAIN b.functions -> Fail(b)
        [] OTHER -> Opened(b, NewCrossing(b, "export", b.functions[ev.id]))

pushReturn(a) ==
  LET b == closeRun(a)
      c == closeDanglingImports(b, NoLabel, FALSE)
  IN  CASE b.failed -> b
        [] /\ ~b.failed
           /\ c.stack = <<>> \/ TopCrossing(c).kind # "export" -> Fail(c)
        [] OTHER -> Popped(c)

\* pushValue: the run in flight ends when the binding's label or role changes
\* or its slot restarts at 0; slots arrive in order.
StartsNewRun(run, bind) ==
  /\ run # NoRun
  /\ \/ run.label # bind.label
     \/ run.role # bind.role
     \/ bind.slot = 0 /\ run.values # <<>>

pushValue(a, ev) ==
  IF ev.id \notin DOMAIN a.varNames THEN Fail(a)
  ELSE LET bind == a.varNames[ev.id]
           b == IF bind = OtherBinding \/ StartsNewRun(a.pending, bind)
                THEN closeRun(a) ELSE a
           values == b.pending.values
       IN  CASE b.failed \/ bind = OtherBinding -> b
             [] ~b.failed /\ bind # OtherBinding /\ bind.slot # Len(values) -> Fail(b)
             [] OTHER -> [b EXCEPT !.pending = [label |-> bind.label, role |-> bind.role,
                                                values |-> Append(values, ev.value)]]

\* The innermost open crossing, when it is this import and its ENTER marker
\* has (bracketed) or has not been seen.
TopIsImport(a, index, bracketed) ==
  /\ a.stack # <<>>
  /\ TopCrossing(a).kind = "import"
  /\ TopCrossing(a).label = index
  /\ TopCrossing(a).markerBracketed = bracketed

\* Mutant of openMarkedImport: the crossing it adopts is not marked.
openMarkedImportUnmarked(a, index) ==
  IF TopIsImport(a, index, FALSE) THEN a
  ELSE Opened(a, [NewCrossing(a, "import", index) EXCEPT !.markerBracketed = TRUE])

\* openMarkedImport adopts the crossing its argument run has just opened.
openMarkedImport(a, index) ==
  IF TopIsImport(a, index, FALSE)
  THEN WithTop(a, [TopCrossing(a) EXCEPT !.markerBracketed = TRUE])
  ELSE Opened(a, [NewCrossing(a, "import", index) EXCEPT !.markerBracketed = TRUE])

closeMarkedImport(a, index) ==
  IF TopIsImport(a, index, TRUE) THEN Popped(a) ELSE Fail(a)

pushHostState(a, ev) ==
  IF ev.malformed \/ FoldFails(a.hostState, ev) THEN Fail(a)
  ELSE [a EXCEPT !.hostState = Folded(@, ev)]

\* pushEvent: every Event ends the run in flight; only a host-state record and
\* a realm marker naming an import edge do more.
pushEvent(a, ev) ==
  LET b == closeRun(a)
      saw == [b EXCEPT !.sawImportMarker = TRUE]
  IN  CASE b.failed -> b
        [] ~b.failed /\ ev.what = "hostState" -> pushHostState(b, ev)
        [] ~b.failed /\ ev.what = "enterImport" -> openMarkedImport(saw, ev.index)
        [] ~b.failed /\ ev.what = "leaveImport" -> closeMarkedImport(saw, ev.index)
        [] OTHER -> b

\* The records other than these carry nothing for the assembler ("Other"),
\* or only end the run in flight ("Step", which stands for Path as well).
Handled(a, ev) ==
  CASE ev.t = "Function" -> pushFunction(a, ev)
    [] ev.t = "VariableName" -> pushVariableName(a, ev)
    [] ev.t = "Value" -> pushValue(a, ev)
    [] ev.t = "Call" -> pushCall(a, ev)
    [] ev.t = "Event" -> pushEvent(a, ev)
    [] ev.t = "Return" -> pushReturn(a)
    [] ev.t = "Step" -> closeRun(a)
    [] OTHER -> a

\* Mutant of push: the group boundary is left to finish.
pushUngrouped(a, ev) == Handled(a, ev)

push(a, ev) ==
  LET b == Handled(a, ev) IN IF b.failed THEN b ELSE noteGroupBoundary(b)

\* finish: at the end of the input an open import is closed even when its
\* LEAVE marker never came; an open export is an error.
finish(a) ==
  LET b == closeRun(a)
      c == closeDanglingImports(b, NoLabel, TRUE)
  IN  CASE b.failed -> b
        [] ~b.failed /\ c.stack # <<>> -> Fail(c)
        [] OTHER -> noteGroupBoundary(c)

\* group(i): the crossings of the i-th completed call group, from 1.
GroupFirst(a, i) == IF i = 1 THEN 1 ELSE a.groupEnds[i - 1] + 1

group(a, i) == SubSeq(a.crossings, GroupFirst(a, i), a.groupEnds[i])

openCrossings(a) == Len(a.stack)

-----------------------------------------------------------------------------
(***************************************************************************)
(* What holds of an assembler, whatever records it has been fed.           *)
(***************************************************************************)

Assemblers ==
  [functions : Seq(Exports), varNames : Seq(Binding \cup {OtherBinding}),
   crossings : Seq(Crossing), stack : Seq(OpenCrossing),
   pending : Run \cup {NoRun}, groupStart : Nat, groupEnds : Seq(Nat),
   sawImportMarker : BOOLEAN, hostState : HostStates, failed : BOOLEAN]

\* Seq is the crossing's position in call order (recording.go).
CrossingsNumbered(a) == \A i \in 1..Len(a.crossings) : a.crossings[i].seq = i - 1

\* The open crossings were opened in stack order, each at the depth it sits
\* at, and all of them belong to the group being assembled.
StackNested(a) ==
  /\ \A k \in 1..Len(a.stack) :
       /\ a.stack[k].idx \in (a.groupStart + 1)..Len(a.crossings)
       /\ a.crossings[a.stack[k].idx].depth = k - 1
       /\ a.crossings[a.stack[k].idx].label = a.stack[k].label
  /\ \A j, k \in 1..Len(a.stack) : j < k => a.stack[j].idx < a.stack[k].idx

\* The completed groups partition the first groupStart crossings.
GroupsDelimited(a) ==
  /\ a.groupStart <= Len(a.crossings)
  /\ a.groupStart = IF a.groupEnds = <<>> THEN 0 ELSE a.groupEnds[Len(a.groupEnds)]
  /\ \A i \in 1..Len(a.groupEnds) : a.groupEnds[i] \in 1..a.groupStart
  /\ \A i, j \in 1..Len(a.groupEnds) : i < j => a.groupEnds[i] < a.groupEnds[j]

IsTop(c) == c.kind = "export" /\ c.depth = 0

\* The top-level export of the group being assembled is the bottom of the
\* stack: it is open as long as its group is.
OpenGroupTop(a) ==
  \A i \in (a.groupStart + 1)..Len(a.crossings) :
    IsTop(a.crossings[i]) => a.stack # <<>> /\ a.stack[1].idx = i

\* Two top-level exports are separated by the end of a group.
TopsSeparated(a) ==
  \A i, j \in 1..Len(a.crossings) :
    i < j /\ IsTop(a.crossings[i]) /\ IsTop(a.crossings[j])
      => \E g \in 1..Len(a.groupEnds) : i <= a.groupEnds[g] /\ a.groupEnds[g] < j

\* An exported call has not returned.
ExportOpen(a) ==
  \E k \in 1..Len(a.stack) : a.crossings[a.stack[k].idx].kind = "export"

\* Between two records that leave nothing open, every crossing belongs to a
\* completed group.
Settled(a) ==
  a.stack = <<>> /\ a.pending = NoRun => a.groupStart = Len(a.crossings)
=============================================================================
