---------------------------- MODULE SliceWriter ----------------------------
(***************************************************************************)
(* internal/wasmsnapshot/slice.go: a replay cut into slice containers. The *)
(* replay calls AtQuiescentPoint at every quiescent point; the writer      *)
(* seals the open slice where its policy says so and swaps the recorder    *)
(* attached to the module; Finish seals the last slice and writes the      *)
(* manifest. Any step may fail, which ends the replay (replay.go: "An      *)
(* error from it aborts the replay"), and the recorder may be run again    *)
(* over the same directory.                                                *)
(***************************************************************************)
EXTENDS Integers, Sequences, FiniteSets

CONSTANTS
  EveryPoints,    \* SlicePolicy.EveryPoints
  TargetBytes,    \* SlicePolicy.TargetBytes
  SnapshotEvery,  \* SliceOptions.SnapshotEvery
  SnapshotBytes,  \* the payload sizes one snapshot may add
  MaxPoint,       \* the most exported calls a recording has
  MaxRuns         \* the most times the recorder is run

ASSUME SliceAssumption ==
  /\ EveryPoints \in Nat /\ TargetBytes \in Nat /\ SnapshotEvery \in Nat
  /\ SnapshotBytes \subseteq Nat
  /\ MaxPoint \in Nat /\ MaxRuns \in Nat

VARIABLES
  replay,    \* what the replay does next: "hook", "call", "finish" or "over"
  point,     \* the quiescent point it is at
  open,      \* SliceWriter.open
  sealed,    \* SliceWriter.sealed
  lastPoint, \* SliceWriter.lastPoint
  attached,  \* the slice whose recorder the module holds
  recorded,  \* which exported calls each recorder has recorded
  run,       \* which run of the recorder this is
  disk,      \* the containers in the slice directory
  manifest   \* the manifest in it

sliceVars ==
  <<replay, point, open, sealed, lastPoint, attached, recorded, run, disk, manifest>>

NoSlice == [base |-> -1, points |-> <<>>, snaps |-> {}, payload |-> 0]
NoRecorder == -1
NoManifest == [run |-> 0, total |-> 0, slices |-> <<>>]

OpenSlice == [base : Nat, points : Seq(Nat), snaps : SUBSET Nat, payload : Nat]
\* payload, which SliceInfo does not keep, is there for SlicesFollowPolicy.
SliceInfo == [base : Nat, end : Nat, points : Nat, snaps : SUBSET Nat, payload : Nat]
Container == [index : Nat, run : Nat, complete : BOOLEAN]
Manifest == [run : Nat, total : Nat, slices : Seq(SliceInfo)]

-----------------------------------------------------------------------------
sealsAfter(span, payload) ==
  \/ EveryPoints > 0 /\ span >= EveryPoints
  \/ TargetBytes > 0 /\ payload >= TargetBytes

snapshotDue(base, p) == SnapshotEvery <= 1 \/ (p - base) % SnapshotEvery = 0

\* Mutant of addPoint: a point without a snapshot is not listed.
addPointSnapshotsOnly(s, p, bytes) ==
  IF snapshotDue(s.base, p)
  THEN [s EXCEPT !.points = Append(@, p), !.snaps = @ \cup {p}, !.payload = @ + bytes]
  ELSE s

\* addPoint: every point is listed, some carry a snapshot.
addPoint(s, p, bytes) ==
  IF snapshotDue(s.base, p)
  THEN [s EXCEPT !.points = Append(@, p), !.snaps = @ \cup {p}, !.payload = @ + bytes]
  ELSE [s EXCEPT !.points = Append(@, p)]

\* openSliceAt: the base always carries a snapshot.
NewSlice(p, bytes) == [base |-> p, points |-> <<p>>, snaps |-> {p}, payload |-> bytes]

Info(s, end) ==
  [base |-> s.base, end |-> end, points |-> Len(s.points), snaps |-> s.snaps,
   payload |-> s.payload]

\* Mutant of Written: the directory is emptied first.
WrittenAfresh(i, complete) == {[index |-> i, run |-> run, complete |-> complete]}

\* The container of slice i, written by this run over whatever was there.
Written(i, complete) ==
  {c \in disk : c.index # i} \cup {[index |-> i, run |-> run, complete |-> complete]}

\* The index of the open slice (openSlice.index).
Index == Len(sealed)

-----------------------------------------------------------------------------
(***************************************************************************)
(* AtQuiescentPoint.                                                       *)
(***************************************************************************)

OpenFirst ==
  /\ replay = "hook"
  /\ open = NoSlice
  /\ \E bytes \in SnapshotBytes : open' = NewSlice(point, bytes)
  /\ lastPoint' = point
  /\ attached' = Index
  /\ replay' = "call"
  /\ UNCHANGED <<point, sealed, recorded, run, disk, manifest>>

\* The open slice with the point the replay has reached.
Reached(bytes) == addPoint(open, point, bytes)

Advances == replay = "hook" /\ open # NoSlice /\ point > lastPoint

ListPoint ==
  /\ Advances
  /\ \E bytes \in SnapshotBytes :
       /\ ~sealsAfter(point - open.base, Reached(bytes).payload)
       /\ open' = Reached(bytes)
  /\ lastPoint' = point
  /\ replay' = "call"
  /\ UNCHANGED <<point, sealed, attached, recorded, run, disk, manifest>>

\* Mutants of SealAndOpen: the next slice begins one point late; the module
\* keeps the sealed slice's recorder.
SealAndOpenLate ==
  /\ Advances
  /\ \E bytes, base \in SnapshotBytes :
       /\ sealsAfter(point - open.base, Reached(bytes).payload)
       /\ sealed' = Append(sealed, Info(Reached(bytes), point))
       /\ open' = NewSlice(point + 1, base)
  /\ disk' = Written(Index, TRUE)
  /\ attached' = Index + 1
  /\ lastPoint' = point
  /\ replay' = "call"
  /\ UNCHANGED <<point, recorded, run, manifest>>

SealAndOpenUnswapped ==
  /\ Advances
  /\ \E bytes, base \in SnapshotBytes :
       /\ sealsAfter(point - open.base, Reached(bytes).payload)
       /\ sealed' = Append(sealed, Info(Reached(bytes), point))
       /\ open' = NewSlice(point, base)
  /\ disk' = Written(Index, TRUE)
  /\ lastPoint' = point
  /\ replay' = "call"
  /\ UNCHANGED <<point, attached, recorded, run, manifest>>

\* seal, then openSliceAt the same point.
SealAndOpen ==
  /\ Advances
  /\ \E bytes, base \in SnapshotBytes :
       /\ sealsAfter(point - open.base, Reached(bytes).payload)
       /\ sealed' = Append(sealed, Info(Reached(bytes), point))
       /\ open' = NewSlice(point, base)
  /\ disk' = Written(Index, TRUE)
  /\ attached' = Index + 1
  /\ lastPoint' = point
  /\ replay' = "call"
  /\ UNCHANGED <<point, recorded, run, manifest>>

\* Capturing a point that is due fails: it is listed and carries nothing.
CaptureFails ==
  /\ replay = "hook"
  /\ open # NoSlice => Advances /\ snapshotDue(open.base, point)
  /\ open' = IF open = NoSlice
             THEN [base |-> point, points |-> <<point>>, snaps |-> {}, payload |-> 0]
             ELSE [open EXCEPT !.points = Append(@, point)]
  /\ lastPoint' = IF open = NoSlice THEN lastPoint ELSE point
  /\ replay' = "over"
  /\ UNCHANGED <<point, sealed, attached, recorded, run, disk, manifest>>

\* seal fails: producing the trace (the container may or may not be there),
\* attaching the snapshots, or handing the finished slice to OnSealed.
SealFailsAt(end, s) ==
  /\ open' = NoSlice
  /\ attached' = NoRecorder
  /\ \/ UNCHANGED <<disk, sealed>>
     \/ disk' = Written(Index, FALSE) /\ UNCHANGED sealed
     \/ disk' = Written(Index, TRUE) /\ sealed' = Append(sealed, Info(s, end))
  /\ replay' = "over"
  /\ UNCHANGED <<point, recorded, run, manifest>>

SealFails ==
  /\ Advances
  /\ \E bytes \in SnapshotBytes :
       /\ sealsAfter(point - open.base, Reached(bytes).payload)
       /\ SealFailsAt(point, Reached(bytes))
  /\ lastPoint' = point

\* The slice is sealed and the next one cannot be opened.
ReopenFails ==
  /\ Advances
  /\ \E bytes \in SnapshotBytes :
       /\ sealsAfter(point - open.base, Reached(bytes).payload)
       /\ sealed' = Append(sealed, Info(Reached(bytes), point))
  /\ open' = [base |-> point, points |-> <<point>>, snaps |-> {}, payload |-> 0]
  /\ disk' = Written(Index, TRUE)
  /\ attached' = NoRecorder
  /\ lastPoint' = point
  /\ replay' = "over"
  /\ UNCHANGED <<point, recorded, run, manifest>>

-----------------------------------------------------------------------------
(***************************************************************************)
(* The replay between two points (replay.go, stream_replay.go), and the    *)
(* command that runs it.                                                   *)
(***************************************************************************)

\* The call from this point to the next, recorded by the attached recorder.
CallReturns ==
  /\ replay = "call"
  /\ point < MaxPoint
  /\ recorded' = recorded \cup {<<attached, point>>}
  /\ point' = point + 1
  /\ replay' = "hook"
  /\ UNCHANGED <<open, sealed, lastPoint, attached, run, disk, manifest>>

\* It diverges, traps, or the process dies.
CallFails ==
  /\ replay = "call"
  /\ point < MaxPoint
  /\ recorded' = recorded \cup {<<attached, point>>}
  /\ replay' = "over"
  /\ UNCHANGED <<point, open, sealed, lastPoint, attached, run, disk, manifest>>

ReplayEnds ==
  /\ replay = "call"
  /\ replay' = "finish"
  /\ UNCHANGED <<point, open, sealed, lastPoint, attached, recorded, run, disk, manifest>>

\* The recorder is run again over the same directory.
RunAgain ==
  /\ replay = "over"
  /\ run < MaxRuns
  /\ run' = run + 1
  /\ replay' = "hook"
  /\ point' = 0
  /\ open' = NoSlice
  /\ sealed' = <<>>
  /\ lastPoint' = 0
  /\ attached' = NoRecorder
  /\ recorded' = {}
  /\ UNCHANGED <<disk, manifest>>

-----------------------------------------------------------------------------
(***************************************************************************)
(* Finish.                                                                 *)
(***************************************************************************)

\* checkTiling: each slice starts where the one before it ended.
checkTiling(slices) ==
  \A i \in 1..(Len(slices) - 1) : slices[i + 1].base = slices[i].end

\* Mutant of FinalSlices: the open slice is dropped.
FinalSlicesDropped == sealed

\* An open slice that covers no call is dropped, any other is sealed.
FinalSlices ==
  IF open.base = lastPoint THEN sealed ELSE Append(sealed, Info(open, lastPoint))

Finish ==
  /\ replay = "finish"
  /\ sealed' = FinalSlices
  /\ disk' = IF open.base = lastPoint THEN disk ELSE Written(Index, TRUE)
  /\ open' = NoSlice
  /\ attached' = NoRecorder
  /\ \/ /\ sealed' # <<>> /\ checkTiling(sealed')
        /\ manifest' = [run |-> run, total |-> lastPoint + 1, slices |-> sealed']
     \* no slice was produced, or the manifest cannot be written; writing it
     \* truncates the one that was there
     \/ UNCHANGED manifest
     \/ sealed' # <<>> /\ manifest' = NoManifest
  /\ replay' = "over"
  /\ UNCHANGED <<point, lastPoint, recorded, run>>

FinishFails ==
  /\ replay = "finish"
  /\ open.base # lastPoint
  /\ SealFailsAt(lastPoint, open)
  /\ UNCHANGED lastPoint

-----------------------------------------------------------------------------
Init ==
  /\ replay = "hook"
  /\ point = 0
  /\ open = NoSlice
  /\ sealed = <<>>
  /\ lastPoint = 0
  /\ attached = NoRecorder
  /\ recorded = {}
  /\ run = 1
  /\ disk = {}
  /\ manifest = NoManifest

Next ==
  \/ OpenFirst \/ ListPoint \/ SealAndOpen \/ CaptureFails \/ SealFails \/ ReopenFails
  \/ CallReturns \/ CallFails \/ ReplayEnds \/ RunAgain \/ Finish \/ FinishFails

Spec == Init /\ [][Next]_sliceVars

-----------------------------------------------------------------------------
(***************************************************************************)
(* Properties.                                                             *)
(***************************************************************************)

\* The fields hold what slice.go declares them to hold.
TypeOK ==
  /\ replay \in {"hook", "call", "finish", "over"}
  /\ point \in Nat /\ lastPoint \in Nat /\ run \in Nat
  /\ open \in OpenSlice \cup {NoSlice}
  /\ sealed \in Seq(SliceInfo)
  /\ attached \in Nat \cup {NoRecorder}
  /\ recorded \in SUBSET ((Nat \cup {NoRecorder}) \X Nat)
  /\ disk \in SUBSET Container
  /\ manifest \in Manifest

\* Where the sealed slices end.
SealedEnd == IF sealed = <<>> THEN 0 ELSE sealed[Len(sealed)].end

Tiles(slices, from, to) ==
  /\ slices # <<>> => slices[1].base = from /\ slices[Len(slices)].end = to
  /\ slices = <<>> => from = to
  /\ \A i \in 1..(Len(slices) - 1) : slices[i + 1].base = slices[i].end
  /\ \A i \in 1..Len(slices) : slices[i].base < slices[i].end

\* The sealed slices cover the calls from the first one on, with no gap, no
\* overlap and no empty slice, and the open slice begins where they end,
\* whatever failed (checkTiling: "a gap would lose a range of exported calls
\* silently, and an overlap would materialise one twice").
SlicesTile ==
  /\ Tiles(sealed, 0, SealedEnd)
  /\ open # NoSlice => open.base = SealedEnd /\ open.base <= point
  /\ SealedEnd <= point

\* An exported call is recorded by the recorder of the slice whose range holds
\* it and by no other: swapping recorders neither loses a call nor records it
\* twice. A replay that has stopped may have left its last call partial.
CallsInTheirSlice ==
  \A c \in 0..(point - 1) :
    LET owners == {s \in 1..Len(sealed) : sealed[s].base <= c /\ c < sealed[s].end}
        by == {rc[1] : rc \in {x \in recorded : x[2] = c}}
    IN  IF c < SealedEnd THEN \E s \in owners : owners = {s} /\ by = {s - 1}
        ELSE by = {Len(sealed)}

\* A slice lists each point of its range once, in order, can be entered at its
\* first (slice.go: "Every slice opens with a base snapshot"), and is sealed at
\* the first point its policy allows, so that none is longer than EveryPoints
\* and only the last one may be shorter.
SlicesFollowPolicy ==
  /\ \A i \in 1..Len(sealed) :
       LET span == sealed[i].end - sealed[i].base
       IN  /\ sealed[i].points = span + 1
           /\ sealed[i].base \in sealed[i].snaps
           /\ sealed[i].snaps \subseteq sealed[i].base..sealed[i].end
           /\ EveryPoints > 0 => span <= EveryPoints
           /\ i < Len(sealed) => sealsAfter(span, sealed[i].payload)
  /\ replay = "call" => open.points = [k \in 1..(point - open.base + 1) |-> open.base + k - 1]

\* The manifest this run wrote describes the whole recording it replayed and
\* only containers it completed (slice.go: "Their ranges tile
\* [0, TotalPoints-1] exactly").
ManifestComplete ==
  manifest.run = run =>
    /\ Tiles(manifest.slices, 0, manifest.total - 1)
    /\ manifest.total = lastPoint + 1
    /\ \A i \in 1..Len(manifest.slices) :
         [index |-> i - 1, run |-> run, complete |-> TRUE] \in disk

\* A sealed slice is final: its entry and its container are not touched again
\* by the run that sealed it.
SealedFrozen ==
  [][run' = run =>
       /\ \A i \in 1..Len(sealed) : i \in DOMAIN sealed' /\ sealed'[i] = sealed[i]
       /\ \A c \in disk : c.run = run /\ c.complete => c \in disk']_sliceVars
=============================================================================
