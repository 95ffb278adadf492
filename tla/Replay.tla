------------------------------- MODULE Replay -------------------------------
(***************************************************************************)
(* internal/boundarylog/replay.go and stream_replay.go: re-executing a     *)
(* module against its boundary recording. The recording is replayed twice, *)
(* as a user may: by StreamingReplay, one call group at a time as the      *)
(* stream delivers them, then by Replay from the finished files, in full   *)
(* or over a range of quiescent points.                                    *)
(*                                                                         *)
(* The guest is any deterministic module. What it does in the k-th         *)
(* exported call (0 is its start function) is chosen a step at a time by   *)
(* whichever driver executes that call first and kept in script; the other *)
(* driver's guest, fed the same recorded results, does the same.           *)
(***************************************************************************)
EXTENDS Assembler

CONSTANTS
  ImportSig,      \* import -> [params, results], the arities of its signature
  ExportSig,      \* export of the module -> [params, results]
  NeededMemories, \* the memories the module imports
  NeededGlobals,  \* the globals the module imports
  StartImports,   \* most imports its start function calls
  MaxImports,     \* most imports an exported call makes
  Recordings,     \* the recordings replayed
  Ranges          \* the FromPoint, ToPoint and Resume options of the batch driver

\* A recording: what reconstructCrossings makes of its records, the host-state
\* records in its stream, each read before call group number `before` is
\* complete, and its sidecar.
Recording ==
  [crossings : Seq(Crossing), groupEnds : Seq(Nat),
   host : Seq([before : Nat, rec : HostRecord]), sidecar : HostStates]

\* The crossings are numbered and the groups partition them, none with two
\* top-level exports: Reconstruction.StructureSound, once finish has run.
Reconstructed(a) ==
  /\ CrossingsNumbered(a)
  /\ GroupsDelimited([crossings |-> a.crossings, groupEnds |-> a.groupEnds,
                      groupStart |-> Len(a.crossings)])
  /\ TopsSeparated(a)

ASSUME ReplayAssumption ==
  /\ ImportSig \in [Imports -> [params : Nat, results : Nat]]
  /\ DOMAIN ExportSig \subseteq Exports
  /\ NeededMemories \subseteq Memories /\ NeededGlobals \subseteq Globals
  /\ StartImports \in Nat /\ MaxImports \in Nat
  /\ Recordings \subseteq Recording /\ \A a \in Recordings : Reconstructed(a)
  /\ Ranges \subseteq [from : Nat, to : Nat, resume : BOOLEAN]

VARIABLES
  rec,      \* the finished recording
  stream,   \* how many of its groups the stream delivers, and how it ends
  driver,   \* the driver that is running: "streaming", "batch" or "none"
  range,    \* the options of the batch driver
  r,        \* the replayer of the running driver
  script,   \* what the guest does, by call
  verdict,  \* what each driver returned; "" while it has not
  final     \* the replayer each driver ended with

replayVars == <<rec, stream, driver, range, r, script, verdict, final>>

-----------------------------------------------------------------------------
(***************************************************************************)
(* The recording as the drivers read it.                                   *)
(***************************************************************************)

Valueless(i) == ImportSig[i].params = 0 /\ ImportSig[i].results = 0

\* TopLevelExports and NestedExports, as sets of indices.
Tops(cs) == {i \in DOMAIN cs : IsTop(cs[i])}
Nested(cs) == {i \in DOMAIN cs : cs[i].kind = "export" /\ cs[i].depth > 0}

\* exports[k], from 1: the index of the k-th top-level export.
TopLevelExport(cs, k) == CHOOSE i \in Tops(cs) : Cardinality({j \in Tops(cs) : j <= i}) = k

\* MarkersIdentifyImports of the first n crossings.
MarkersIdentifyImports(n) == \E i \in 1..n : rec.crossings[i].markerBracketed

\* The host state the first n host-state records of the stream fold to.
Streamed(n) ==
  LET after[k \in 0..n] ==
        IF k = 0 THEN NilHostState ELSE Folded(after[k - 1], rec.host[k].rec)
  IN  after[n]

\* The records read when group g is handed out: all that precede its end, and
\* whatever the read that completed it brought in besides. The stream carries
\* those that precede the group it is cut in.
ReadWith(g) ==
  {n \in 0..Len(rec.host) :
     \A k \in DOMAIN rec.host :
       /\ rec.host[k].before <= g => k <= n
       /\ rec.host[k].before > stream.groups + 1 => n < k}

-----------------------------------------------------------------------------
(***************************************************************************)
(* The replayer. pc: "begin", "prepare", "start" (the guest's start        *)
(* function is running), "idle" (at a quiescent point), "drive" (a group   *)
(* is waiting), "guest" (in an exported call), "end", "returned".          *)
(***************************************************************************)

\* next is where preparing leads, to the batch driver's last point, groups the
\* call groups the stream has delivered and arrived its host-state records;
\* visible is the length of Recording.Crossings as the replayer sees it, host
\* the carrier Recording.HostState points to, inst the state the provider
\* modules were built from.
newReplayer(visible, host) ==
  [pc |-> "begin", cursor |-> 0, err |-> "", deferred |-> "", visible |-> visible,
   witness |-> MarkersIdentifyImports(visible), host |-> host, arrived |-> 0,
   groups |-> 0, next |-> "idle", to |-> 0, call |-> 0, step |-> 0, instantiated |-> FALSE,
   inst |-> NilHostState, exportCalls |-> 0, importCalls |-> 0, unchecked |-> 0,
   points |-> <<>>, applied |-> <<>>]

\* Recording.HostState; the streamed one is live, records that arrive later
\* show in it.
HostNow(p) ==
  CASE p.host = "sidecar" -> rec.sidecar
    [] p.host = "streamed" -> Streamed(p.arrived)
    [] OTHER -> NilHostState

undescribedImportedMemory(h) == NeededMemories \ h.initial.mems # {}

\* checkExportCrossing: the module exports the function with these arities and
\* the results it returns were recorded.
checkExportCrossing(c) ==
  /\ c.label \in DOMAIN ExportSig
  /\ Len(c.args) = ExportSig[c.label].params
  /\ ExportSig[c.label].results > 0 => c.hasResults

\* Mutant of matchImportCrossing: the last crossing shown is never matched.
matchImportCrossingButLast(p, i, args) ==
  LET c == rec.crossings[p.cursor + 1]
  IN  CASE p.cursor + 1 >= p.visible -> "import call"
        [] p.cursor + 1 < p.visible /\ c.kind # "import" -> "crossing kind"
        [] p.cursor + 1 < p.visible /\ c.kind = "import" /\ c.label # i -> "import index"
        [] OTHER ->
             CASE Len(c.args) # ImportSig[i].params -> "argument arity"
               [] Len(c.args) = ImportSig[i].params /\ c.args # args -> "argument"
               [] OTHER -> ""

\* matchImportCrossing: "" or what differs from the crossing at the cursor.
matchImportCrossing(p, i, args) ==
  LET c == rec.crossings[p.cursor + 1]
  IN  CASE p.cursor >= p.visible -> "import call"
        [] p.cursor < p.visible /\ c.kind # "import" -> "crossing kind"
        [] p.cursor < p.visible /\ c.kind = "import" /\ c.label # i -> "import index"
        [] OTHER ->
             CASE Len(c.args) # ImportSig[i].params -> "argument arity"
               [] Len(c.args) = ImportSig[i].params /\ c.args # args -> "argument"
               [] OTHER -> ""

\* serviceUnwitnessedValuelessImport: the streaming driver keeps what the
\* strict reading would have reported at the first such call.
serviceUnwitnessedValuelessImport(p, i) ==
  LET strict == matchImportCrossing(p, i, <<>>)
      what == CASE driver # "streaming" \/ p.deferred # "" -> p.deferred
                [] driver = "streaming" /\ p.deferred = "" /\ strict = "" -> "mixed"
                [] OTHER -> strict
  IN  [p EXCEPT !.unchecked = @ + 1, !.deferred = what]

\* applyMutations reaches only memories and globals a provider was built for.
MutationsApply(p, seq) ==
  LET mus == MutationsFor(HostNow(p), seq)
  IN  \A m \in DOMAIN mus :
        /\ mus[m].writes \subseteq p.inst.initial.mems
        /\ mus[m].sets \subseteq p.inst.initial.mutable

serviceImport(p, i, args) ==
  LET c == rec.crossings[p.cursor + 1]
      differs == matchImportCrossing(p, i, args)
  IN  CASE p.err # "" -> p
        [] p.err = "" /\ Valueless(i) /\ ~p.witness -> serviceUnwitnessedValuelessImport(p, i)
        [] OTHER ->
             CASE differs # "" -> [p EXCEPT !.err = differs]
               [] differs = "" /\ ~MutationsApply(p, p.cursor) -> [p EXCEPT !.err = "mutation"]
               [] OTHER ->
                    IF \/ ImportSig[i].results > 0 /\ ~c.hasResults
                       \/ Len(c.results) # ImportSig[i].results
                    THEN [p EXCEPT !.err = "import result"]
                    ELSE [p EXCEPT !.cursor = @ + 1, !.importCalls = @ + 1,
                                   !.applied = @ \o MutationsFor(HostNow(p), p.cursor)]

-----------------------------------------------------------------------------
(***************************************************************************)
(* Steps both drivers take.                                                *)
(***************************************************************************)

\* The driver returns.
End(what, p) ==
  /\ driver' = "none"
  /\ verdict' = [verdict EXCEPT ![driver] = what]
  /\ final' = [final EXCEPT ![driver] = p]
  /\ r' = [p EXCEPT !.pc = "returned"]

Continue(p) == r' = p /\ UNCHANGED <<driver, verdict, final>>

\* atQuiescentPoint: the caller's hook, which may fail.
atQuiescentPoint(p, point) ==
  LET q == [p EXCEPT !.points = Append(@, point)]
  IN  Continue(q) \/ End("hook", q)

\* The carrier reconcileHostState chooses.
Carrier(arrived) ==
  CASE rec.sidecar.present -> "sidecar"
    [] ~rec.sidecar.present /\ Streamed(arrived).present -> "streamed"
    [] OTHER -> "none"

\* prepare, as far as the start function. A missing global is the runtime's
\* own instantiation error.
Prepare ==
  /\ r.pc = "prepare"
  /\ LET p == [r EXCEPT !.host = Carrier(r.arrived)]
         h == HostNow(p)
     IN  IF ReconcileFails(rec.sidecar, Streamed(r.arrived)) THEN End("host state", r)
         ELSE IF undescribedImportedMemory(h) THEN End("memory", p)
         ELSE IF NeededGlobals \ h.initial.globals # {} THEN End("instantiate", p)
         ELSE Continue([p EXCEPT !.pc = "start", !.inst = h, !.step = 0])
  /\ UNCHANGED <<rec, stream, range, script>>

\* The guest takes a step: the one it took before in this call, if it did.
GuestDoes(st) ==
  LET known == script[r.call]
  IN  IF r.step < Len(known) THEN st = known[r.step + 1] /\ UNCHANGED script
      ELSE script' = [script EXCEPT ![r.call] = Append(@, st)]

ImportStep(i, args) == [do |-> "import", label |-> i, values |-> args]
ReturnStep(values) == [do |-> "return", label |-> NoLabel, values |-> values]
TrapStep == [do |-> "trap", label |-> NoLabel, values |-> <<>>]

\* The guest calls an import. Once a stub has stashed a divergence the later
\* ones change nothing: what a diverged guest does is left out.
GuestImport ==
  /\ \/ r.pc = "start" /\ r.step < StartImports
     \/ r.pc = "guest" /\ r.step < MaxImports
  /\ r.err = ""
  /\ \E i \in Imports : \E args \in [1..ImportSig[i].params -> Vals] :
       /\ GuestDoes(ImportStep(i, args))
       /\ Continue([serviceImport(r, i, args) EXCEPT !.step = @ + 1])
  /\ UNCHANGED <<rec, stream, range>>

\* resolveRange.
To(n) == IF range.to = 0 THEN n ELSE range.to
RangeOK(n) ==
  /\ range.from <= n
  /\ To(n) \in range.from..n
  /\ range.from > 0 => range.resume

\* The cursor of quiescent point k: the export it precedes, or the end.
CursorAt(k) ==
  IF k < Cardinality(Tops(rec.crossings))
  THEN rec.crossings[TopLevelExport(rec.crossings, k + 1)].seq
  ELSE Len(rec.crossings)

\* prepare after the start function; then the first quiescent point, to which
\* the batch driver seeks (Options.Resume may fail).
Prepared ==
  LET p == [r EXCEPT !.pc = r.next, !.instantiated = TRUE, !.step = 0]
      n == Cardinality(Tops(rec.crossings))
  IN  CASE driver = "streaming" -> atQuiescentPoint(p, 0)
        [] driver = "batch" /\ ~RangeOK(n) -> End("range", r)
        [] OTHER ->
             \/ range.from > 0 /\ End("resume", r)
             \/ atQuiescentPoint(
                  [p EXCEPT !.cursor = IF range.from > 0 THEN CursorAt(range.from) ELSE @,
                            !.call = range.from, !.to = To(n)],
                  range.from)

\* prepare does not look at what the stubs stashed.
StartReturns ==
  /\ r.pc = "start"
  /\ IF r.err = "" THEN GuestDoes(ReturnStep(<<>>)) ELSE UNCHANGED script
  /\ Prepared
  /\ UNCHANGED <<rec, stream, range>>

StartTraps ==
  /\ r.pc = "start"
  /\ IF r.err = "" THEN GuestDoes(TrapStep) ELSE UNCHANGED script
  /\ End("start trap", r)
  /\ UNCHANGED <<rec, stream, range>>

\* callExport up to the call itself; checkExportCrossing has seen to the
\* arguments.
callExport(p, c) ==
  IF p.cursor >= p.visible \/ p.cursor # c.seq THEN End("crossing order", p)
  ELSE Continue([p EXCEPT !.pc = "guest", !.cursor = @ + 1, !.exportCalls = @ + 1,
                          !.call = @ + 1, !.step = 0])

\* Mutant of GuestReturns: the point is the number of calls made, which is not
\* its number when the replay began at a later point.
GuestReturnsCounted ==
  /\ r.pc = "guest"
  /\ r.err = ""
  /\ LET c == rec.crossings[TopLevelExport(rec.crossings, r.call)]
     IN  \E values \in [1..ExportSig[c.label].results -> Vals] :
           /\ GuestDoes(ReturnStep(values))
           /\ IF c.results # values THEN End("return value", r)
              ELSE atQuiescentPoint([r EXCEPT !.pc = "idle"], r.exportCalls)
  /\ UNCHANGED <<rec, stream, range>>

\* callExport after the call returned: what was recorded is compared, and the
\* driver reaches the next quiescent point.
GuestReturns ==
  /\ r.pc = "guest"
  /\ r.err = ""
  /\ LET c == rec.crossings[TopLevelExport(rec.crossings, r.call)]
     IN  \E values \in [1..ExportSig[c.label].results -> Vals] :
           /\ GuestDoes(ReturnStep(values))
           /\ IF c.results # values THEN End("return value", r)
              ELSE atQuiescentPoint([r EXCEPT !.pc = "idle"], r.call)
  /\ UNCHANGED <<rec, stream, range>>

GuestTraps ==
  /\ r.pc = "guest"
  /\ r.err = ""
  /\ GuestDoes(TrapStep)
  /\ End("trap", r)
  /\ UNCHANGED <<rec, stream, range>>

\* Mutant of GuestUnwinds: callExport does not look at the stashed divergence.
GuestUnwindsUnchecked ==
  /\ r.pc = "guest"
  /\ r.err # ""
  /\ atQuiescentPoint([r EXCEPT !.pc = "idle"], r.call)
  /\ UNCHANGED <<rec, stream, range, script>>

\* The call of a diverged guest ends, one way or the other.
GuestUnwinds ==
  /\ r.pc = "guest"
  /\ r.err # ""
  /\ End(r.err, r)
  /\ UNCHANGED <<rec, stream, range, script>>

-----------------------------------------------------------------------------
(***************************************************************************)
(* StreamingReplay.                                                        *)
(***************************************************************************)

\* Only a module importing a memory nothing has described yet waits for the
\* first call group before it is instantiated.
StreamingBegin ==
  /\ driver = "streaming"
  /\ r.pc = "begin"
  /\ Continue([r EXCEPT !.pc = IF undescribedImportedMemory(HostNow(r)) THEN "idle"
                               ELSE "prepare"])
  /\ UNCHANGED <<rec, stream, range, script>>

NextGroup ==
  /\ driver = "streaming"
  /\ r.pc = "idle"
  /\ r.groups < stream.groups
  /\ \E n \in ReadWith(r.groups + 1) :
       /\ n >= r.arrived
       /\ Continue([r EXCEPT !.groups = @ + 1, !.arrived = n, !.next = "drive",
                             !.pc = IF r.instantiated THEN "drive" ELSE "prepare"])
  /\ UNCHANGED <<rec, stream, range, script>>

\* appendGroup refuses a group with a nested exported call, or whose first
\* crossing is not its only top-level exported call.
GroupRefused(g) ==
  LET cs == group(rec, g)
  IN  Nested(cs) # {} \/ Tops(cs) # {1}

DriveGroup ==
  /\ driver = "streaming"
  /\ r.pc = "drive"
  /\ LET last == rec.groupEnds[r.groups]
         c == rec.crossings[GroupFirst(rec, r.groups)]
         p == [r EXCEPT !.visible = last, !.next = "idle",
                        !.witness = @ \/ MarkersIdentifyImports(last)]
     IN  IF GroupRefused(r.groups) THEN End("group", p)
         ELSE IF ~checkExportCrossing(c) THEN End("export", p)
         ELSE callExport(p, c)
  /\ UNCHANGED <<rec, stream, range, script>>

\* Mutant of StreamEnds: a module that waited for a group which never came is
\* not instantiated.
StreamEndsUnprepared ==
  /\ driver = "streaming"
  /\ r.pc = "idle"
  /\ r.groups = stream.groups
  /\ \E n \in ReadWith(IF stream.end = "EOF" THEN r.groups + 1 ELSE r.groups) :
       LET p == [r EXCEPT !.arrived = n, !.next = "end"]
       IN  /\ n >= r.arrived
           /\ IF stream.end = "error" THEN End("stream", r) ELSE Continue([p EXCEPT !.pc = "end"])
  /\ UNCHANGED <<rec, stream, range, script>>

\* At io.EOF every record has been read.
StreamEnds ==
  /\ driver = "streaming"
  /\ r.pc = "idle"
  /\ r.groups = stream.groups
  /\ \E n \in ReadWith(IF stream.end = "EOF" THEN r.groups + 1 ELSE r.groups) :
       LET p == [r EXCEPT !.arrived = n, !.next = "end"]
       IN  /\ n >= r.arrived
           /\ CASE stream.end = "error" -> End("stream", r)
                [] stream.end # "error" /\ r.instantiated -> Continue([p EXCEPT !.pc = "end"])
                [] OTHER -> Continue([p EXCEPT !.pc = "prepare"])
  /\ UNCHANGED <<rec, stream, range, script>>

\* resolveDeferredValuelessImports, and the check that nothing is left over.
StreamingEnd ==
  /\ driver = "streaming"
  /\ r.pc = "end"
  /\ LET truncated == stream.end = "truncated"
     IN  IF r.deferred # "" /\ r.witness THEN End(r.deferred, r)
         ELSE IF r.deferred # "" /\ truncated THEN End("unclassified", r)
         ELSE IF ~truncated /\ r.cursor # r.visible THEN End("crossing count", r)
         ELSE End(IF truncated THEN "truncated" ELSE "accepted", r)
  /\ UNCHANGED <<rec, stream, range, script>>

-----------------------------------------------------------------------------
(***************************************************************************)
(* LoadRecording, and Replay.                                              *)
(***************************************************************************)

\* LoadRecording reconciles the two carriers; run then checks every export of
\* the recording before anything is instantiated.
BatchBegin ==
  /\ driver = "none"
  /\ verdict["streaming"] # "" /\ verdict["batch"] = ""
  /\ driver' = "batch"
  /\ range' \in Ranges
  /\ r' = [newReplayer(Len(rec.crossings), "none") EXCEPT !.arrived = Len(rec.host)]
  /\ UNCHANGED <<rec, stream, script, verdict, final>>

BatchChecks ==
  /\ driver = "batch"
  /\ r.pc = "begin"
  /\ IF ReconcileFails(rec.sidecar, Streamed(r.arrived)) THEN End("host state", r)
     ELSE IF \E i \in Tops(rec.crossings) : ~checkExportCrossing(rec.crossings[i])
     THEN End("export", r)
     ELSE IF Nested(rec.crossings) # {} THEN End("nested", r)
     ELSE Continue([r EXCEPT !.pc = "prepare"])
  /\ UNCHANGED <<rec, stream, range, script>>

DriveExport ==
  /\ driver = "batch"
  /\ r.pc = "idle"
  /\ r.call < r.to
  /\ callExport(r, rec.crossings[TopLevelExport(rec.crossings, r.call + 1)])
  /\ UNCHANGED <<rec, stream, range, script>>

\* Only a replay of the whole recording checks that nothing is left over.
WholeRecording(p) == range.from = 0 /\ p.to = Cardinality(Tops(rec.crossings))

BatchEnd ==
  /\ driver = "batch"
  /\ r.pc = "idle"
  /\ r.call = r.to
  /\ End(IF WholeRecording(r) /\ r.cursor # Len(rec.crossings) THEN "crossing count"
         ELSE "accepted", r)
  /\ UNCHANGED <<rec, stream, range, script>>

-----------------------------------------------------------------------------
Init ==
  /\ rec \in Recordings
  /\ stream \in [groups : 0..Len(rec.groupEnds), end : {"EOF", "truncated", "error"}]
  /\ stream.end = "EOF" => stream.groups = Len(rec.groupEnds)
  /\ driver = "streaming"
  /\ range = [from |-> 0, to |-> 0, resume |-> FALSE]
  /\ r = newReplayer(0, IF rec.sidecar.present THEN "sidecar" ELSE "none")
  /\ script = [k \in 0..Cardinality(Tops(rec.crossings)) |-> <<>>]
  /\ verdict = [d \in {"streaming", "batch"} |-> ""]
  /\ final = [d \in {"streaming", "batch"} |-> r]

Next ==
  \/ Prepare \/ StartReturns \/ StartTraps
  \/ GuestImport \/ GuestReturns \/ GuestTraps \/ GuestUnwinds
  \/ StreamingBegin \/ NextGroup \/ DriveGroup \/ StreamEnds \/ StreamingEnd
  \/ BatchBegin \/ BatchChecks \/ DriveExport \/ BatchEnd

Spec == Init /\ [][Next]_replayVars

-----------------------------------------------------------------------------
(***************************************************************************)
(* Properties.                                                             *)
(***************************************************************************)

Drivers == {"streaming", "batch"}
Accepting == {"accepted", "truncated"}

\* Verdicts that do not come from comparing the guest with the crossings: the
\* caller's, the reader's, and those on the host state.
Environment == {"hook", "stream", "range", "resume"}
HostVerdicts == {"host state", "memory", "instantiate", "start trap", "mutation"}

\* Driver d has replayed the recording from its first call to its last, or
\* refused it.
ReplayedWhole(d) ==
  /\ verdict[d] \notin Environment \cup {""}
  /\ d = "streaming" => stream.end = "EOF"
  /\ d = "batch" => range.from = 0 /\ range.to = 0

\* What the recording says the guest did in the k-th exported call: the import
\* crossings up to the next one, then its results.
RecordedSteps(k) ==
  LET t == TopLevelExport(rec.crossings, k)
      nested == SubSeq(rec.crossings, t + 1, CursorAt(k))
  IN  Append([i \in DOMAIN nested |-> ImportStep(nested[i].label, nested[i].args)],
             ReturnStep(rec.crossings[t].results))

\* A recording with no import markers cannot have kept this step.
Unkept(st) ==
  st.do = "import" /\ Valueless(st.label) /\ ~MarkersIdentifyImports(Len(rec.crossings))

\* What the recording can have kept of the guest's steps.
Witnessed(steps) ==
  LET kept[n \in 0..Len(steps)] ==
        IF n = 0 THEN <<>>
        ELSE IF Unkept(steps[n]) THEN kept[n - 1] ELSE Append(kept[n - 1], steps[n])
  IN  kept[Len(steps)]

\* The recording is one the module can have made: every crossing is of a
\* function it has, with the values its signature asks for, and none is a
\* callback or precedes the first exported call.
IsReplayable ==
  LET cs == rec.crossings
  IN  /\ Nested(cs) = {}
      /\ cs # <<>> => 1 \in Tops(cs)
      /\ \A i \in DOMAIN cs :
           IF cs[i].kind = "export" THEN checkExportCrossing(cs[i])
           ELSE /\ Len(cs[i].args) = ImportSig[cs[i].label].params
                /\ Len(cs[i].results) = ImportSig[cs[i].label].results
                /\ Valueless(cs[i].label) => MarkersIdentifyImports(Len(cs))

\* The recording is one of this module's executions and script is the one.
IsTheRecordedExecution ==
  /\ IsReplayable
  /\ \A k \in 1..Cardinality(Tops(rec.crossings)) : Witnessed(script[k]) = RecordedSteps(k)

\* All the guest has done so far is what was recorded.
FollowsTheRecording ==
  /\ IsReplayable
  /\ \A k \in 1..Cardinality(Tops(rec.crossings)) :
       \E n \in 0..Len(RecordedSteps(k)) : Witnessed(script[k]) = SubSeq(RecordedSteps(k), 1, n)

\* The module's start function calls no import. One that does is outside of
\* what a browser records, and the drivers treat its calls differently.
StartIsSilent == \A n \in DOMAIN script[0] : script[0][n].do # "import"

\* What a whole replay accepts is what the recording says the guest did.
AcceptsOnlyTheRecorded ==
  StartIsSilent =>
    \A d \in Drivers : ReplayedWhole(d) /\ verdict[d] = "accepted" => IsTheRecordedExecution

\* A replay of the whole recording is accepted only when the guest did what
\* was recorded: the same imports in the same order with the same arguments,
\* and the same results from every exported call. And it is refused only once
\* the guest has done something else: as long as its steps begin the way the
\* recorded ones do, no stub and no driver calls it diverged (replay.go: "the
\* exact global interleaving of the recording is verified").
AcceptsExactlyTheRecorded ==
  /\ AcceptsOnlyTheRecorded
  /\ StartIsSilent =>
       \A d \in Drivers :
         ReplayedWhole(d) /\ verdict[d] \notin HostVerdicts \cup {"accepted"}
           => ~FollowsTheRecording

\* The two drivers return the same verdict on the same recording and module,
\* with the same counts of calls and the same host state applied at the same
\* crossings, although the streaming one cannot know, when it makes a call,
\* what the rest of the recording will say.
DriversAgree ==
  StartIsSilent /\ (\A d \in Drivers : ReplayedWhole(d)) =>
    LET s == final["streaming"]
        b == final["batch"]
    IN  /\ verdict["streaming"] = "accepted" <=> verdict["batch"] = "accepted"
        /\ verdict["batch"] = "accepted" =>
             /\ s.exportCalls = b.exportCalls /\ s.importCalls = b.importCalls
             /\ s.unchecked = b.unchecked /\ s.points = b.points
             /\ s.inst.initial = b.inst.initial /\ s.applied = b.applied

\* What every replay reports, also of a range, of a truncated stream or of one
\* that was refused. The hook sees the quiescent points one by one from the
\* first of the range, one more than the calls driven if all went well; the
\* cursor stays within the crossings the driver has been shown; and an import
\* call is let through unchecked only in a recording no marker of which names
\* an import, even when the stream was cut before the rest could say so.
ReportsSound ==
  /\ r.cursor \in 0..r.visible /\ r.visible <= Len(rec.crossings)
  /\ \A d \in Drivers \ (IF driver = "none" THEN {} ELSE {driver}) :
       LET p == final[d]
           from == IF d = "batch" THEN range.from ELSE 0
       IN  /\ p.points = [k \in DOMAIN p.points |-> from + k - 1]
           /\ verdict[d] \in Accepting =>
                /\ Len(p.points) = p.exportCalls + 1
                /\ p.unchecked > 0 =>
                     verdict[d] = "accepted" /\ ~MarkersIdentifyImports(Len(rec.crossings))

\* A stub cannot stop the guest, and prepare does not look at what the stubs
\* stashed while the start function ran. Whenever the first divergence was seen,
\* at most one exported call returns after it, and that call ends the replay
\* with this divergence; no later quiescent point is reported, and so no
\* snapshot taken, of the diverged guest. A replay that goes on to make no call
\* is the one that may be accepted with a divergence stashed.
DivergenceReported ==
  LET Diverged(p, what) ==
        p.err # "" =>
          /\ Len(p.points) <= 1 \/ Len(p.points) <= p.exportCalls
          /\ what # "" /\ p.exportCalls > 0 => what = p.err
  IN  /\ driver # "none" => Diverged(r, "")
      /\ \A d \in Drivers : verdict[d] # "" => Diverged(final[d], verdict[d])
=============================================================================
