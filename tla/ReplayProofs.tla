---------------------------- MODULE ReplayProofs ----------------------------
(***************************************************************************)
(* What both drivers report, proved for every module and every recording   *)
(* the assembler can leave behind, with any number of calls and groups.    *)
(***************************************************************************)
EXTENDS Replay, FiniteSetTheorems, TLAPS

Fields ==
  {"pc", "cursor", "err", "deferred", "visible", "witness", "host", "arrived", "groups", "next",
   "to", "call", "step", "instantiated", "inst", "exportCalls", "importCalls", "unchecked",
   "points", "applied"}

\* No error, no verdict.
None == ""

Differences ==
  {"import call", "crossing kind", "import index", "argument arity", "argument"}
Errors == Differences \cup {None, "mutation", "import result"}

\* The quiescent point a driver begins at.
From(d) == IF d = "batch" THEN range.from ELSE 0

\* A marker brackets one of the first n crossings.
Marked(cs, n) == \E i \in 1..n : cs[i].markerBracketed

\* What a replayer of driver d over crossings cs holds at any time, also in the
\* middle of a step.
Tallied(p, d, cs, from) ==
  /\ DOMAIN p = Fields
  /\ p.cursor \in 0..p.visible /\ p.visible \in 0..Len(cs)
  /\ p.witness \in BOOLEAN /\ (p.witness <=> Marked(cs, p.visible))
  /\ p.err \in Errors /\ p.deferred \in Differences \cup {None, "mixed"}
  /\ p.unchecked \in Nat
  /\ d = "streaming" /\ p.unchecked > 0 => p.deferred # None
  /\ d = "batch" /\ p.unchecked > 0 => ~p.witness
  /\ p.exportCalls \in Nat
  /\ p.points \in Seq(Nat) /\ \A k \in 1..Len(p.points) : p.points[k] = from + k - 1

\* Where a running replayer is.
Instantiating == {"begin", "prepare", "start"}
Placed(p, d, from) ==
  /\ p.pc \in Instantiating \cup {"idle", "drive", "guest", "end"}
  /\ p.call \in Nat /\ p.to \in Nat /\ p.step \in Nat
  /\ p.instantiated \in BOOLEAN
  /\ ~p.instantiated => p.points = <<>> /\ p.exportCalls = 0 /\ p.call = 0
  /\ p.pc \in Instantiating => ~p.instantiated
  /\ p.pc \in {"drive", "end", "guest"} => p.instantiated
  /\ d = "batch" /\ p.pc = "idle" => p.instantiated
  /\ p.instantiated => p.call = from + p.exportCalls
  /\ p.instantiated =>
       Len(p.points) = IF p.pc = "guest" THEN p.exportCalls ELSE p.exportCalls + 1
  /\ p.err # None => p.pc = "guest" \/ p.exportCalls = 0

\* The call groups of recording a a replayer has driven, and what it has been
\* shown of them.
Driven(p) == IF p.next = "drive" THEN p.groups - 1 ELSE p.groups
Shown(a, n) == IF n = 0 THEN 0 ELSE a.groupEnds[n]

\* What the streaming driver has been shown of a by stream s, and what the
\* batch driver has.
Informed(p, d, a, s) ==
  /\ p.next \in {"idle", "drive", "end"}
  /\ d = "streaming" =>
       /\ p.groups \in 0..s.groups
       /\ p.next = "drive" => p.groups > 0
       /\ p.next = "end" => p.groups = s.groups /\ s.end # "error"
       /\ p.pc \in {"begin", "idle", "guest"} => p.next = "idle"
       /\ p.pc \in {"drive", "end"} => p.next = p.pc
       /\ p.visible = Shown(a, Driven(p))
  /\ d = "batch" => p.next = "idle" /\ p.visible = Len(a.crossings)

\* Replayer p, which returns v, has made no call and reported no point but the
\* first since the stubs saw the guest diverge.
Told(p, v) ==
  p.err # None =>
    /\ Len(p.points) <= 1 \/ Len(p.points) <= p.exportCalls
    /\ p.exportCalls > 0 => v = p.err

\* What driver d, which has returned p and verdict v, has reported.
Fair(p, v, cs) ==
  /\ v \in Accepting =>
       /\ Len(p.points) = p.exportCalls + 1
       /\ p.unchecked > 0 => v = "accepted" /\ ~Marked(cs, Len(cs))
  /\ Told(p, v)

IInv ==
  /\ rec \in Recordings
  /\ stream \in [groups : 0..Len(rec.groupEnds), end : {"EOF", "truncated", "error"}]
  /\ stream.end = "EOF" => stream.groups = Len(rec.groupEnds)
  /\ driver \in Drivers \cup {"none"}
  /\ range \in [from : Nat, to : Nat, resume : BOOLEAN]
  /\ DOMAIN verdict = Drivers /\ DOMAIN final = Drivers
  /\ driver = "streaming" => range.from = 0 /\ verdict["batch"] = None
  /\ driver # "none" => verdict[driver] = None
  /\ verdict["batch"] = None /\ driver # "batch" => range.from = 0
  /\ \A d \in Drivers \ {driver} :
       Tallied(final[d], d, rec.crossings, From(d)) /\ Fair(final[d], verdict[d], rec.crossings)
  /\ driver = "none" =>
       r.pc = "returned" /\ r.cursor \in 0..r.visible /\ r.visible \in 0..Len(rec.crossings)
  /\ driver # "none" =>
       /\ Tallied(r, driver, rec.crossings, From(driver))
       /\ Placed(r, driver, From(driver))
       /\ Informed(r, driver, rec, stream)

-----------------------------------------------------------------------------
(***************************************************************************)
(* The crossings of a recording.                                           *)
(***************************************************************************)

LEMMA RecordingShape ==
  ASSUME rec \in Recordings
  PROVE  /\ rec.crossings \in Seq(Crossing) /\ rec.groupEnds \in Seq(Nat)
         /\ \A i \in 1..Len(rec.crossings) : rec.crossings[i].seq = i - 1
         /\ \A i \in 1..Len(rec.groupEnds) : rec.groupEnds[i] \in 1..Len(rec.crossings)
         /\ \A i, j \in 1..Len(rec.groupEnds) : i < j => rec.groupEnds[i] < rec.groupEnds[j]
         /\ Shown(rec, Len(rec.groupEnds)) = Len(rec.crossings)
<1>1. rec \in Recording /\ Reconstructed(rec)
  BY ReplayAssumption
<1>2. rec.crossings \in Seq(Crossing) /\ rec.groupEnds \in Seq(Nat)
  BY <1>1 DEF Recording
<1> QED BY <1>1, <1>2 DEF Reconstructed, CrossingsNumbered, GroupsDelimited, Shown

LEMMA LeastExists ==
  ASSUME NEW T, T \subseteq Nat, T # {}
  PROVE  \E x \in T : \A y \in T : x <= y
<1>1. PICK x \in T : \A y \in T : ~(<<y, x>> \in OpToRel(<, Nat))
  BY NatLessThanWellFounded, WFMin, Zenon
<1>2. \A y \in T : ~(y < x)
  BY <1>1, Zenon DEF OpToRel
<1> QED BY <1>2

\* There is a k-th top-level export for every k up to their number: counting
\* them from the first crossing on, the count grows by at most one.
LEMMA TopLevelExportExists ==
  ASSUME NEW cs \in Seq(Crossing), NEW k \in 1..Cardinality(Tops(cs))
  PROVE  TopLevelExport(cs, k) \in Tops(cs)
<1> DEFINE T == Tops(cs)
           Upto(i) == {j \in T : j <= i}
           C(i) == Cardinality(Upto(i))
<1>1. T \subseteq 1..Len(cs) /\ Len(cs) \in Nat
  BY DEF Tops
<1>2. IsFiniteSet(T)
  <2>1. IsFiniteSet(1..Len(cs))
    BY <1>1, FS_Interval
  <2> HIDE DEF T
  <2> QED BY <1>1, <2>1, FS_Subset, Zenon
<1>3. ASSUME NEW i
      PROVE  IsFiniteSet(Upto(i)) /\ C(i) \in Nat
  <2>1. Upto(i) \subseteq T
    OBVIOUS
  <2> HIDE DEF T, Upto
  <2>2. IsFiniteSet(Upto(i))
    BY <1>2, <2>1, FS_Subset
  <2> QED BY <2>2, FS_CardinalityType
<1>4. C(0) = 0
  <2>1. Upto(0) = {}
    BY <1>1
  <2> HIDE DEF Upto
  <2> QED BY <2>1, FS_EmptySet, Zenon
<1>5. C(Len(cs)) = Cardinality(T)
  <2>1. Upto(Len(cs)) = T
    BY <1>1
  <2> HIDE DEF Upto, T
  <2> QED BY <2>1
<1>6. ASSUME NEW i \in 1..Len(cs)
      PROVE  C(i) = IF i \in T THEN C(i - 1) + 1 ELSE C(i - 1)
  <2>1. CASE i \notin T
    <3>1. Upto(i) = Upto(i - 1)
      BY <1>1, <2>1
    <3> HIDE DEF Upto, T
    <3> QED BY <3>1, <2>1
  <2>2. CASE i \in T
    <3>1. Upto(i) = Upto(i - 1) \cup {i} /\ i \notin Upto(i - 1)
      BY <1>1, <2>2
    <3>2. IsFiniteSet(Upto(i - 1))
      BY <1>3, Zenon
    <3> HIDE DEF Upto, T
    <3> QED BY <3>1, <3>2, <2>2, FS_AddElement, Zenon
  <2> QED BY <2>1, <2>2
<1>7. TopLevelExport(cs, k) = CHOOSE i \in T : C(i) = k
  BY DEF TopLevelExport
<1>8. k \in 1..Cardinality(T)
  OBVIOUS
<1> HIDE DEF T, C
<1> DEFINE Enough == {i \in 0..Len(cs) : C(i) >= k}
<1>9. PICK i \in Enough : \A j \in Enough : i <= j
  <2>1. Enough \subseteq Nat /\ Len(cs) \in Enough
    BY <1>1, <1>3, <1>5, <1>8
  <2> HIDE DEF Enough
  <2> QED BY <2>1, LeastExists, Zenon
<1>10. i \in 1..Len(cs) /\ i - 1 \notin Enough
  BY <1>4, <1>8, <1>9
<1>11. C(i) \in Nat /\ C(i - 1) \in Nat /\ C(i) >= k /\ ~(C(i - 1) >= k)
  <2>1. C(i) \in Nat /\ C(i - 1) \in Nat
    BY <1>3, Zenon
  <2>2. i - 1 \in 0..Len(cs) /\ C(i) >= k
    BY <1>1, <1>9, <1>10
  <2> QED BY <1>10, <2>1, <2>2
<1>12. i \in T /\ C(i) = k
  BY <1>6, <1>8, <1>10, <1>11
<1>13. TopLevelExport(cs, k) \in T
  BY <1>7, <1>12
<1> QED BY <1>13 DEF T

LEMMA TopsCounted ==
  ASSUME rec \in Recordings
  PROVE  Cardinality(Tops(rec.crossings)) \in Nat
<1>1. PICK T : T = Tops(rec.crossings)
  OBVIOUS
<1>2. T \subseteq 1..Len(rec.crossings) /\ Len(rec.crossings) \in Nat
  BY <1>1, RecordingShape DEF Tops
<1>3. IsFiniteSet(1..Len(rec.crossings))
  BY <1>2, FS_Interval
<1>4. IsFiniteSet(T)
  BY <1>2, <1>3, FS_Subset, Zenon
<1> QED BY <1>1, <1>4, FS_CardinalityType

LEMMA CursorInRecording ==
  ASSUME rec \in Recordings, NEW k \in Nat
  PROVE  CursorAt(k) \in 0..Len(rec.crossings)
<1>1. rec.crossings \in Seq(Crossing) /\ Cardinality(Tops(rec.crossings)) \in Nat
  BY RecordingShape, TopsCounted
<1>2. CASE k < Cardinality(Tops(rec.crossings))
  <2>1. PICK i : i = TopLevelExport(rec.crossings, k + 1)
    OBVIOUS
  <2>2. i \in Tops(rec.crossings)
    BY <1>1, <1>2, <2>1, TopLevelExportExists
  <2>3. i \in 1..Len(rec.crossings)
    BY <1>1, <2>2 DEF Tops
  <2>4. rec.crossings[i].seq = i - 1
    BY <2>3, RecordingShape
  <2> QED BY <1>1, <1>2, <2>1, <2>3, <2>4 DEF CursorAt
<1>3. CASE ~(k < Cardinality(Tops(rec.crossings)))
  BY <1>1, <1>3 DEF CursorAt
<1> QED BY <1>2, <1>3

-----------------------------------------------------------------------------
(***************************************************************************)
(* How a step goes on, and how a driver returns.                           *)
(***************************************************************************)

Same == UNCHANGED <<rec, stream, range>>

LEMMA Continues ==
  ASSUME IInv, driver \in Drivers, Same, NEW p, Continue(p),
         Tallied(p, driver, rec.crossings, From(driver)),
         Placed(p, driver, From(driver)), Informed(p, driver, rec, stream)
  PROVE  IInv'
<1>1. /\ r' = p /\ driver' = driver /\ verdict' = verdict /\ final' = final
      /\ rec' = rec /\ stream' = stream /\ range' = range
  BY DEF Continue, Same
<1>2. driver # "none"
  BY DEF Drivers
<1> QED BY <1>1, <1>2 DEF IInv, From

LEMMA Ends ==
  ASSUME IInv, driver \in Drivers, Same, NEW what, what # None, NEW p, End(what, p),
         Tallied(p, driver, rec.crossings, From(driver)), Fair(p, what, rec.crossings)
  PROVE  IInv'
<1>1. /\ driver' = "none" /\ rec' = rec /\ stream' = stream /\ range' = range
      /\ DOMAIN verdict' = Drivers /\ DOMAIN final' = Drivers
      /\ verdict'[driver] = what /\ final'[driver] = p
      /\ \A d \in Drivers \ {driver} : verdict'[d] = verdict[d] /\ final'[d] = final[d]
  BY DEF End, Same, IInv
<1>2. r'.pc = "returned" /\ r'.cursor \in 0..r'.visible /\ r'.visible \in 0..Len(rec.crossings)
  <2>1. r'.pc = "returned" /\ r'.cursor = p.cursor /\ r'.visible = p.visible
    BY DEF End, Tallied, Fields
  <2> QED BY <2>1 DEF Tallied
<1>3. \A d \in Drivers : Tallied(final'[d], d, rec.crossings, From(d))
                         /\ Fair(final'[d], verdict'[d], rec.crossings)
  <2> SUFFICES ASSUME NEW d \in Drivers
               PROVE  /\ Tallied(final'[d], d, rec.crossings, From(d))
                      /\ Fair(final'[d], verdict'[d], rec.crossings)
    OBVIOUS
  <2>1. CASE d = driver
    BY <1>1, <2>1
  <2>2. CASE d # driver
    BY <1>1, <2>2 DEF IInv
  <2> QED BY <2>1, <2>2
<1>4. verdict'["batch"] = None => range'.from = 0
  BY <1>1 DEF IInv, Drivers
<1>5. \A d \in Drivers : (/\ Tallied(final[d], d, rec.crossings, From(d))
                         /\ Fair(final[d], verdict[d], rec.crossings))'
  BY <1>1, <1>3 DEF From
<1> QED BY <1>1, <1>2, <1>4, <1>5 DEF IInv, Drivers

-----------------------------------------------------------------------------
(***************************************************************************)
(* The steps both drivers take.                                            *)
(***************************************************************************)

\* The facts a step starts from.
Running(d) ==
  /\ IInv /\ d = driver /\ d \in Drivers
  /\ Tallied(r, d, rec.crossings, From(d)) /\ Placed(r, d, From(d)) /\ Informed(r, d, rec, stream)

\* A replayer returns only once.
LEMMA Started ==
  ASSUME IInv, driver # "none"
  PROVE  Running(driver)
BY DEF IInv, Running

\* What a step that reports nothing new changes.
Quiet(p, q) ==
  /\ DOMAIN q = DOMAIN p
  /\ q.cursor = p.cursor /\ q.visible = p.visible /\ (q.witness <=> p.witness) /\ q.err = p.err
  /\ q.witness \in BOOLEAN
  /\ q.deferred = p.deferred /\ q.unchecked = p.unchecked /\ q.exportCalls = p.exportCalls
  /\ q.points = p.points

LEMMA QuietTallied ==
  ASSUME NEW p, NEW q, NEW d, NEW cs, NEW from, Tallied(p, d, cs, from), Quiet(p, q)
  PROVE  Tallied(q, d, cs, from)
<1>1. /\ DOMAIN q = Fields
      /\ q.cursor \in 0..q.visible /\ q.visible \in 0..Len(cs)
      /\ q.err \in Errors /\ q.deferred \in Differences \cup {None, "mixed"}
      /\ q.unchecked \in Nat
      /\ d = "streaming" /\ q.unchecked > 0 => q.deferred # None
      /\ q.exportCalls \in Nat
      /\ q.points \in Seq(Nat) /\ \A k \in 1..Len(q.points) : q.points[k] = from + k - 1
  BY DEF Tallied, Quiet
<1>2. q.witness \in BOOLEAN /\ (q.witness <=> Marked(cs, q.visible))
  BY DEF Tallied, Quiet
<1>3. d = "batch" /\ q.unchecked > 0 => ~q.witness
  BY DEF Tallied, Quiet
<1> QED BY <1>1, <1>2, <1>3 DEF Tallied

\* A driver that returns outside an exported call, or with what the stubs saw.
LEMMA Tells ==
  ASSUME NEW p, NEW d, NEW cs, NEW from, Tallied(p, d, cs, from), Placed(p, d, from), NEW what,
         p.pc # "guest" \/ p.err = None \/ what = p.err
  PROVE  Told(p, what)
<1> SUFFICES ASSUME p.err # None
             PROVE  /\ Len(p.points) <= 1 \/ Len(p.points) <= p.exportCalls
                    /\ p.exportCalls > 0 => what = p.err
  BY DEF Told
<1>1. p.exportCalls \in Nat /\ p.points \in Seq(Nat) /\ p.instantiated \in BOOLEAN
  BY DEF Tallied, Placed
<1>2. CASE p.pc = "guest"
  BY <1>1, <1>2 DEF Placed
<1>3. CASE p.pc # "guest"
  <2>1. p.exportCalls = 0
    BY <1>3 DEF Placed
  <2>2. Len(p.points) <= 1
    <3>1. CASE p.instantiated
      <4>1. Len(p.points) = p.exportCalls + 1
        BY <1>3, <3>1 DEF Placed
      <4> QED BY <2>1, <4>1
    <3>2. CASE ~p.instantiated
      <4>1. p.points = <<>>
        BY <3>2 DEF Placed
      <4> QED BY <4>1
    <3> QED BY <3>1, <3>2
  <2> QED BY <2>1, <2>2
<1> QED BY <1>2, <1>3

LEMMA QuietTold ==
  ASSUME NEW p, NEW q, NEW what, Told(p, what), Quiet(p, q)
  PROVE  Told(q, what)
BY DEF Told, Quiet

LEMMA PrepareStep ==
  ASSUME IInv, driver # "none", Prepare
  PROVE  IInv'
<1>1. Running(driver) /\ Same /\ r.pc = "prepare"
  BY Started, Zenon DEF Prepare, Same
<1>2. PICK p : p = [r EXCEPT !.host = Carrier(r.arrived)]
  BY Zenon
<1>3. PICK h : h = HostNow(p)
  OBVIOUS
<1>4. PICK q : q = [p EXCEPT !.pc = "start", !.inst = h, !.step = 0]
  OBVIOUS
<1>5. End("host state", r) \/ End("memory", p) \/ End("instantiate", p) \/ Continue(q)
  BY <1>2, <1>3, <1>4, Zenon DEF Prepare
<1>6. DOMAIN r = Fields /\ r.witness \in BOOLEAN
  BY <1>1 DEF Running, Tallied
<1>7. Quiet(r, p) /\ Quiet(r, q)
  BY <1>2, <1>4, <1>6 DEF Quiet, Fields
<1>8. Tallied(p, driver, rec.crossings, From(driver)) /\ Tallied(q, driver, rec.crossings, From(driver))
  BY <1>1, <1>7, QuietTallied DEF Running
<1>9. /\ q.pc = "start" /\ q.step = 0 /\ q.call = r.call /\ q.to = r.to /\ q.instantiated = r.instantiated
      /\ q.next = r.next /\ q.groups = r.groups
      /\ q.points = r.points /\ q.exportCalls = r.exportCalls /\ q.err = r.err /\ q.visible = r.visible
  BY <1>2, <1>4, <1>6 DEF Fields
<1>10. Placed(q, driver, From(driver))
  BY <1>1, <1>9 DEF Running, Placed, Instantiating
<1>11. Informed(q, driver, rec, stream)
  BY <1>1, <1>9 DEF Running, Informed, Driven
<1>12. Fair(p, "memory", rec.crossings) /\ Fair(p, "instantiate", rec.crossings)
       /\ Fair(r, "host state", rec.crossings)
  <2>1. \A what : Told(r, what)
    BY <1>1, Tells DEF Running
  <2>2. \A what : Told(p, what)
    BY <1>7, <2>1, QuietTold
  <2> QED BY <2>1, <2>2, Zenon DEF Fair, Accepting
<1> QED BY <1>1, <1>5, <1>8, <1>10, <1>11, <1>12, Ends, Continues, Zenon DEF Running, None

LEMMA EndsQuietly ==
  ASSUME IInv, driver # "none", Same, NEW what, what \notin Accepting \cup {None},
         NEW p, Quiet(r, p), End(what, p), r.pc # "guest" \/ r.err = None \/ what = r.err
  PROVE  IInv'
<1>1. Running(driver)
  BY Started
<1>2. Tallied(p, driver, rec.crossings, From(driver))
  BY <1>1, QuietTallied DEF Running
<1>3. Fair(p, what, rec.crossings)
  <2>1. Told(r, what)
    BY <1>1, Tells DEF Running
  <2> QED BY <2>1, QuietTold DEF Fair
<1> QED BY <1>1, <1>2, <1>3, Ends DEF Running

LEMMA QuietSelf ==
  ASSUME IInv, driver # "none"
  PROVE  Quiet(r, r)
BY Started DEF Running, Tallied, Quiet

\* A replayer about to report the quiescent point its calls have reached.
Reaches(p, d, from) ==
  /\ p.pc \in {"idle", "drive", "end"} /\ p.instantiated \in BOOLEAN /\ p.instantiated
  /\ p.call \in Nat /\ p.to \in Nat /\ p.step \in Nat /\ p.call = from + p.exportCalls
  /\ Len(p.points) = p.exportCalls
  /\ p.err # None => p.exportCalls = 0

LEMMA Hooked ==
  ASSUME IInv, driver # "none", Same, NEW p, NEW point,
         Tallied(p, driver, rec.crossings, From(driver)), Informed(p, driver, rec, stream),
         Reaches(p, driver, From(driver)), point = p.call, atQuiescentPoint(p, point)
  PROVE  IInv'
<1>1. Running(driver)
  BY Started
<1>2. PICK q : q = [p EXCEPT !.points = Append(@, point)]
  BY Zenon
<1>3. Continue(q) \/ End("hook", q)
  BY <1>2 DEF atQuiescentPoint
<1>4. From(driver) \in Nat
  BY DEF IInv, From
<1>5. /\ DOMAIN q = DOMAIN p /\ DOMAIN p = Fields
      /\ q.points = Append(p.points, point)
      /\ \A f \in Fields \ {"points"} : q[f] = p[f]
  BY <1>2 DEF Tallied, Fields
<1>6. /\ q.points \in Seq(Nat)
      /\ \A k \in 1..Len(q.points) : q.points[k] = From(driver) + k - 1
      /\ Len(q.points) = Len(p.points) + 1
  <2>1. p.points \in Seq(Nat) /\ point \in Nat /\ point = From(driver) + Len(p.points)
    BY DEF Tallied, Reaches
  <2>2. \A k \in 1..Len(p.points) : p.points[k] = From(driver) + k - 1
    BY DEF Tallied
  <2>3. Len(p.points) \in Nat /\ Len(q.points) = Len(p.points) + 1 /\ q.points \in Seq(Nat)
    BY <1>5, <2>1
  <2>4. ASSUME NEW k \in 1..Len(q.points) PROVE q.points[k] = From(driver) + k - 1
    <3>1. CASE k = Len(p.points) + 1
      <4>1. q.points[k] = point
        BY <1>5, <2>1, <3>1
      <4> QED BY <1>4, <2>1, <2>3, <3>1, <4>1
    <3>2. CASE k # Len(p.points) + 1
      <4>1. k \in 1..Len(p.points)
        BY <2>3, <2>4, <3>2
      <4>2. q.points[k] = p.points[k]
        BY <1>5, <2>1, <4>1
      <4> QED BY <2>2, <4>1, <4>2
    <3> QED BY <3>1, <3>2
  <2> QED BY <2>3, <2>4
<1>7. /\ q.cursor = p.cursor /\ q.visible = p.visible /\ (q.witness <=> p.witness)
      /\ q.witness \in BOOLEAN
      /\ q.err = p.err /\ q.deferred = p.deferred /\ q.unchecked = p.unchecked
      /\ q.exportCalls = p.exportCalls /\ q.pc = p.pc /\ q.call = p.call /\ q.to = p.to /\ q.step = p.step
      /\ q.instantiated \in BOOLEAN /\ q.instantiated /\ q.next = p.next /\ q.groups = p.groups
  <2>1. /\ q.cursor = p.cursor /\ q.visible = p.visible /\ q.witness = p.witness
        /\ q.err = p.err /\ q.deferred = p.deferred /\ q.unchecked = p.unchecked
        /\ q.exportCalls = p.exportCalls /\ q.pc = p.pc /\ q.call = p.call /\ q.to = p.to /\ q.step = p.step
        /\ q.instantiated = p.instantiated /\ q.next = p.next /\ q.groups = p.groups
    BY <1>5 DEF Fields
  <2> QED BY <2>1 DEF Tallied, Reaches
<1>8. Tallied(q, driver, rec.crossings, From(driver))
  <2>1. p.witness \in BOOLEAN /\ (p.witness <=> Marked(rec.crossings, p.visible))
    BY DEF Tallied
  <2>2. q.witness \in BOOLEAN /\ (q.witness <=> Marked(rec.crossings, q.visible))
    BY <1>7, <2>1
  <2>3. driver = "batch" /\ q.unchecked > 0 => ~q.witness
    BY <1>7 DEF Tallied
  <2>4. /\ DOMAIN q = Fields
        /\ q.cursor \in 0..q.visible /\ q.visible \in 0..Len(rec.crossings)
        /\ q.err \in Errors /\ q.deferred \in Differences \cup {None, "mixed"}
        /\ q.unchecked \in Nat
        /\ driver = "streaming" /\ q.unchecked > 0 => q.deferred # None
        /\ q.exportCalls \in Nat
    BY <1>5, <1>7 DEF Tallied
  <2> QED BY <1>6, <2>2, <2>3, <2>4 DEF Tallied
<1>9. Placed(q, driver, From(driver))
  BY <1>6, <1>7, SMTT(30) DEF Reaches, Placed, Instantiating
<1>10. Informed(q, driver, rec, stream)
  BY <1>7 DEF Informed, Driven
<1>11. Fair(q, "hook", rec.crossings)
  <2>1. q.err # None => Len(q.points) = 1 /\ q.exportCalls = 0
    BY <1>6, <1>7 DEF Reaches
  <2>2. Told(q, "hook")
    <3> SUFFICES ASSUME q.err # None
                 PROVE  /\ Len(q.points) <= 1 \/ Len(q.points) <= q.exportCalls
                        /\ q.exportCalls > 0 => "hook" = q.err
      BY DEF Told
    <3>1. Len(q.points) = 1 /\ q.exportCalls = 0
      BY <2>1
    <3>2. Len(q.points) <= 1 /\ ~(q.exportCalls > 0)
      BY <3>1
    <3> QED BY <3>2
  <2> QED BY <2>2, Zenon DEF Fair, Accepting
<1> QED BY <1>1, <1>3, <1>8, <1>9, <1>10, <1>11, Ends, Continues, Zenon DEF Running, None

LEMMA StartTrapsStep ==
  ASSUME IInv, driver # "none", StartTraps
  PROVE  IInv'
<1>1. Same /\ End("start trap", r) /\ r.pc = "start"
  BY Zenon DEF StartTraps, Same
<1> QED BY <1>1, QuietSelf, EndsQuietly, Zenon DEF Accepting, None

LEMMA StartReturnsStep ==
  ASSUME IInv, driver # "none", StartReturns
  PROVE  IInv'
<1>1. Running(driver) /\ Same /\ r.pc = "start" /\ Prepared
  BY Started, Zenon DEF StartReturns, Same
<1>2. PICK p : p = [r EXCEPT !.pc = r.next, !.instantiated = TRUE, !.step = 0]
  OBVIOUS
<1>3. DOMAIN r = Fields /\ r.witness \in BOOLEAN
  BY <1>1 DEF Running, Tallied
<1>4. /\ ~r.instantiated /\ r.points = <<>> /\ r.exportCalls = 0 /\ r.call = 0
      /\ r.to \in Nat
      /\ r.next \in {"idle", "drive", "end"}
  BY <1>1 DEF Running, Placed, Instantiating, Informed
<1>5. driver \in Drivers /\ From(driver) \in Nat /\ range.from \in Nat /\ range.to \in Nat
  BY <1>1 DEF Running, IInv, From
<1>6. CASE driver = "streaming"
  <2>1. Quiet(r, p) /\ p.pc = r.next /\ p.next = r.next
        /\ p.groups = r.groups /\ p.call = r.call /\ p.to = r.to /\ p.step = 0
    BY <1>2, <1>3 DEF Quiet, Fields
  <2>2. Tallied(p, driver, rec.crossings, From(driver))
    BY <1>1, <2>1, QuietTallied DEF Running
  <2>3. Informed(p, driver, rec, stream)
    BY <1>1, <1>6, <2>1 DEF Running, Informed, Driven, Quiet
  <2>6. Len(p.points) = 0 /\ p.exportCalls = 0 /\ p.err = r.err
    BY <1>4, <2>1 DEF Quiet
  <2>7. p.instantiated \in BOOLEAN /\ p.instantiated
    <3>1. p.instantiated = TRUE
      BY <1>2, <1>3 DEF Fields
    <3> QED BY <3>1, Zenon
  <2>8. r.call = 0 /\ r.to \in Nat
        /\ r.next \in {"idle", "drive", "end"}
    BY <1>4
  <2>4. Reaches(p, driver, From(driver)) /\ p.call = 0
    BY <1>6, <2>1, <2>6, <2>7, <2>8 DEF Reaches, From
  <2>5. atQuiescentPoint(p, 0)
    BY <1>1, <1>2, <1>6 DEF Prepared
  <2> QED BY <1>1, <2>2, <2>3, <2>4, <2>5, Hooked
<1>7. CASE driver = "batch"
  <2> DEFINE n == Cardinality(Tops(rec.crossings))
  <2>1. PICK q : q = [p EXCEPT !.cursor = IF range.from > 0 THEN CursorAt(range.from) ELSE @,
                               !.call = range.from, !.to = To(n)]
    OBVIOUS
  <2>2. End("range", r) \/ End("resume", r) \/ (RangeOK(n) /\ atQuiescentPoint(q, range.from))
    BY <1>1, <1>2, <1>7, <2>1 DEF Prepared
  <2>3. CASE End("range", r) \/ End("resume", r)
    BY <1>1, <2>3, QuietSelf, EndsQuietly, Zenon DEF Accepting, None
  <2>4. CASE RangeOK(n) /\ atQuiescentPoint(q, range.from)
    <3>1. rec \in Recordings /\ rec.crossings \in Seq(Crossing) /\ n \in Nat
      BY TopsCounted, RecordingShape DEF IInv
    <3>2. To(n) \in Nat
      BY <1>5, <3>1 DEF To
    <3>3. /\ DOMAIN q = Fields /\ q.visible = r.visible
          /\ q.err = r.err /\ q.deferred = r.deferred /\ q.unchecked = r.unchecked
          /\ q.exportCalls = 0 /\ q.pc = r.next /\ q.step = 0
          /\ q.call = range.from /\ q.to = To(n) /\ q.next = r.next /\ q.groups = r.groups
      BY <1>2, <1>3, <1>4, <2>1 DEF Fields
    <3>11. /\ q.points = r.points
           /\ q.cursor = IF range.from > 0 THEN CursorAt(range.from) ELSE r.cursor
      BY <1>2, <1>3, <2>1 DEF Fields
    <3>4. q.cursor \in 0..q.visible
      <4>1. r.visible = Len(rec.crossings) /\ r.cursor \in 0..r.visible
        BY <1>1, <1>7 DEF Running, Informed, Tallied
      <4>2. CursorAt(range.from) \in 0..Len(rec.crossings)
        BY <1>5, <3>1, CursorInRecording, Zenon
      <4> QED BY <3>3, <3>11, <4>1, <4>2
    <3>8. q.points \in Seq(Nat) /\ Len(q.points) = 0
      BY <3>11, <1>4
    <3>10. q.witness = r.witness /\ q.instantiated = TRUE
      BY <1>2, <1>3, <2>1 DEF Fields
    <3>9. q.instantiated \in BOOLEAN /\ q.instantiated
      BY <3>10, Zenon
    <3>5. Tallied(q, driver, rec.crossings, From(driver))
      <4>1. q.witness \in BOOLEAN /\ (q.witness <=> Marked(rec.crossings, q.visible))
        BY <1>1, <3>3, <3>10 DEF Running, Tallied
      <4>2. driver = "batch" /\ q.unchecked > 0 => ~q.witness
        BY <1>1, <3>3, <3>10 DEF Running, Tallied
      <4>3. /\ q.visible \in 0..Len(rec.crossings)
            /\ q.err \in Errors /\ q.deferred \in Differences \cup {None, "mixed"}
            /\ q.unchecked \in Nat
        BY <1>1, <3>3 DEF Running, Tallied
      <4> QED BY <1>7, <3>3, <3>4, <3>8, <4>1, <4>2, <4>3 DEF Tallied
    <3>6. Informed(q, driver, rec, stream)
      BY <1>1, <1>7, <3>3 DEF Running, Informed
    <3>7. Reaches(q, driver, From(driver))
      <4>1. r.next \in {"idle", "drive", "end"}
        BY <1>4
      <4> QED BY <1>5, <1>7, <3>2, <3>3, <3>8, <3>9, <4>1 DEF Reaches, From
    <3> QED BY <1>1, <2>4, <3>3, <3>5, <3>6, <3>7, Hooked
  <2> QED BY <2>2, <2>3, <2>4
<1> QED BY <1>5, <1>6, <1>7 DEF Drivers

-----------------------------------------------------------------------------
(***************************************************************************)
(* The guest.                                                              *)
(***************************************************************************)

\* Crossing c records a call of import i with these arguments.
Records(c, i, args) ==
  c.kind = "import" /\ c.label = i /\ c.args = args /\ Len(c.args) = ImportSig[i].params

LEMMA Matched ==
  ASSUME NEW p, p.cursor \in Nat, p.visible \in Nat, NEW i, NEW args
  PROVE  /\ matchImportCrossing(p, i, args) \in Differences \cup {None}
         /\ matchImportCrossing(p, i, args) = None =>
              ~(p.cursor >= p.visible) /\ Records(rec.crossings[p.cursor + 1], i, args)
<1>1. ~(p.cursor >= p.visible) => p.cursor < p.visible
  OBVIOUS
<1> QED BY <1>1, Zenon DEF matchImportCrossing, Differences, None, Records

\* What no import call changes.
SameCall(p, q) ==
  /\ DOMAIN q = DOMAIN p
  /\ q.pc = p.pc /\ q.visible = p.visible /\ q.witness = p.witness /\ q.groups = p.groups
  /\ q.next = p.next /\ q.to = p.to /\ q.call = p.call /\ q.instantiated = p.instantiated
  /\ q.exportCalls = p.exportCalls /\ q.points = p.points /\ q.step = p.step + 1

\* An import call is serviced in one of four ways.
Untouched(p, q) ==
  /\ p.err # None /\ q.cursor = p.cursor /\ q.err = p.err
  /\ q.deferred = p.deferred /\ q.unchecked = p.unchecked
Unwitnessed(p, q, i, streaming) ==
  /\ Valueless(i) /\ ~p.witness /\ q.cursor = p.cursor /\ q.err = p.err /\ q.unchecked = p.unchecked + 1
  /\ q.deferred \in Differences \cup {None, "mixed"}
  /\ streaming => q.deferred # None
Refused(p, q) ==
  /\ q.cursor = p.cursor /\ q.err \in Errors \ {None}
  /\ q.deferred = p.deferred /\ q.unchecked = p.unchecked
Serviced(p, q, c, i, args) ==
  /\ Records(c, i, args) /\ Len(c.results) = ImportSig[i].results /\ (Valueless(i) => p.witness)
  /\ ~(p.cursor >= p.visible) /\ q.cursor = p.cursor + 1 /\ q.err = p.err
  /\ q.deferred = p.deferred /\ q.unchecked = p.unchecked

LEMMA ServiceImport ==
  ASSUME NEW p, DOMAIN p = Fields, p.deferred \in Differences \cup {None, "mixed"},
         p.cursor \in Nat, p.visible \in Nat, NEW i, NEW args, NEW q, q = [serviceImport(p, i, args) EXCEPT !.step = @ + 1]
  PROVE  /\ SameCall(p, q)
         /\ \/ Untouched(p, q)
            \/ Unwitnessed(p, q, i, driver = "streaming")
            \/ Refused(p, q)
            \/ Serviced(p, q, rec.crossings[p.cursor + 1], i, args)
<1>1. PICK s : s = serviceImport(p, i, args)
  OBVIOUS
<1>2. PICK differs : differs = matchImportCrossing(p, i, args)
  OBVIOUS
<1>3. PICK strict : strict = matchImportCrossing(p, i, <<>>)
  OBVIOUS
<1> DEFINE c == rec.crossings[p.cursor + 1]
<1>4. /\ differs \in Differences \cup {None} /\ strict \in Differences \cup {None}
      /\ differs = None => ~(p.cursor >= p.visible) /\ Records(c, i, args)
  BY <1>2, <1>3, Matched
<1>5. DOMAIN s = Fields => /\ DOMAIN q = Fields
                           /\ \A f \in Fields \ {"step"} : q[f] = s[f]
                           /\ q.step = s.step + 1
  BY <1>1 DEF Fields
<1> HIDE DEF c
<1>6. CASE s = p /\ p.err # None
  <2>1. DOMAIN q = Fields /\ q.step = p.step + 1 /\ \A f \in Fields \ {"step"} : q[f] = p[f]
    BY <1>5, <1>6
  <2>2. SameCall(p, q)
    BY <2>1, Zenon DEF SameCall, Fields
  <2>3. Untouched(p, q)
    BY <1>6, <2>1, Zenon DEF Untouched, Fields
  <2> QED BY <2>2, <2>3
<1>7. CASE Valueless(i) /\ ~p.witness /\ s = serviceUnwitnessedValuelessImport(p, i)
  <2>1. PICK what : /\ s = [p EXCEPT !.unchecked = @ + 1, !.deferred = what]
                    /\ what \in Differences \cup {None, "mixed"}
                    /\ driver = "streaming" => what # None
    <3>1. PICK what : what = CASE driver # "streaming" \/ p.deferred # "" -> p.deferred
                               [] driver = "streaming" /\ p.deferred = "" /\ strict = "" -> "mixed"
                               [] OTHER -> strict
      BY Zenon
    <3>2. s = [p EXCEPT !.unchecked = @ + 1, !.deferred = what]
      BY <1>3, <1>7, <3>1, Zenon DEF serviceUnwitnessedValuelessImport
    <3>3. what \in Differences \cup {None, "mixed"} /\ (driver = "streaming" => what # None)
      BY <1>4, <3>1, Zenon DEF None
    <3> QED BY <3>2, <3>3, Zenon
  <2>2. DOMAIN s = Fields /\ s.unchecked = p.unchecked + 1 /\ s.deferred = what
        /\ \A f \in Fields \ {"unchecked", "deferred"} : s[f] = p[f]
    BY <2>1, Zenon DEF Fields
  <2>3. DOMAIN q = Fields /\ q.step = p.step + 1 /\ q.unchecked = p.unchecked + 1 /\ q.deferred = what
        /\ \A f \in Fields \ {"unchecked", "deferred", "step"} : q[f] = p[f]
    BY <1>5, <2>2 DEF Fields
  <2> QED BY <1>7, <2>1, <2>3 DEF SameCall, Unwitnessed, Fields
<1>8. CASE \E e \in Errors \ {None} : s = [p EXCEPT !.err = e]
  <2>1. PICK e \in Errors \ {None} : s = [p EXCEPT !.err = e]
    BY <1>8
  <2>2. DOMAIN q = Fields /\ q.step = p.step + 1 /\ q.err = e /\ \A f \in Fields \ {"err", "step"} : q[f] = p[f]
    BY <1>5, <2>1 DEF Fields
  <2> QED BY <2>1, <2>2 DEF SameCall, Refused, Fields
<1>9. CASE /\ differs = None /\ Len(c.results) = ImportSig[i].results /\ (Valueless(i) => p.witness)
           /\ s = [p EXCEPT !.cursor = @ + 1, !.importCalls = @ + 1,
                            !.applied = @ \o MutationsFor(HostNow(p), p.cursor)]
  <2>1. DOMAIN q = Fields /\ q.step = p.step + 1 /\ q.cursor = p.cursor + 1
        /\ \A f \in Fields \ {"cursor", "importCalls", "applied", "step"} : q[f] = p[f]
    BY <1>5, <1>9, Zenon DEF Fields
  <2>2. SameCall(p, q)
    BY <2>1, Zenon DEF SameCall, Fields
  <2>3. Serviced(p, q, c, i, args)
    BY <1>4, <1>9, <2>1, Zenon DEF Serviced, Fields
  <2> QED BY <2>2, <2>3, Zenon DEF c
<1>10. \/ s = p /\ p.err # None
       \/ Valueless(i) /\ ~p.witness /\ s = serviceUnwitnessedValuelessImport(p, i)
       \/ \E e \in Errors \ {None} : s = [p EXCEPT !.err = e]
       \/ /\ differs = None /\ Len(c.results) = ImportSig[i].results /\ (Valueless(i) => p.witness)
          /\ s = [p EXCEPT !.cursor = @ + 1, !.importCalls = @ + 1,
                           !.applied = @ \o MutationsFor(HostNow(p), p.cursor)]
  <2>1. differs # None => differs \in Errors \ {None}
    BY <1>4, Zenon DEF Errors
  <2>2. {"mutation", "import result"} \subseteq Errors \ {None}
    BY Zenon DEF Errors, None
  <2> QED BY <1>1, <1>2, <2>1, <2>2, Zenon DEF serviceImport, None, c
<1> QED BY <1>6, <1>7, <1>8, <1>9, <1>10, Zenon DEF c

LEMMA GuestImportStep ==
  ASSUME IInv, driver # "none", GuestImport
  PROVE  IInv'
<1>1. Running(driver) /\ Same /\ r.err = None
  BY Started, Zenon DEF GuestImport, Same, None
<1>2. r.pc = "guest" \/ r.pc = "start"
  BY Zenon DEF GuestImport
<1>3. PICK i, args : Continue([serviceImport(r, i, args) EXCEPT !.step = @ + 1])
  BY Zenon DEF GuestImport
<1>4. PICK q : q = [serviceImport(r, i, args) EXCEPT !.step = @ + 1]
  BY Zenon
<1>5. /\ DOMAIN r = Fields /\ r.deferred \in Differences \cup {None, "mixed"}
      /\ r.cursor \in Nat /\ r.visible \in Nat
  <2>1. /\ DOMAIN r = Fields /\ r.deferred \in Differences \cup {None, "mixed"}
        /\ r.cursor \in 0..r.visible /\ r.visible \in 0..Len(rec.crossings)
    BY <1>1 DEF Running, Tallied
  <2>2. Len(rec.crossings) \in Nat
    BY RecordingShape DEF IInv
  <2> QED BY <2>1, <2>2
<1>6. /\ SameCall(r, q)
      /\ \/ Untouched(r, q) \/ Unwitnessed(r, q, i, driver = "streaming")
         \/ Refused(r, q) \/ Serviced(r, q, rec.crossings[r.cursor + 1], i, args)
  BY <1>4, <1>5, ServiceImport
<1>7. q.witness \in BOOLEAN /\ (q.witness <=> Marked(rec.crossings, q.visible))
  BY <1>1, <1>6 DEF Running, Tallied, SameCall
<1>8. driver = "batch" /\ q.unchecked > 0 => ~q.witness
  <2>1. driver = "batch" /\ r.unchecked > 0 => ~r.witness
    BY <1>1 DEF Running, Tallied
  <2> QED BY <1>6, <2>1 DEF SameCall, Untouched, Unwitnessed, Refused, Serviced
<1>9. /\ q.cursor \in 0..q.visible /\ q.visible \in 0..Len(rec.crossings)
      /\ q.err \in Errors /\ q.deferred \in Differences \cup {None, "mixed"}
      /\ q.unchecked \in Nat
      /\ driver = "streaming" /\ q.unchecked > 0 => q.deferred # None
  <2>1. /\ r.cursor \in 0..r.visible /\ r.visible \in 0..Len(rec.crossings)
        /\ r.err \in Errors /\ r.unchecked \in Nat
        /\ driver = "streaming" /\ r.unchecked > 0 => r.deferred # None
    BY <1>1 DEF Running, Tallied
  <2>2. q.visible = r.visible
    BY <1>6 DEF SameCall
  <2> QED BY <1>5, <1>6, <2>1, <2>2, SMTT(30) DEF Untouched, Unwitnessed, Refused, Serviced
<1>10. Tallied(q, driver, rec.crossings, From(driver))
  BY <1>1, <1>6, <1>7, <1>8, <1>9 DEF Running, Tallied, SameCall
<1>11. Placed(q, driver, From(driver))
  <2>1. q.pc = "guest" \/ q.exportCalls = 0
    BY <1>1, <1>2, <1>6 DEF Running, Placed, Instantiating, SameCall
  <2> QED BY <1>1, <1>6, <2>1 DEF Running, Placed, SameCall
<1>12. Informed(q, driver, rec, stream)
  BY <1>1, <1>6 DEF Running, Informed, SameCall, Driven
<1> QED BY <1>1, <1>3, <1>4, <1>10, <1>11, <1>12, Continues DEF Running

LEMMA GuestReturnsStep ==
  ASSUME IInv, driver # "none", GuestReturns
  PROVE  IInv'
<1>1. Running(driver) /\ Same /\ r.pc = "guest" /\ r.err = None
  BY Started, Zenon DEF GuestReturns, Same, None
<1>2. PICK p : p = [r EXCEPT !.pc = "idle"]
  BY Zenon
<1>3. End("return value", r) \/ atQuiescentPoint(p, r.call)
  BY <1>2, Zenon DEF GuestReturns
<1>4. CASE End("return value", r)
  BY <1>1, <1>4, QuietSelf, EndsQuietly, Zenon DEF Accepting, None
<1>5. CASE atQuiescentPoint(p, r.call)
  <2>1. DOMAIN r = Fields /\ r.witness \in BOOLEAN
    BY <1>1 DEF Running, Tallied
  <2>2. /\ Quiet(r, p) /\ p.pc = "idle" /\ p.call = r.call /\ p.to = r.to /\ p.next = r.next
        /\ p.step = r.step
        /\ p.groups = r.groups /\ p.instantiated = r.instantiated
    BY <1>2, <2>1 DEF Quiet, Fields
  <2>3. Tallied(p, driver, rec.crossings, From(driver))
    BY <1>1, <2>2, QuietTallied DEF Running
  <2>4. Informed(p, driver, rec, stream)
    BY <1>1, <2>2 DEF Running, Informed, Driven, Quiet
  <2>5. Reaches(p, driver, From(driver))
    BY <1>1, <2>2 DEF Running, Placed, Reaches, Quiet
  <2> QED BY <1>1, <1>5, <2>2, <2>3, <2>4, <2>5, Hooked
<1> QED BY <1>3, <1>4, <1>5, Zenon

LEMMA GuestTrapsStep ==
  ASSUME IInv, driver # "none", GuestTraps
  PROVE  IInv'
<1>1. Same /\ End("trap", r) /\ r.err = None
  BY Zenon DEF GuestTraps, Same, None
<1> QED BY <1>1, QuietSelf, EndsQuietly, Zenon DEF Accepting, None

LEMMA GuestUnwindsStep ==
  ASSUME IInv, driver # "none", GuestUnwinds
  PROVE  IInv'
<1>1. Same /\ End(r.err, r) /\ r.err # None
  BY Zenon DEF GuestUnwinds, Same, None
<1>2. PICK e : e = r.err
  OBVIOUS
<1>3. e \in Errors
  BY <1>2, Started DEF Running, Tallied
<1>4. e \notin Accepting \cup {None}
  BY <1>1, <1>2, <1>3, Zenon DEF Errors, Differences, Accepting, None
<1> QED BY <1>1, <1>2, <1>4, QuietSelf, EndsQuietly

-----------------------------------------------------------------------------
(***************************************************************************)
(* The streaming driver.                                                   *)
(***************************************************************************)

\* What a step that only moves the driver's position keeps.
Moves(p, q) ==
  /\ Quiet(p, q)
  /\ q.call = p.call /\ q.to = p.to /\ q.step = p.step /\ q.instantiated = p.instantiated

LEMMA MovesOn ==
  ASSUME IInv, driver # "none", Same, r.pc \notin {"guest", "start"}, NEW q, Moves(r, q), Continue(q),
         q.pc \in {"prepare", "idle", "drive", "end"},
         q.pc = "prepare" => ~r.instantiated,
         q.pc \in {"drive", "end"} => r.instantiated,
         q.pc = "idle" => driver = "streaming",
         Informed(q, driver, rec, stream)
  PROVE  IInv'
<1>1. Running(driver)
  BY Started
<1>2. Tallied(q, driver, rec.crossings, From(driver))
  BY <1>1, QuietTallied DEF Running, Moves
<1>3. /\ q.call = r.call /\ q.to = r.to /\ q.step = r.step /\ q.instantiated = r.instantiated
      /\ q.err = r.err /\ q.exportCalls = r.exportCalls /\ q.points = r.points
  BY DEF Moves, Quiet
<1>4. Placed(q, driver, From(driver))
  BY <1>1, <1>3 DEF Running, Placed, Instantiating
<1> QED BY <1>1, <1>2, <1>4, Continues DEF Running

LEMMA StreamingBeginStep ==
  ASSUME IInv, driver # "none", StreamingBegin
  PROVE  IInv'
<1>1. Running(driver) /\ Same /\ r.pc = "begin" /\ driver = "streaming"
  BY Started DEF StreamingBegin, Same
<1>2. PICK q : q = [r EXCEPT !.pc = IF undescribedImportedMemory(HostNow(r)) THEN "idle"
                                    ELSE "prepare"]
  BY Zenon
<1>3. Continue(q)
  BY <1>2 DEF StreamingBegin
<1>4. DOMAIN r = Fields /\ r.witness \in BOOLEAN /\ ~r.instantiated
  BY <1>1 DEF Running, Tallied, Placed, Instantiating
<1>5. Moves(r, q) /\ q.pc \in {"idle", "prepare"} /\ q.next = r.next /\ q.groups = r.groups
      /\ q.visible = r.visible
  BY <1>2, <1>4 DEF Moves, Quiet, Fields
<1>6. Informed(q, driver, rec, stream)
  BY <1>1, <1>5 DEF Running, Informed, Driven
<1> QED BY <1>1, <1>3, <1>4, <1>5, <1>6, MovesOn

LEMMA NextGroupStep ==
  ASSUME IInv, driver # "none", NextGroup
  PROVE  IInv'
<1>1. Running(driver) /\ Same /\ r.pc = "idle" /\ driver = "streaming" /\ r.groups < stream.groups
  BY Started DEF NextGroup, Same
<1>2. PICK n : Continue([r EXCEPT !.groups = @ + 1, !.arrived = n, !.next = "drive",
                                  !.pc = IF r.instantiated THEN "drive" ELSE "prepare"])
  BY Zenon DEF NextGroup
<1>3. PICK q : q = [r EXCEPT !.groups = @ + 1, !.arrived = n, !.next = "drive",
                             !.pc = IF r.instantiated THEN "drive" ELSE "prepare"]
  OBVIOUS
<1>4. DOMAIN r = Fields /\ r.witness \in BOOLEAN /\ r.instantiated \in BOOLEAN
  BY <1>1 DEF Running, Tallied, Placed
<1>5. /\ Moves(r, q) /\ q.next = "drive" /\ q.groups = r.groups + 1 /\ q.visible = r.visible
      /\ q.pc = IF r.instantiated THEN "drive" ELSE "prepare"
  BY <1>3, <1>4 DEF Moves, Quiet, Fields
<1>6. Informed(q, driver, rec, stream)
  <2>1. r.groups \in 0..stream.groups /\ stream.groups \in Nat /\ r.visible = Shown(rec, r.groups)
    <3>1. stream.groups \in 0..Len(rec.groupEnds)
      BY DEF IInv
    <3>2. r.groups \in 0..stream.groups /\ r.next = "idle" /\ r.visible = Shown(rec, Driven(r))
      BY <1>1, Zenon DEF Running, Informed
    <3> QED BY <3>1, <3>2 DEF Driven
  <2>2. q.pc \in {"drive", "prepare"} /\ Driven(q) = r.groups
    BY <1>5, <2>1 DEF Driven
  <2> QED BY <1>1, <1>5, <2>1, <2>2 DEF Informed
<1>7. Continue(q)
  BY <1>2, <1>3
<1>8. /\ q.pc \in {"prepare", "idle", "drive", "end"} /\ q.pc # "idle"
      /\ q.pc = "prepare" => ~r.instantiated
      /\ q.pc \in {"drive", "end"} => r.instantiated
  BY <1>4, <1>5
<1> QED BY <1>1, <1>5, <1>6, <1>7, <1>8, MovesOn

\* An exported call is made, once what it belongs to has been shown.
LEMMA ExportCalled ==
  ASSUME IInv, driver # "none", Same, NEW p, NEW c, callExport(p, c),
         Tallied(p, driver, rec.crossings, From(driver)), Placed(p, driver, From(driver)),
         p.pc \in {"idle", "drive"}, p.instantiated, p.next = "idle",
         driver = "streaming" => p.groups \in 0..stream.groups /\ p.visible = Shown(rec, p.groups),
         driver = "batch" => p.visible = Len(rec.crossings)
  PROVE  IInv'
<1>1. Running(driver)
  BY Started
<1>2. PICK q : q = [p EXCEPT !.pc = "guest", !.cursor = @ + 1, !.exportCalls = @ + 1,
                             !.call = @ + 1, !.step = 0]
  OBVIOUS
<1>3. \/ End("crossing order", p)
      \/ ~(p.cursor >= p.visible) /\ Continue(q)
  BY <1>2, Zenon DEF callExport
<1>4. CASE End("crossing order", p)
  <2>1. Fair(p, "crossing order", rec.crossings)
    <3>1. Told(p, "crossing order")
      BY Tells
    <3> QED BY <3>1, Zenon DEF Fair, Accepting
  <2> QED BY <1>1, <1>4, <2>1, Ends, Zenon DEF Running, None
<1>5. CASE ~(p.cursor >= p.visible) /\ Continue(q)
  <2>1. /\ DOMAIN p = Fields /\ p.exportCalls \in Nat /\ p.call \in Nat
        /\ p.witness \in BOOLEAN /\ p.instantiated \in BOOLEAN
    BY DEF Tallied, Placed
  <2>2. /\ DOMAIN q = Fields /\ q.pc = "guest" /\ q.cursor = p.cursor + 1
        /\ q.exportCalls = p.exportCalls + 1 /\ q.call = p.call + 1 /\ q.step = 0
        /\ q.visible = p.visible /\ q.err = p.err /\ q.deferred = p.deferred
        /\ q.unchecked = p.unchecked /\ q.to = p.to /\ q.next = p.next /\ q.groups = p.groups
    BY <1>2, <2>1 DEF Fields
  <2>3. q.points = p.points /\ q.witness = p.witness /\ q.instantiated = p.instantiated
    BY <1>2, <2>1, Zenon DEF Fields
  <2>4. q.witness \in BOOLEAN /\ (q.witness <=> Marked(rec.crossings, q.visible))
    BY <2>2, <2>3 DEF Tallied
  <2>5. driver = "batch" /\ q.unchecked > 0 => ~q.witness
    BY <2>2, <2>3 DEF Tallied
  <2>6. q.cursor \in 0..q.visible /\ q.visible \in 0..Len(rec.crossings)
    BY <1>5, <2>2 DEF Tallied
  <2>7. Tallied(q, driver, rec.crossings, From(driver))
    BY <2>1, <2>2, <2>3, <2>4, <2>5, <2>6, SMTT(30) DEF Tallied
  <2>8. q.instantiated \in BOOLEAN /\ q.instantiated
    BY <2>1, <2>3
  <2>9. /\ p.call = From(driver) + p.exportCalls /\ Len(p.points) = p.exportCalls + 1
        /\ p.to \in Nat
    BY DEF Placed
  <2>10. From(driver) \in Nat
    BY DEF IInv, From
  <2>11. Placed(q, driver, From(driver))
    BY <2>1, <2>2, <2>3, <2>8, <2>9, <2>10, SMTT(30) DEF Placed, Instantiating
  <2>12. Informed(q, driver, rec, stream)
    BY <2>2 DEF Informed, Driven
  <2> QED BY <1>1, <1>5, <2>7, <2>11, <2>12, Continues DEF Running
<1> QED BY <1>3, <1>4, <1>5, Zenon

LEMMA MarkedMore ==
  ASSUME NEW cs, NEW n \in Nat, NEW m \in Nat, n <= m, Marked(cs, n)
  PROVE  Marked(cs, m)
<1>1. PICK i \in 1..n : cs[i].markerBracketed
  BY DEF Marked
<1>2. i \in 1..m
  OBVIOUS
<1> QED BY <1>1, <1>2 DEF Marked

LEMMA DriveGroupStep ==
  ASSUME IInv, driver # "none", DriveGroup
  PROVE  IInv'
<1>1. Running(driver) /\ Same /\ r.pc = "drive" /\ driver = "streaming" /\ rec \in Recordings
  BY Started DEF DriveGroup, Same, IInv
<1>2. PICK last : last = rec.groupEnds[r.groups]
  OBVIOUS
<1>3. PICK c : c = rec.crossings[GroupFirst(rec, r.groups)]
  OBVIOUS
<1>4. PICK p : p = [r EXCEPT !.visible = last, !.next = "idle",
                             !.witness = @ \/ MarkersIdentifyImports(last)]
  OBVIOUS
<1>5. End("group", p) \/ End("export", p) \/ callExport(p, c)
  BY <1>2, <1>3, <1>4 DEF DriveGroup
<1>6. /\ r.next = "drive" /\ r.groups \in 1..stream.groups /\ r.visible = Shown(rec, r.groups - 1)
      /\ stream.groups \in 0..Len(rec.groupEnds)
  <2>1. stream.groups \in 0..Len(rec.groupEnds)
    BY DEF IInv
  <2>2. /\ r.groups \in 0..stream.groups /\ r.next = "drive" /\ r.groups > 0
        /\ r.visible = Shown(rec, Driven(r))
    BY <1>1, Zenon DEF Running, Informed
  <2> QED BY <2>1, <2>2 DEF Driven
<1>7. /\ Len(rec.groupEnds) \in Nat /\ r.groups \in 1..Len(rec.groupEnds)
      /\ last \in 1..Len(rec.crossings) /\ Len(rec.crossings) \in Nat
      /\ r.groups - 1 # 0 => rec.groupEnds[r.groups - 1] < last
  <2>1. /\ rec.crossings \in Seq(Crossing) /\ rec.groupEnds \in Seq(Nat)
        /\ \A i \in 1..Len(rec.groupEnds) : rec.groupEnds[i] \in 1..Len(rec.crossings)
        /\ \A i, j \in 1..Len(rec.groupEnds) : i < j => rec.groupEnds[i] < rec.groupEnds[j]
    BY <1>1, RecordingShape
  <2>2. r.groups \in 1..Len(rec.groupEnds) /\ (r.groups - 1 # 0 => r.groups - 1 \in 1..Len(rec.groupEnds))
    BY <1>6, <2>1, SMTT(30)
  <2> QED BY <1>2, <2>1, <2>2, SMTT(30)
<1>8. r.visible <= last /\ r.visible \in Nat
  <2>1. r.visible \in 0..Len(rec.crossings)
    BY <1>1 DEF Running, Tallied
  <2> QED BY <1>6, <1>7, <2>1 DEF Shown
<1>9. DOMAIN r = Fields /\ r.witness \in BOOLEAN /\ (r.witness <=> Marked(rec.crossings, r.visible))
  BY <1>1 DEF Running, Tallied
<1>10. /\ DOMAIN p = Fields /\ p.visible = last /\ p.next = "idle" /\ p.pc = r.pc
       /\ p.cursor = r.cursor /\ p.err = r.err /\ p.deferred = r.deferred
       /\ p.unchecked = r.unchecked /\ p.exportCalls = r.exportCalls /\ p.points = r.points
       /\ p.call = r.call /\ p.to = r.to /\ p.step = r.step /\ p.groups = r.groups
       /\ p.instantiated = r.instantiated
  BY <1>4, <1>9 DEF Fields
<1>11. p.witness \in BOOLEAN /\ (p.witness <=> Marked(rec.crossings, p.visible))
  <2>1. p.witness = (r.witness \/ MarkersIdentifyImports(last))
    BY <1>4, <1>9 DEF Fields
  <2>2. MarkersIdentifyImports(last) <=> Marked(rec.crossings, last)
    BY DEF MarkersIdentifyImports, Marked
  <2>3. Marked(rec.crossings, r.visible) => Marked(rec.crossings, last)
    BY <1>7, <1>8, MarkedMore
  <2> QED BY <1>9, <1>10, <2>1, <2>2, <2>3, Zenon
<1>12. Tallied(p, driver, rec.crossings, From(driver))
  <2>1. p.cursor \in 0..p.visible /\ p.visible \in 0..Len(rec.crossings)
    BY <1>1, <1>7, <1>8, <1>10 DEF Running, Tallied
  <2>2. driver = "batch" /\ p.unchecked > 0 => ~p.witness
    BY <1>1
  <2> QED BY <1>1, <1>10, <1>11, <2>1, <2>2 DEF Running, Tallied
<1>13. Placed(p, driver, From(driver)) /\ p.instantiated
  BY <1>1, <1>10 DEF Running, Placed, Instantiating
<1>14. CASE End("group", p) \/ End("export", p)
  <2>1. Fair(p, "group", rec.crossings) /\ Fair(p, "export", rec.crossings)
    <3>1. \A what : Told(p, what)
      BY <1>1, <1>10, <1>12, <1>13, Tells
    <3> QED BY <3>1, Zenon DEF Fair, Accepting
  <2> QED BY <1>1, <1>12, <1>14, <2>1, Ends, Zenon DEF Running, None
<1>15. CASE callExport(p, c)
  <2>1. p.groups \in 0..stream.groups /\ p.visible = Shown(rec, p.groups)
    BY <1>2, <1>6, <1>10 DEF Shown
  <2> QED BY <1>1, <1>10, <1>12, <1>13, <1>15, <2>1, ExportCalled
<1> QED BY <1>5, <1>14, <1>15

LEMMA StreamEndsStep ==
  ASSUME IInv, driver # "none", StreamEnds
  PROVE  IInv'
<1>1. /\ Running(driver) /\ Same /\ r.pc = "idle" /\ driver = "streaming"
      /\ r.groups = stream.groups
  BY Started DEF StreamEnds, Same
<1>2. DOMAIN r = Fields /\ r.witness \in BOOLEAN /\ r.instantiated \in BOOLEAN
  BY <1>1 DEF Running, Tallied, Placed
<1>3. PICK n : \/ End("stream", r)
               \/ /\ stream.end # "error" /\ r.instantiated
                  /\ Continue([[r EXCEPT !.arrived = n, !.next = "end"] EXCEPT !.pc = "end"])
               \/ /\ stream.end # "error" /\ ~r.instantiated
                  /\ Continue([[r EXCEPT !.arrived = n, !.next = "end"] EXCEPT !.pc = "prepare"])
  BY <1>2, Zenon DEF StreamEnds
<1>4. CASE End("stream", r)
  BY <1>1, <1>4, QuietSelf, EndsQuietly, Zenon DEF Accepting, None
<1>5. ASSUME NEW to \in {"end", "prepare"}, stream.end # "error",
             to = "end" => r.instantiated, to = "prepare" => ~r.instantiated,
             Continue([[r EXCEPT !.arrived = n, !.next = "end"] EXCEPT !.pc = to])
      PROVE  IInv'
  <2>1. PICK q : q = [[r EXCEPT !.arrived = n, !.next = "end"] EXCEPT !.pc = to]
    OBVIOUS
  <2>2. Moves(r, q) /\ q.next = "end" /\ q.groups = r.groups /\ q.visible = r.visible /\ q.pc = to
    BY <1>2, <2>1 DEF Moves, Quiet, Fields
  <2>3. Continue(q)
    BY <1>5, <2>1
  <2>4. r.groups \in 0..stream.groups /\ r.visible = Shown(rec, r.groups)
    BY <1>1 DEF Running, Informed, Driven
  <2>5. Driven(q) = r.groups
    BY <2>2 DEF Driven
  <2>6. Informed(q, driver, rec, stream)
    BY <1>1, <1>5, <2>2, <2>4, <2>5 DEF Informed
  <2> QED BY <1>1, <1>5, <2>2, <2>3, <2>6, MovesOn
<1> QED BY <1>3, <1>4, <1>5

LEMMA StreamingEndStep ==
  ASSUME IInv, driver # "none", StreamingEnd
  PROVE  IInv'
<1>1. Running(driver) /\ Same /\ r.pc = "end" /\ driver = "streaming" /\ rec \in Recordings
  BY Started, Zenon DEF StreamingEnd, Same, IInv
<1>2. r.deferred \in Differences \cup {None, "mixed"} /\ r.witness \in BOOLEAN
  BY <1>1, Zenon DEF Running, Tallied
<1>3. \/ r.deferred # None /\ End(r.deferred, r)
      \/ End("unclassified", r) \/ End("crossing count", r)
      \/ /\ stream.end = "truncated" /\ r.deferred = None /\ End("truncated", r)
      \/ /\ stream.end # "truncated" /\ ~(r.deferred # None /\ r.witness) /\ End("accepted", r)
  BY <1>2, Zenon DEF StreamingEnd, None
<1>4. CASE r.deferred # None /\ End(r.deferred, r)
  <2>1. PICK e : e = r.deferred
    OBVIOUS
  <2>2. e \notin Accepting \cup {None}
    BY <1>2, <1>4, <2>1, Zenon DEF Differences, Accepting, None
  <2> QED BY <1>1, <1>4, <2>1, <2>2, QuietSelf, EndsQuietly
<1>5. CASE End("unclassified", r) \/ End("crossing count", r)
  BY <1>1, <1>5, QuietSelf, EndsQuietly, Zenon DEF Accepting, None
<1>6. Len(r.points) = r.exportCalls + 1 /\ (r.unchecked > 0 => r.deferred # None)
  BY <1>1 DEF Running, Placed, Tallied
<1>9. Told(r, "truncated") /\ Told(r, "accepted")
  BY <1>1, Tells DEF Running
<1>7. CASE stream.end = "truncated" /\ r.deferred = None /\ End("truncated", r)
  <2>1. Fair(r, "truncated", rec.crossings)
    BY <1>6, <1>7, <1>9 DEF Fair
  <2> QED BY <1>1, <1>7, <2>1, Ends, Zenon DEF Running, None
<1>8. CASE stream.end # "truncated" /\ ~(r.deferred # None /\ r.witness) /\ End("accepted", r)
  <2>1. stream.end = "EOF" /\ r.groups = Len(rec.groupEnds) /\ r.visible = Shown(rec, r.groups)
    BY <1>1, <1>8, Zenon DEF Running, IInv, Informed, Driven
  <2>2. r.visible = Len(rec.crossings)
    BY <1>1, <2>1, RecordingShape
  <2>3. r.witness <=> Marked(rec.crossings, Len(rec.crossings))
    BY <1>1, <2>2, Zenon DEF Running, Tallied
  <2>4. Fair(r, "accepted", rec.crossings)
    BY <1>6, <1>8, <1>9, <2>3 DEF Fair
  <2> QED BY <1>1, <1>8, <2>4, Ends, Zenon DEF Running, None
<1> QED BY <1>3, <1>4, <1>5, <1>7, <1>8, Zenon

-----------------------------------------------------------------------------
(***************************************************************************)
(* The batch driver.                                                       *)
(***************************************************************************)

\* A replayer before anything has happened.
Blank(p, v) ==
  /\ DOMAIN p = Fields /\ p.pc = "begin" /\ p.next = "idle" /\ p.visible = v /\ p.groups = 0
  /\ p.cursor = 0 /\ p.err = None /\ p.deferred = None /\ p.unchecked = 0
  /\ p.exportCalls = 0 /\ p.call = 0 /\ p.to = 0 /\ p.step = 0 /\ p.points = <<>>

LEMMA NewIsBlank ==
  ASSUME NEW v, NEW h
  PROVE  /\ Blank(newReplayer(v, h), v) /\ newReplayer(v, h).instantiated = FALSE
         /\ newReplayer(v, h).witness = MarkersIdentifyImports(v)
<1>1. PICK m : m = MarkersIdentifyImports(v)
  OBVIOUS
<1>2. newReplayer(v, h).witness = m /\ newReplayer(v, h).instantiated = FALSE
  BY <1>1 DEF newReplayer
<1>3. Blank(newReplayer(v, h), v)
  BY DEF newReplayer, Fields, None, Blank
<1> QED BY <1>1, <1>2, <1>3

LEMMA Fresh ==
  ASSUME rec \in Recordings, NEW v \in 0..Len(rec.crossings), NEW d, NEW from, NEW p,
         Blank(p, v), p.instantiated = FALSE, p.witness = MarkersIdentifyImports(v)
  PROVE  Tallied(p, d, rec.crossings, from) /\ Placed(p, d, from)
<1>1. p.witness \in BOOLEAN /\ (p.witness <=> Marked(rec.crossings, p.visible))
  <2>1. PICK m : m = MarkersIdentifyImports(v)
    OBVIOUS
  <2>2. m \in BOOLEAN /\ (m <=> Marked(rec.crossings, v))
    BY <2>1 DEF MarkersIdentifyImports, Marked
  <2> QED BY <2>1, <2>2 DEF Blank
<1>2. p.instantiated \in BOOLEAN /\ ~p.instantiated
  BY Zenon
<1>3. p.points \in Seq(Nat) /\ Len(p.points) = 0
  <2>1. \A s : s = <<>> => s \in Seq(Nat) /\ Len(s) = 0
    OBVIOUS
  <2>2. p.points = <<>>
    BY DEF Blank
  <2> QED BY <2>1, <2>2
<1>4. d = "batch" /\ p.unchecked > 0 => ~p.witness
  BY DEF Blank
<1>5. Tallied(p, d, rec.crossings, from)
  BY <1>1, <1>3, <1>4 DEF Tallied, Errors, Blank
<1>6. Placed(p, d, from)
  BY <1>2 DEF Placed, Instantiating, Blank
<1> QED BY <1>5, <1>6

LEMMA BatchBeginStep ==
  ASSUME IInv, BatchBegin
  PROVE  IInv'
<1>1. /\ driver = "none" /\ driver' = "batch" /\ verdict' = verdict /\ final' = final
      /\ rec' = rec /\ stream' = stream /\ rec \in Recordings /\ verdict["batch"] = None
  BY Zenon DEF BatchBegin, IInv, None
<1>2. range' \in [from : Nat, to : Nat, resume : BOOLEAN]
  BY ReplayAssumption, Zenon DEF BatchBegin
<1>3. PICK b : b = newReplayer(Len(rec.crossings), "none")
  OBVIOUS
<1>4. PICK p : p = r' /\ p = [b EXCEPT !.arrived = Len(rec.host)]
  BY <1>3, Zenon DEF BatchBegin
<1>5. Len(rec.crossings) \in 0..Len(rec.crossings)
  BY <1>1, RecordingShape
<1>6. PICK from : from = range'.from
  OBVIOUS
<1>7. /\ Tallied(p, "batch", rec.crossings, from) /\ Placed(p, "batch", from)
      /\ p.next = "idle" /\ p.visible = Len(rec.crossings)
  <2>1. /\ Blank(b, Len(rec.crossings)) /\ b.instantiated = FALSE
        /\ b.witness = MarkersIdentifyImports(Len(rec.crossings))
    BY <1>3, NewIsBlank, Zenon
  <2>2. DOMAIN p = Fields /\ \A f \in Fields \ {"arrived"} : p[f] = b[f]
    BY <1>4, <2>1 DEF Blank
  <2>3. Blank(p, Len(rec.crossings))
    BY <2>1, <2>2 DEF Blank, Fields
  <2>4. p.instantiated = FALSE /\ p.witness = MarkersIdentifyImports(Len(rec.crossings))
    BY <2>1, <2>2 DEF Fields
  <2> QED BY <1>1, <1>5, <2>3, <2>4, Fresh, Zenon DEF Blank
<1>8. Informed(p, "batch", rec, stream)
  BY <1>7 DEF Informed
<1>9. /\ Tallied(final["streaming"], "streaming", rec.crossings, 0)
      /\ Fair(final["streaming"], verdict["streaming"], rec.crossings)
  BY <1>1 DEF IInv, Drivers, From
<1>10. \A d \in Drivers \ {driver'} :
         /\ Tallied(final'[d], d, rec'.crossings, From(d)')
         /\ Fair(final'[d], verdict'[d], rec'.crossings)
  BY <1>1, <1>9 DEF Drivers, From
<1>11. /\ Tallied(r', driver', rec'.crossings, From(driver)')
       /\ Placed(r', driver', From(driver)') /\ Informed(r', driver', rec', stream')
  BY <1>1, <1>4, <1>6, <1>7, <1>8 DEF From
<1> QED BY <1>1, <1>2, <1>10, <1>11, Zenon DEF IInv, Drivers, From

LEMMA BatchChecksStep ==
  ASSUME IInv, driver # "none", BatchChecks
  PROVE  IInv'
<1>1. Running(driver) /\ Same /\ r.pc = "begin" /\ driver = "batch"
  BY Started, Zenon DEF BatchChecks, Same
<1>2. PICK q : q = [r EXCEPT !.pc = "prepare"]
  BY Zenon
<1>3. End("host state", r) \/ End("export", r) \/ End("nested", r) \/ Continue(q)
  BY <1>2, Zenon DEF BatchChecks
<1>4. CASE End("host state", r) \/ End("export", r) \/ End("nested", r)
  BY <1>1, <1>4, QuietSelf, EndsQuietly, Zenon DEF Accepting, None
<1>5. CASE Continue(q)
  <2>1. DOMAIN r = Fields /\ r.witness \in BOOLEAN /\ ~r.instantiated
    BY <1>1 DEF Running, Tallied, Placed, Instantiating
  <2>2. Moves(r, q) /\ q.pc = "prepare" /\ q.next = r.next /\ q.visible = r.visible
    BY <1>2, <2>1 DEF Moves, Quiet, Fields
  <2>3. Informed(q, driver, rec, stream)
    BY <1>1, <2>2 DEF Running, Informed
  <2> QED BY <1>1, <1>5, <2>1, <2>2, <2>3, MovesOn
<1> QED BY <1>3, <1>4, <1>5, Zenon

LEMMA DriveExportStep ==
  ASSUME IInv, driver # "none", DriveExport
  PROVE  IInv'
<1>1. Running(driver) /\ Same /\ r.pc = "idle" /\ driver = "batch"
  BY Started DEF DriveExport, Same
<1>2. PICK c : callExport(r, c)
  BY DEF DriveExport
<1>3. r.instantiated /\ r.next = "idle" /\ r.visible = Len(rec.crossings)
  BY <1>1 DEF Running, Placed, Informed
<1>4. Tallied(r, driver, rec.crossings, From(driver)) /\ Placed(r, driver, From(driver))
  BY <1>1 DEF Running
<1> QED BY <1>1, <1>2, <1>3, <1>4, ExportCalled

LEMMA BatchEndStep ==
  ASSUME IInv, driver # "none", BatchEnd
  PROVE  IInv'
<1>1. Running(driver) /\ Same /\ r.pc = "idle" /\ driver = "batch"
  BY Started, Zenon DEF BatchEnd, Same
<1>2. End("crossing count", r) \/ End("accepted", r)
  BY Zenon DEF BatchEnd
<1>3. CASE End("crossing count", r)
  BY <1>1, <1>3, QuietSelf, EndsQuietly, Zenon DEF Accepting, None
<1>4. CASE End("accepted", r)
  <2>1. Len(r.points) = r.exportCalls + 1 /\ r.visible = Len(rec.crossings)
    BY <1>1 DEF Running, Placed, Informed
  <2>2. r.unchecked > 0 => ~Marked(rec.crossings, Len(rec.crossings))
    BY <1>1, <2>1 DEF Running, Tallied
  <2>3. Fair(r, "accepted", rec.crossings)
    <3>1. Told(r, "accepted")
      BY <1>1, Tells DEF Running
    <3> QED BY <2>1, <2>2, <3>1 DEF Fair
  <2> QED BY <1>1, <1>4, <2>3, Ends, Zenon DEF Running, None
<1> QED BY <1>2, <1>3, <1>4, Zenon

-----------------------------------------------------------------------------
(***************************************************************************)
(* The theorems.                                                           *)
(***************************************************************************)

LEMMA InitInv == Init => IInv
<1> SUFFICES ASSUME Init PROVE IInv
  OBVIOUS
<1>1. /\ rec \in Recordings /\ driver = "streaming" /\ range = [from |-> 0, to |-> 0, resume |-> FALSE]
      /\ stream \in [groups : 0..Len(rec.groupEnds), end : {"EOF", "truncated", "error"}]
      /\ stream.end = "EOF" => stream.groups = Len(rec.groupEnds)
      /\ verdict = [d \in Drivers |-> None] /\ final = [d \in Drivers |-> r]
  BY Zenon DEF Init, Drivers, None
<1>2. PICK h : r = newReplayer(0, h)
  BY Zenon DEF Init
<1>3. 0 \in 0..Len(rec.crossings) /\ Len(rec.groupEnds) \in Nat
  BY <1>1, RecordingShape
<1>4. /\ Blank(r, 0) /\ r.instantiated = FALSE /\ r.witness = MarkersIdentifyImports(0)
  BY <1>2, NewIsBlank, Zenon
<1>5. \A d : Tallied(r, d, rec.crossings, 0) /\ Placed(r, d, 0)
  BY <1>1, <1>3, <1>4, Fresh, Zenon
<1>6. Informed(r, "streaming", rec, stream)
  BY <1>1, <1>3, <1>4 DEF Informed, Blank, Driven, Shown
<1>7. Fair(r, None, rec.crossings)
  BY <1>4 DEF Fair, Accepting, None, Told, Blank
<1>8. range \in [from : Nat, to : Nat, resume : BOOLEAN] /\ \A d : From(d) = 0
  BY <1>1 DEF From
<1> QED BY <1>1, <1>5, <1>6, <1>7, <1>8 DEF IInv, Drivers

\* Once a driver has returned, only the other can begin.
LEMMA OnlyBatchBegins ==
  ASSUME IInv, Next, driver = "none"
  PROVE  BatchBegin
<1>1. r.pc = "returned"
  BY DEF IInv
<1> QED BY <1>1 DEF Next, Prepare, StartReturns, StartTraps, GuestImport, GuestReturns,
       GuestTraps, GuestUnwinds, StreamingBegin, NextGroup, DriveGroup, StreamEnds, StreamingEnd,
       BatchChecks, DriveExport, BatchEnd

LEMMA NextInv == IInv /\ [Next]_replayVars => IInv'
<1> SUFFICES ASSUME IInv, [Next]_replayVars PROVE IInv'
  OBVIOUS
<1>1. CASE UNCHANGED replayVars
  BY <1>1 DEF IInv, replayVars, From
<1>2. CASE Next /\ driver # "none"
  <2>1. ~BatchBegin
    BY <1>2, Zenon DEF BatchBegin
  <2> QED BY <1>2, <2>1, PrepareStep, StartReturnsStep, StartTrapsStep, GuestImportStep,
             GuestReturnsStep, GuestTrapsStep, GuestUnwindsStep, StreamingBeginStep, NextGroupStep,
             DriveGroupStep, StreamEndsStep, StreamingEndStep, BatchChecksStep, DriveExportStep,
             BatchEndStep DEF Next
<1>3. CASE Next /\ driver = "none"
  <2>1. BatchBegin
    BY <1>3, OnlyBatchBegins
  <2> QED BY <2>1, BatchBeginStep
<1> QED BY <1>1, <1>2, <1>3

\* The invariant of the two drivers.
THEOREM ReplayInvariant == Spec => []IInv
BY InitInv, NextInv, PTL DEF Spec

\* Whatever module is replayed against whatever recording, in full, over a range
\* or from a truncated stream, with a start function that calls imports or
\* without: the points the hook saw, the calls counted and the cursor agree, and
\* an import call is let through unchecked only where no marker could have named
\* it (replay.go, stream_replay.go).
THEOREM ReplaysReportSound == Spec => []ReportsSound
<1>1. IInv => ReportsSound
  <2> SUFFICES ASSUME IInv PROVE ReportsSound
    OBVIOUS
  <2>1. r.cursor \in 0..r.visible /\ r.visible <= Len(rec.crossings)
    <3>1. r.cursor \in 0..r.visible /\ r.visible \in 0..Len(rec.crossings)
      BY Started, Zenon DEF IInv, Running, Tallied
    <3>2. Len(rec.crossings) \in Nat
      <4>1. rec.crossings \in Seq(Crossing)
        BY RecordingShape, Zenon DEF IInv
      <4> QED BY <4>1
    <3> QED BY <3>1, <3>2
  <2>2. ASSUME NEW d \in Drivers \ (IF driver = "none" THEN {} ELSE {driver})
        PROVE  /\ final[d].points = [k \in DOMAIN final[d].points |-> From(d) + k - 1]
               /\ verdict[d] \in Accepting =>
                    /\ Len(final[d].points) = final[d].exportCalls + 1
                    /\ final[d].unchecked > 0 =>
                         verdict[d] = "accepted" /\ ~MarkersIdentifyImports(Len(rec.crossings))
    <3>1. d \in Drivers \ {driver}
      BY DEF Drivers
    <3>2. Tallied(final[d], d, rec.crossings, From(d)) /\ Fair(final[d], verdict[d], rec.crossings)
      BY <3>1 DEF IInv
    <3>3. PICK points \in Seq(Nat) : points = final[d].points
      BY <3>2 DEF Tallied
    <3>4. \A k \in 1..Len(points) : points[k] = From(d) + k - 1
      BY <3>2, <3>3 DEF Tallied
    <3>5. points = [k \in DOMAIN points |-> From(d) + k - 1]
      BY <3>4, SMTT(30)
    <3>6. MarkersIdentifyImports(Len(rec.crossings)) <=> Marked(rec.crossings, Len(rec.crossings))
      BY DEF MarkersIdentifyImports, Marked
    <3> QED BY <3>2, <3>3, <3>5, <3>6, Zenon DEF Fair
  <2> QED BY <2>1, <2>2 DEF ReportsSound, From
<1> QED BY <1>1, ReplayInvariant, PTL

\* What the stubs stash is told, whatever module is replayed: a divergence in
\* an exported call ends the replay with that call, and one in the start
\* function, which prepare does not look at, with the first exported call that
\* follows. No quiescent point after the first is reported in between
\* (callExport, replay.go).
THEOREM DivergenceIsReported == Spec => []DivergenceReported
<1>1. IInv => DivergenceReported
  <2> SUFFICES ASSUME IInv PROVE DivergenceReported
    OBVIOUS
  <2>1. ASSUME driver # "none", r.err # ""
        PROVE  Len(r.points) <= 1 \/ Len(r.points) <= r.exportCalls
    <3>1. Running(driver)
      BY <2>1, Started
    <3>2. Told(r, r.err)
      BY <3>1, Tells DEF Running
    <3> QED BY <2>1, <3>2 DEF Told, None
  <2>2. ASSUME NEW d \in Drivers, verdict[d] # "", final[d].err # ""
        PROVE  /\ Len(final[d].points) <= 1 \/ Len(final[d].points) <= final[d].exportCalls
               /\ final[d].exportCalls > 0 => verdict[d] = final[d].err
    <3>1. d # driver
      BY <2>2 DEF IInv, Drivers, None
    <3>2. Told(final[d], verdict[d])
      BY <3>1 DEF IInv, Fair
    <3> QED BY <2>2, <3>2 DEF Told, None
  <2> QED BY <2>1, <2>2 DEF DivergenceReported
<1> QED BY <1>1, ReplayInvariant, PTL

-----------------------------------------------------------------------------
(***************************************************************************)
(* The start function. What it has called stays in the script, and as long *)
(* as it has called no import nothing has diverged outside exported calls. *)
(***************************************************************************)

\* The script is a sequence of steps for each call.
Listed == \E S : \E n \in Nat : script \in [0..n -> Seq(S)]

\* As long as the start function has called no import, the stubs see the guest
\* diverge in exported calls only.
QuietStart == StartIsSilent /\ driver # "none" /\ r.err # None => r.pc = "guest"

\* The script is what it was, or has a step more.
LEMMA ScriptStep ==
  ASSUME Listed,
         script' = script \/ \E st : script' = [script EXCEPT ![r.call] = Append(@, st)]
  PROVE  Listed' /\ (StartIsSilent' => StartIsSilent)
<1>1. PICK S : \E n \in Nat : script \in [0..n -> Seq(S)]
  BY DEF Listed
<1>2. PICK n \in Nat : script \in [0..n -> Seq(S)]
  BY <1>1
<1>3. CASE script' = script
  BY <1>3 DEF Listed, StartIsSilent
<1>4. ASSUME NEW st, script' = [script EXCEPT ![r.call] = Append(@, st)]
      PROVE  Listed' /\ (StartIsSilent' => StartIsSilent)
  <2>1. PICK T : T = S \cup {st}
    BY Zenon
  <2>2. \A u \in Seq(S) : u \in Seq(T) /\ Append(u, st) \in Seq(T)
    BY <2>1
  <2>3. PICK s2 : s2 = script'
    OBVIOUS
  <2>4. \A k \in 0..n : s2[k] = IF k = r.call THEN Append(script[k], st) ELSE script[k]
    BY <1>2, <1>4, <2>3
  <2>5. s2 \in [0..n -> Seq(T)]
    <3>1. \A k \in 0..n : s2[k] \in Seq(T)
      BY <1>2, <2>2, <2>4
    <3>2. s2 = [k \in 0..n |-> s2[k]]
      BY <1>2, <1>4, <2>3, Zenon
    <3> QED BY <3>1, <3>2
  <2>6. Listed'
    BY <2>3, <2>5, Zenon DEF Listed
  <2>7. \A j \in DOMAIN script[0] : j \in DOMAIN s2[0] /\ s2[0][j] = script[0][j]
    <3>1. 0 \in 0..n
      BY <1>2
    <3>2. PICK a \in Seq(S) : a = script[0]
      BY <1>2, <3>1
    <3>3. s2[0] = a \/ s2[0] = Append(a, st)
      BY <2>4, <3>1, <3>2
    <3>4. \A j \in DOMAIN a : j \in DOMAIN Append(a, st) /\ Append(a, st)[j] = a[j]
      BY <3>2
    <3> QED BY <3>2, <3>3, <3>4
  <2> QED BY <2>3, <2>6, <2>7 DEF StartIsSilent
<1> QED BY <1>3, <1>4

\* An import the start function calls is in its script.
LEMMA StartHeard ==
  ASSUME IInv, Listed, driver # "none", GuestImport, StartIsSilent'
  PROVE  r.pc = "guest"
<1> SUFFICES ASSUME r.pc = "start" PROVE FALSE
  BY Zenon DEF GuestImport
<1>1. r.call = 0 /\ r.step \in Nat
  BY Started DEF Running, Placed, Instantiating
<1>2. PICK i, args : GuestDoes(ImportStep(i, args))
  BY Zenon DEF GuestImport
<1>3. PICK st : st = ImportStep(i, args)
  OBVIOUS
<1>4. st.do = "import"
  BY <1>3 DEF ImportStep
<1>5. PICK S : \E n \in Nat : script \in [0..n -> Seq(S)]
  BY DEF Listed
<1>6. PICK n \in Nat : script \in [0..n -> Seq(S)]
  BY <1>5
<1>7. PICK a \in Seq(S) : a = script[0]
  <2>1. 0 \in 0..n
    BY <1>6
  <2> QED BY <1>6, <2>1
<1>8. PICK s2 : s2 = script'
  OBVIOUS
<1>9. CASE r.step < Len(a)
  <2>1. st = a[r.step + 1] /\ s2 = script
    BY <1>1, <1>2, <1>3, <1>7, <1>8, <1>9 DEF GuestDoes
  <2>2. r.step + 1 \in DOMAIN a
    BY <1>1, <1>7, <1>9
  <2> QED BY <1>4, <1>7, <1>8, <2>1, <2>2 DEF StartIsSilent
<1>10. CASE ~(r.step < Len(a))
  <2>1. s2 = [script EXCEPT ![0] = Append(@, st)]
    BY <1>1, <1>2, <1>3, <1>7, <1>8, <1>10 DEF GuestDoes
  <2>2. s2[0] = Append(a, st)
    BY <1>6, <1>7, <2>1
  <2>3. Len(a) + 1 \in DOMAIN Append(a, st) /\ Append(a, st)[Len(a) + 1] = st
    BY <1>7
  <2> QED BY <1>4, <1>8, <2>2, <2>3 DEF StartIsSilent
<1> QED BY <1>9, <1>10

\* What the guest does leaves the script or adds a step to it.
LEMMA NextListed ==
  ASSUME Next
  PROVE  /\ rec' = rec
         /\ script' = script \/ \E st : script' = [script EXCEPT ![r.call] = Append(@, st)]
<1>1. \A st : GuestDoes(st) =>
        script' = script \/ \E sp : script' = [script EXCEPT ![r.call] = Append(@, sp)]
  BY Zenon DEF GuestDoes
<1>2. CASE StartReturns \/ StartTraps
  BY <1>1, <1>2, Zenon DEF StartReturns, StartTraps
<1>3. CASE GuestImport
  BY <1>1, <1>3, Zenon DEF GuestImport
<1>4. CASE GuestReturns \/ GuestTraps
  BY <1>1, <1>4, Zenon DEF GuestReturns, GuestTraps
<1>5. CASE Prepare \/ GuestUnwinds \/ StreamingBegin \/ NextGroup \/ DriveGroup \/ StreamEnds
           \/ StreamingEnd \/ BatchBegin \/ BatchChecks \/ DriveExport \/ BatchEnd
  BY <1>5, Zenon DEF Prepare, GuestUnwinds, StreamingBegin, NextGroup, DriveGroup, StreamEnds,
     StreamingEnd, BatchBegin, BatchChecks, DriveExport, BatchEnd
<1> QED BY <1>2, <1>3, <1>4, <1>5 DEF Next

\* A quiescent point leaves what the stubs have stashed.
LEMMA HookKeeps ==
  ASSUME NEW p, DOMAIN p = Fields, NEW point, atQuiescentPoint(p, point)
  PROVE  driver' = "none" \/ r'.err = p.err
<1>1. PICK q : q = [p EXCEPT !.points = Append(@, point)]
  BY Zenon
<1>2. q.err = p.err
  BY <1>1 DEF Fields
<1> QED BY <1>1, <1>2, Zenon DEF atQuiescentPoint, Continue, End

\* Only an import call changes it while a driver runs.
LEMMA OnlyStubsStash ==
  ASSUME IInv, driver # "none", Next, ~GuestImport
  PROVE  driver' = "none" \/ r'.err = r.err
<1>1. DOMAIN r = Fields
  BY Started DEF Running, Tallied
<1>2. CASE Prepare
  <2>1. PICK h, i : \/ driver' = "none"
                    \/ r' = [[r EXCEPT !.host = h] EXCEPT !.pc = "start", !.inst = i, !.step = 0]
    BY <1>2, Zenon DEF Prepare, Continue, End
  <2> QED BY <1>1, <2>1 DEF Fields
<1>3. CASE StartReturns
  <2>1. PICK p : p = [r EXCEPT !.pc = r.next, !.instantiated = TRUE, !.step = 0]
    OBVIOUS
  <2>2. DOMAIN p = Fields /\ p.err = r.err
    BY <1>1, <2>1 DEF Fields
  <2>3. \/ driver' = "none" \/ atQuiescentPoint(p, 0)
        \/ \E c, k, t : atQuiescentPoint([p EXCEPT !.cursor = c, !.call = k, !.to = t], k)
    BY <1>3, <2>1, Zenon DEF StartReturns, Prepared, End
  <2>4. ASSUME NEW c, NEW k, NEW t, atQuiescentPoint([p EXCEPT !.cursor = c, !.call = k, !.to = t], k)
        PROVE  driver' = "none" \/ r'.err = r.err
    <3>1. PICK q : q = [p EXCEPT !.cursor = c, !.call = k, !.to = t]
      OBVIOUS
    <3>2. DOMAIN q = Fields /\ q.err = r.err
      BY <2>2, <3>1 DEF Fields
    <3> QED BY <2>4, <3>1, <3>2, HookKeeps, Zenon
  <2> QED BY <2>2, <2>3, <2>4, HookKeeps, Zenon
<1>4. CASE GuestReturns
  <2>1. PICK p : p = [r EXCEPT !.pc = "idle"]
    OBVIOUS
  <2>2. DOMAIN p = Fields /\ p.err = r.err
    BY <1>1, <2>1 DEF Fields
  <2>3. driver' = "none" \/ atQuiescentPoint(p, r.call)
    BY <1>4, <2>1, Zenon DEF GuestReturns, End
  <2> QED BY <2>2, <2>3, HookKeeps, Zenon
<1>5. CASE StartTraps \/ GuestTraps \/ GuestUnwinds \/ StreamingEnd \/ BatchEnd
  BY <1>5, Zenon DEF StartTraps, GuestTraps, GuestUnwinds, StreamingEnd, BatchEnd, End
<1>6. CASE StreamingBegin \/ BatchChecks
  <2>1. driver' = "none" \/ \E pc : r' = [r EXCEPT !.pc = pc]
    BY <1>6, Zenon DEF StreamingBegin, BatchChecks, Continue, End
  <2> QED BY <1>1, <2>1 DEF Fields
<1>7. CASE NextGroup
  <2>1. PICK n, pc : r' = [r EXCEPT !.groups = @ + 1, !.arrived = n, !.next = "drive", !.pc = pc]
    BY <1>7, Zenon DEF NextGroup, Continue
  <2> QED BY <1>1, <2>1 DEF Fields
<1>8. CASE StreamEnds
  <2>1. PICK n : CASE stream.end = "error" -> End("stream", r)
                   [] stream.end # "error" /\ r.instantiated ->
                        Continue([[r EXCEPT !.arrived = n, !.next = "end"] EXCEPT !.pc = "end"])
                   [] OTHER -> Continue([[r EXCEPT !.arrived = n, !.next = "end"] EXCEPT !.pc = "prepare"])
    BY <1>8, Zenon DEF StreamEnds
  <2>2. \/ End("stream", r)
        \/ Continue([[r EXCEPT !.arrived = n, !.next = "end"] EXCEPT !.pc = "end"])
        \/ Continue([[r EXCEPT !.arrived = n, !.next = "end"] EXCEPT !.pc = "prepare"])
    BY <2>1, Zenon
  <2>3. driver' = "none" \/ \E pc : r' = [[r EXCEPT !.arrived = n, !.next = "end"] EXCEPT !.pc = pc]
    BY <2>2, Zenon DEF Continue, End
  <2> QED BY <1>1, <2>3 DEF Fields
<1>9. ASSUME NEW p, DOMAIN p = Fields, p.err = r.err, NEW c, callExport(p, c)
      PROVE  driver' = "none" \/ r'.err = r.err
  <2>1. \/ driver' = "none"
        \/ r' = [p EXCEPT !.pc = "guest", !.cursor = @ + 1, !.exportCalls = @ + 1,
                          !.call = @ + 1, !.step = 0]
    BY <1>9, Zenon DEF callExport, Continue, End
  <2> QED BY <1>9, <2>1 DEF Fields
<1>10. CASE DriveGroup
  <2>1. PICK p, c : /\ p = [r EXCEPT !.visible = rec.groupEnds[r.groups], !.next = "idle",
                                     !.witness = @ \/ MarkersIdentifyImports(rec.groupEnds[r.groups])]
                    /\ driver' = "none" \/ callExport(p, c)
    BY <1>10, Zenon DEF DriveGroup, End
  <2>2. DOMAIN p = Fields /\ p.err = r.err
    BY <1>1, <2>1 DEF Fields
  <2> QED BY <1>9, <2>1, <2>2, Zenon
<1>11. CASE DriveExport
  <2>1. PICK c : callExport(r, c)
    BY <1>11, Zenon DEF DriveExport
  <2> QED BY <1>1, <1>9, <2>1, Zenon
<1>12. ~BatchBegin
  BY Zenon DEF BatchBegin
<1> QED BY <1>2, <1>3, <1>4, <1>5, <1>6, <1>7, <1>8, <1>10, <1>11, <1>12, Zenon DEF Next

\* Every step keeps the start function's script, and what follows from its
\* being silent.
LEMMA NextQuiet ==
  ASSUME IInv, Listed, QuietStart, [Next]_replayVars
  PROVE  Listed' /\ QuietStart' /\ (StartIsSilent' => StartIsSilent)
<1>1. CASE UNCHANGED replayVars
  BY <1>1 DEF replayVars, Listed, QuietStart, StartIsSilent
<1>2. CASE Next
  <2>1. rec.crossings \in Seq(Crossing)
    BY RecordingShape DEF IInv
  <2>2. Listed' /\ (StartIsSilent' => StartIsSilent)
    BY <1>2, NextListed, ScriptStep, Zenon
  <2>3. ASSUME StartIsSilent', driver' # "none", r'.err # None PROVE r'.pc = "guest"
    <3>1. CASE driver = "none"
      <4>1. BatchBegin
        BY <1>2, <3>1, OnlyBatchBegins
      <4>2. PICK b : b = newReplayer(Len(rec.crossings), "none") /\ r' = [b EXCEPT !.arrived = Len(rec.host)]
        BY <4>1, Zenon DEF BatchBegin
      <4>3. DOMAIN b = Fields /\ b.err = None
        <5>1. Blank(b, Len(rec.crossings))
          BY <4>2, NewIsBlank, Zenon
        <5> QED BY <5>1, Zenon DEF Blank
      <4>4. r'.err = None
        BY <4>2, <4>3 DEF Fields
      <4> QED BY <2>3, <4>4
    <3>2. CASE driver # "none" /\ GuestImport
      <4>1. r.pc = "guest" /\ Running(driver)
        BY <2>3, <3>2, StartHeard, Started
      <4>2. PICK i, args : r' = [serviceImport(r, i, args) EXCEPT !.step = @ + 1]
        BY <3>2, Zenon DEF GuestImport, Continue
      <4>3. /\ DOMAIN r = Fields /\ r.deferred \in Differences \cup {None, "mixed"}
            /\ r.cursor \in Nat /\ r.visible \in Nat
        <5>1. /\ DOMAIN r = Fields /\ r.deferred \in Differences \cup {None, "mixed"}
              /\ r.cursor \in 0..r.visible /\ r.visible \in 0..Len(rec.crossings)
          BY <4>1 DEF Running, Tallied
        <5>2. Len(rec.crossings) \in Nat
          BY <2>1
        <5> QED BY <5>1, <5>2
      <4>4. PICK q : q = r'
        OBVIOUS
      <4>5. SameCall(r, q)
        BY <4>2, <4>3, <4>4, ServiceImport
      <4> QED BY <4>1, <4>4, <4>5 DEF SameCall
    <3>3. CASE driver # "none" /\ ~GuestImport
      <4>1. r'.err = r.err
        BY <1>2, <2>3, <3>3, OnlyStubsStash
      <4>2. r.pc = "guest" /\ r.err # None
        BY <2>2, <2>3, <3>3, <4>1 DEF QuietStart
      <4>3. GuestUnwinds
        <5>1. r.err # ""
          BY <4>2 DEF None
        <5> QED BY <1>2, <3>3, <4>2, <5>1, Zenon DEF Next, Prepare, StartReturns, StartTraps,
              GuestReturns, GuestTraps, StreamingBegin, NextGroup, DriveGroup, StreamEnds,
              StreamingEnd, BatchBegin, BatchChecks, DriveExport, BatchEnd
      <4>4. driver' = "none"
        BY <4>3, Zenon DEF GuestUnwinds, End
      <4> QED BY <2>3, <4>4
    <3> QED BY <3>1, <3>2, <3>3
  <2>4. QuietStart'
    BY <2>3 DEF QuietStart
  <2> QED BY <2>2, <2>4
<1> QED BY <1>1, <1>2
=============================================================================
