------------------------- MODULE SliceWriterProofs -------------------------
(***************************************************************************)
(* SliceWriter for every policy, every recording and any number of runs.   *)
(* The invariants are proved from IInv, which adds to them where the       *)
(* replay and the writer stand relative to each other (Phase), what the    *)
(* directory holds (DiskOK), how the manifest of the current run relates   *)
(* to the slices (ManifestOK), and which recorder recorded what (CallsOK). *)
(***************************************************************************)
EXTENDS SliceWriter, SequenceTheorems, TLAPS

\* Tiling, with what it says of any two slices and of every call.
Partition(q, to) ==
  /\ Tiles(q, 0, to)
  /\ \A i \in 1..Len(q) : q[i].end <= to
  /\ \A i, j \in 1..Len(q) : i < j => q[i].end <= q[j].base
  /\ \A c \in 0..(to - 1) : \E i \in 1..Len(q) : q[i].base <= c /\ c < q[i].end

Phase ==
  /\ replay \in {"call", "finish"} =>
       open # NoSlice /\ lastPoint = point /\ attached = Len(sealed)
  /\ replay = "hook" /\ open # NoSlice =>
       point = lastPoint + 1 /\ attached = Len(sealed)
  /\ replay = "hook" /\ open = NoSlice => point = 0 /\ sealed = <<>> /\ recorded = {}
  /\ open # NoSlice => open.base = SealedEnd /\ open.base <= lastPoint
  /\ lastPoint <= point /\ SealedEnd <= lastPoint
  /\ replay # "over" => \A x \in recorded : x[2] < point

DiskOK ==
  /\ \A i \in 1..Len(sealed) : [index |-> i - 1, run |-> run, complete |-> TRUE] \in disk
  /\ \A c \in disk : c.run <= run /\ (c.run = run /\ c.complete => c.index < Len(sealed))

ManifestOK ==
  /\ run > 0 /\ manifest.run <= run
  /\ manifest.run = run =>
       /\ replay = "over"
       /\ manifest.slices = sealed
       /\ manifest.total = lastPoint + 1
       /\ SealedEnd = lastPoint

CallsOK ==
  /\ \A i \in 1..Len(sealed) : \A c \in sealed[i].base..(sealed[i].end - 1) :
       \A k \in Nat \cup {NoRecorder} : <<k, c>> \in recorded <=> k = i - 1
  /\ \A c \in SealedEnd..(point - 1) :
       \A k \in Nat \cup {NoRecorder} : <<k, c>> \in recorded <=> k = Len(sealed)

IInv ==
  /\ TypeOK
  /\ Partition(sealed, SealedEnd)
  /\ Phase
  /\ DiskOK
  /\ ManifestOK
  /\ CallsOK

-----------------------------------------------------------------------------
(***************************************************************************)
(* Sealing a slice.                                                        *)
(***************************************************************************)

\* The element a sequence gains by Append, and the ones it keeps.
LEMMA Appending ==
  ASSUME NEW S, NEW q \in Seq(S), NEW e \in S
  PROVE  /\ Append(q, e) \in Seq(S)
         /\ Append(q, e) # <<>>
         /\ Len(q) \in Nat
         /\ Len(Append(q, e)) = Len(q) + 1
         /\ Append(q, e)[Len(q) + 1] = e
         /\ \A i \in 1..Len(q) : Append(q, e)[i] = q[i]
BY AppendProperties, LenProperties

\* What seal appends is the range of the open slice.
LEMMA InfoType ==
  ASSUME NEW s \in OpenSlice, NEW e \in Nat
  PROVE  /\ Info(s, e) \in SliceInfo
         /\ Info(s, e).base = s.base
         /\ Info(s, e).end = e
BY LenProperties DEF Info, OpenSlice, SliceInfo

\* A slice that begins where a partition ends extends it.
LEMMA PartitionGrows ==
  ASSUME NEW q \in Seq(SliceInfo), NEW m \in Nat, Partition(q, m),
         NEW s \in SliceInfo, s.base = m, m < s.end
  PROVE  Partition(Append(q, s), s.end)
<1> DEFINE t == Append(q, s)
<1>1. /\ t \in Seq(SliceInfo) /\ t # <<>> /\ Len(q) \in Nat /\ Len(t) = Len(q) + 1
      /\ t[Len(q) + 1] = s /\ \A i \in 1..Len(q) : t[i] = q[i]
  BY Appending
<1>2. \A i \in 1..Len(q) : q[i] \in SliceInfo
  BY ElementOfSeq
<1>3. s.base \in Nat /\ s.end \in Nat /\ \A i \in 1..Len(q) : q[i].base \in Nat /\ q[i].end \in Nat
  BY <1>2, Zenon DEF SliceInfo
<1>4. q = <<>> <=> Len(q) = 0
  BY EmptySeq
<1> HIDE DEF t
<1>5. Tiles(t, 0, s.end)
  <2>1. t[1].base = 0
    <3>1. CASE q = <<>>
      BY <1>1, <1>4, <3>1 DEF Partition, Tiles
    <3>2. CASE q # <<>>
      BY <1>1, <1>4, <3>2 DEF Partition, Tiles
    <3> QED BY <3>1, <3>2
  <2>2. t[Len(t)].end = s.end
    BY <1>1
  <2>3. ASSUME NEW i \in 1..(Len(t) - 1) PROVE t[i + 1].base = t[i].end
    <3>1. CASE i = Len(q)
      BY <1>1, <1>4, <3>1 DEF Partition, Tiles
    <3>2. CASE i # Len(q)
      <4>1. i \in 1..(Len(q) - 1) /\ i \in 1..Len(q) /\ i + 1 \in 1..Len(q)
        BY <1>1, <3>2
      <4> QED BY <1>1, <4>1, Zenon DEF Partition, Tiles
    <3> QED BY <3>1, <3>2
  <2>4. ASSUME NEW i \in 1..Len(t) PROVE t[i].base < t[i].end
    BY <1>1 DEF Partition, Tiles
  <2> QED BY <1>1, <2>1, <2>2, <2>3, <2>4 DEF Tiles
<1>6. ASSUME NEW i \in 1..Len(t) PROVE t[i].end <= s.end
  <2>1. CASE i \in 1..Len(q)
    <3>1. q[i].end <= m
      BY <2>1 DEF Partition
    <3> QED BY <1>1, <1>3, <2>1, <3>1
  <2>2. CASE i = Len(q) + 1
    BY <1>1, <1>3, <2>2
  <2> QED BY <1>1, <2>1, <2>2
<1>7. ASSUME NEW i \in 1..Len(t), NEW j \in 1..Len(t), i < j
      PROVE  t[i].end <= t[j].base
  <2>1. i \in 1..Len(q)
    BY <1>1, <1>7
  <2>2. CASE j = Len(q) + 1
    BY <1>1, <2>1, <2>2 DEF Partition
  <2>3. CASE j \in 1..Len(q)
    BY <1>1, <1>7, <2>1, <2>3 DEF Partition
  <2> QED BY <1>1, <2>2, <2>3
<1>8. ASSUME NEW c \in 0..(s.end - 1)
      PROVE  \E i \in 1..Len(t) : t[i].base <= c /\ c < t[i].end
  <2>1. CASE c < m
    <3>1. c \in 0..(m - 1)
      BY <2>1
    <3>2. PICK i \in 1..Len(q) : q[i].base <= c /\ c < q[i].end
      BY <3>1, Zenon DEF Partition
    <3> QED BY <1>1, <3>2
  <2>2. CASE m <= c
    BY <1>1, <1>3, <2>2
  <2> QED BY <2>1, <2>2
<1> QED BY <1>5, <1>6, <1>7, <1>8 DEF Partition, t

\* Nothing sealed is a partition of nothing.
LEMMA PartitionOfNone == Partition(<<>>, 0)
BY EmptySeq DEF Partition, Tiles

\* The facts about the current state the cases below start from.
LEMMA State ==
  ASSUME IInv
  PROVE  /\ Len(sealed) \in Nat
         /\ SealedEnd \in Nat
         /\ \A i \in 1..Len(sealed) : sealed[i] \in SliceInfo
         /\ \A i \in 1..Len(sealed) : sealed[i].base \in Nat /\ sealed[i].end \in Nat
         /\ sealed = <<>> <=> Len(sealed) = 0
<1>1. sealed \in Seq(SliceInfo)
  BY DEF IInv, TypeOK
<1>2. Len(sealed) \in Nat /\ (sealed = <<>> <=> Len(sealed) = 0)
  BY <1>1, LenProperties, EmptySeq
<1>3. \A i \in 1..Len(sealed) : sealed[i] \in SliceInfo
  BY <1>1, ElementOfSeq
<1>4. \A i \in 1..Len(sealed) : sealed[i].base \in Nat /\ sealed[i].end \in Nat
  BY <1>3 DEF SliceInfo
<1> QED BY <1>2, <1>3, <1>4 DEF SealedEnd

\* A container written by this run joins the directory.
LEMMA WrittenType ==
  ASSUME disk \in SUBSET Container, run \in Nat,
         NEW i \in Nat, NEW b \in BOOLEAN
  PROVE  Written(i, b) \in SUBSET Container
<1>1. [index |-> i, run |-> run, complete |-> b] \in Container
  BY DEF Container
<1> QED BY <1>1 DEF Written

\* A slice just opened, with or without its base snapshot.
LEMMA NewSliceType ==
  ASSUME NEW p \in Nat, NEW snaps \in SUBSET Nat, NEW bytes \in Nat
  PROVE  LET s == [base |-> p, points |-> <<p>>, snaps |-> snaps, payload |-> bytes]
         IN  s \in OpenSlice /\ s # NoSlice /\ s.base = p
<1>1. <<p>> \in Seq(Nat)
  OBVIOUS
<1> QED BY <1>1 DEF OpenSlice, NoSlice

\* The open slice, with a point listed, is still an open slice with its base.
LEMMA AddPointType ==
  ASSUME NEW s \in OpenSlice, NEW p \in Nat, NEW bytes \in Nat
  PROVE  /\ addPoint(s, p, bytes) \in OpenSlice
         /\ addPoint(s, p, bytes) # NoSlice
         /\ addPoint(s, p, bytes).base = s.base
         /\ [s EXCEPT !.points = Append(@, p)] \in OpenSlice
         /\ [s EXCEPT !.points = Append(@, p)] # NoSlice
         /\ [s EXCEPT !.points = Append(@, p)].base = s.base
<1> DEFINE q == Append(s.points, p)
<1>1. s.base \in Nat /\ s.points \in Seq(Nat) /\ s.snaps \in SUBSET Nat /\ s.payload \in Nat
  BY DEF OpenSlice
<1>2. q \in Seq(Nat)
  BY <1>1, AppendProperties
<1>3. s.snaps \cup {p} \in SUBSET Nat /\ s.payload + bytes \in Nat
  BY <1>1
<1> HIDE DEF q
<1>4. /\ [s EXCEPT !.points = q] \in OpenSlice
      /\ [s EXCEPT !.points = q].base = s.base
  BY <1>2, Zenon DEF OpenSlice
<1>5. ASSUME NEW z \in SUBSET Nat, NEW y \in Nat
      PROVE  /\ [s EXCEPT !.points = q, !.snaps = z, !.payload = y] \in OpenSlice
             /\ [s EXCEPT !.points = q, !.snaps = z, !.payload = y].base = s.base
  BY <1>2, Zenon DEF OpenSlice
<1>6. /\ [s EXCEPT !.points = q, !.snaps = @ \cup {p}, !.payload = @ + bytes] \in OpenSlice
      /\ [s EXCEPT !.points = q, !.snaps = @ \cup {p}, !.payload = @ + bytes].base = s.base
  BY <1>3, <1>5, Zenon
<1>7. addPoint(s, p, bytes) \in OpenSlice /\ addPoint(s, p, bytes).base = s.base
  BY <1>4, <1>6, Zenon DEF addPoint, q
<1>8. \A o \in OpenSlice : o # NoSlice
  BY DEF OpenSlice, NoSlice
<1> QED BY <1>4, <1>7, <1>8, Zenon DEF q

\* seal: the slices with the sealed one added still partition the calls, its
\* container is on disk, and every call is in the slice that recorded it.
LEMMA Sealing ==
  ASSUME IInv, NEW s \in OpenSlice, s.base = SealedEnd, SealedEnd < point,
         sealed' = Append(sealed, Info(s, point)),
         disk' = Written(Len(sealed), TRUE),
         UNCHANGED <<point, recorded, run>>
  PROVE  /\ sealed' \in Seq(SliceInfo)
         /\ Len(sealed') = Len(sealed) + 1
         /\ sealed' # <<>>
         /\ SealedEnd' = point
         /\ Partition(sealed', SealedEnd')
         /\ disk' \in SUBSET Container
         /\ DiskOK'
         /\ CallsOK'
<1> DEFINE n == Info(s, point)
<1>1. /\ point \in Nat /\ run \in Nat /\ sealed \in Seq(SliceInfo)
      /\ disk \in SUBSET Container /\ Partition(sealed, SealedEnd)
  BY DEF IInv, TypeOK
<1>2. Len(sealed) \in Nat /\ SealedEnd \in Nat
  BY State
<1>3. n \in SliceInfo /\ n.base = SealedEnd /\ n.end = point
  BY <1>1, InfoType
<1> HIDE DEF n
<1>4. sealed' = Append(sealed, n)
  BY DEF n
<1>5. /\ sealed' \in Seq(SliceInfo) /\ sealed' # <<>> /\ Len(sealed') = Len(sealed) + 1
      /\ sealed'[Len(sealed) + 1] = n /\ \A i \in 1..Len(sealed) : sealed'[i] = sealed[i]
  BY <1>1, <1>3, <1>4, Appending
<1>6. SealedEnd' = point
  BY <1>3, <1>5 DEF SealedEnd
<1>7. Partition(sealed', SealedEnd')
  <2>1. Partition(Append(sealed, n), n.end)
    BY <1>1, <1>2, <1>3, PartitionGrows
  <2> QED BY <2>1, <1>3, <1>4, <1>6
<1>8. disk' \in SUBSET Container
  BY <1>1, <1>2, WrittenType, Zenon
<1>9. DiskOK'
  <2>1. ASSUME NEW i \in 1..Len(sealed')
        PROVE  [index |-> i - 1, run |-> run, complete |-> TRUE] \in disk'
    <3>1. CASE i = Len(sealed) + 1
      <4>1. i - 1 = Len(sealed)
        BY <1>2, <3>1
      <4> QED BY <4>1 DEF Written
    <3>2. CASE i # Len(sealed) + 1
      <4>1. i \in 1..Len(sealed) /\ i - 1 # Len(sealed)
        BY <1>2, <1>5, <3>2
      <4>2. [index |-> i - 1, run |-> run, complete |-> TRUE] \in disk
        BY <4>1 DEF IInv, DiskOK
      <4> QED BY <4>1, <4>2 DEF Written
    <3> QED BY <3>1, <3>2, Zenon
  <2>2. ASSUME NEW c \in disk'
        PROVE  c.run <= run /\ (c.run = run /\ c.complete => c.index < Len(sealed'))
    <3>1. CASE c \in disk
      <4>1. c.run <= run /\ (c.run = run /\ c.complete => c.index < Len(sealed))
        BY <3>1 DEF IInv, DiskOK
      <4>2. c.index \in Nat
        BY <1>1, <3>1 DEF Container
      <4> QED BY <1>2, <1>5, <4>1, <4>2
    <3>2. CASE c = [index |-> Len(sealed), run |-> run, complete |-> TRUE]
      BY <1>1, <1>2, <1>5, <3>2
    <3> QED BY <3>1, <3>2 DEF Written
  <2> QED BY <2>1, <2>2, Zenon DEF DiskOK
<1>10. CallsOK'
  <2>1. ASSUME NEW i \in 1..Len(sealed'), NEW c \in sealed'[i].base..(sealed'[i].end - 1),
               NEW k \in Nat \cup {NoRecorder}
        PROVE  <<k, c>> \in recorded <=> k = i - 1
    <3>1. CASE i = Len(sealed) + 1
      <4>1. c \in SealedEnd..(point - 1) /\ i - 1 = Len(sealed)
        BY <1>2, <1>3, <1>5, <3>1
      <4> QED BY <4>1 DEF IInv, CallsOK
    <3>2. CASE i # Len(sealed) + 1
      <4>1. i \in 1..Len(sealed)
        BY <1>2, <1>5, <3>2
      <4> QED BY <1>5, <4>1 DEF IInv, CallsOK
    <3> QED BY <3>1, <3>2
  <2>2. SealedEnd'..(point - 1) = {}
    BY <1>1, <1>6
  <2> QED BY <2>1, <2>2 DEF CallsOK
<1> QED BY <1>5, <1>6, <1>7, <1>8, <1>9, <1>10, Zenon

\* A step that seals nothing keeps the partition.
LEMMA Unsealed ==
  ASSUME IInv, UNCHANGED sealed
  PROVE  SealedEnd' = SealedEnd /\ Partition(sealed', SealedEnd')
BY Zenon DEF IInv, SealedEnd

\* A step that seals nothing, writes nothing and records nothing keeps what the
\* directory and the recorders hold.
LEMMA Untouched ==
  ASSUME IInv, UNCHANGED <<sealed, disk, run, recorded, point>>
  PROVE  DiskOK' /\ CallsOK'
<1>1. SealedEnd' = SealedEnd
  BY Unsealed
<1> QED BY <1>1 DEF IInv, DiskOK, CallsOK

-----------------------------------------------------------------------------
(***************************************************************************)
(* The inductive step, one lemma for each group of actions.                *)
(***************************************************************************)

\* The first point: the first slice is opened at it.
LEMMA OpenFirstInv == IInv /\ OpenFirst => IInv'
<1> SUFFICES ASSUME IInv, OpenFirst PROVE IInv'
  OBVIOUS
<1> USE DEF OpenFirst
<1>1. point = 0 /\ sealed = <<>> /\ recorded = {} /\ SealedEnd = 0 /\ Len(sealed) = 0
  BY EmptySeq DEF IInv, Phase, SealedEnd
<1>2. open' \in OpenSlice /\ open' # NoSlice /\ open'.base = point
  <2>1. PICK bytes \in SnapshotBytes : open' = NewSlice(point, bytes)
    OBVIOUS
  <2>2. bytes \in Nat /\ point \in Nat /\ {point} \in SUBSET Nat
    BY SliceAssumption DEF IInv, TypeOK
  <2> QED BY <2>1, <2>2, NewSliceType DEF NewSlice
<1>3. SealedEnd' = SealedEnd /\ Partition(sealed', SealedEnd') /\ DiskOK' /\ CallsOK'
  BY Unsealed, Untouched
<1>4. TypeOK'
  BY <1>1, <1>2 DEF IInv, TypeOK, Index
<1>5. Phase'
  BY <1>1, <1>2, <1>3 DEF IInv, TypeOK, Phase, Index
<1>6. ManifestOK'
  BY DEF IInv, TypeOK, ManifestOK
<1> QED BY <1>3, <1>4, <1>5, <1>6 DEF IInv

\* What holds when the replay has advanced to a point of an open slice.
LEMMA Advanced ==
  ASSUME IInv, Advances
  PROVE  /\ open \in OpenSlice /\ open.base = SealedEnd /\ SealedEnd < point
         /\ point = lastPoint + 1 /\ attached = Len(sealed)
         /\ manifest.run # run
         /\ \A bytes \in SnapshotBytes :
              /\ Reached(bytes) \in OpenSlice /\ Reached(bytes) # NoSlice
              /\ Reached(bytes).base = SealedEnd
<1>1. /\ open \in OpenSlice /\ open.base = SealedEnd /\ point = lastPoint + 1
      /\ attached = Len(sealed) /\ SealedEnd <= lastPoint
  BY DEF IInv, TypeOK, Phase, Advances
<1>2. point \in Nat /\ lastPoint \in Nat /\ SealedEnd \in Nat
  BY State DEF IInv, TypeOK
<1>3. manifest.run # run
  BY DEF IInv, ManifestOK, Advances
<1>4. ASSUME NEW bytes \in SnapshotBytes
      PROVE  /\ Reached(bytes) \in OpenSlice /\ Reached(bytes) # NoSlice
             /\ Reached(bytes).base = SealedEnd
  <2>1. bytes \in Nat
    BY SliceAssumption
  <2> QED BY <1>1, <1>2, <2>1, AddPointType, ZenonT(60) DEF Reached
<1> QED BY <1>1, <1>2, <1>3, <1>4

\* A point that seals nothing, listed or not captured.
LEMMA ListingInv == IInv /\ (ListPoint \/ CaptureFails) => IInv'
<1> SUFFICES ASSUME IInv, ListPoint \/ CaptureFails PROVE IInv'
  OBVIOUS
<1>1. /\ UNCHANGED <<point, sealed, attached, recorded, run, disk, manifest>>
      /\ replay = "hook"
  BY DEF ListPoint, CaptureFails, Advances
<1>2. SealedEnd' = SealedEnd /\ Partition(sealed', SealedEnd') /\ DiskOK' /\ CallsOK'
  BY <1>1, Unsealed, Untouched
<1>3. point \in Nat /\ lastPoint \in Nat /\ SealedEnd \in Nat /\ manifest.run # run
  BY <1>1, State DEF IInv, TypeOK, ManifestOK
<1>4. /\ open' \in OpenSlice /\ open' # NoSlice /\ open'.base = SealedEnd
      /\ lastPoint' \in {lastPoint, point} /\ replay' \in {"call", "over"}
      /\ replay' = "call" => lastPoint' = point /\ attached = Len(sealed)
  <2>1. CASE ListPoint
    BY <2>1, Advanced DEF ListPoint
  <2>2. CASE CaptureFails /\ open = NoSlice
    <3>1. point = 0 /\ sealed = <<>>
      BY <1>1, <2>2 DEF IInv, Phase
    <3>2. SealedEnd = point
      BY <3>1 DEF SealedEnd
    <3>3. /\ open' = [base |-> point, points |-> <<point>>, snaps |-> {}, payload |-> 0]
          /\ lastPoint' = lastPoint /\ replay' = "over"
      BY <2>2 DEF CaptureFails
    <3> QED BY <1>3, <3>2, <3>3, NewSliceType
  <2>3. CASE CaptureFails /\ open # NoSlice
    <3>1. open \in OpenSlice /\ open.base = SealedEnd
      BY <2>3 DEF IInv, TypeOK, Phase
    <3>2. /\ open' = [open EXCEPT !.points = Append(@, point)]
          /\ lastPoint' = point /\ replay' = "over"
      BY <2>3 DEF CaptureFails
    <3> QED BY <1>3, <3>1, <3>2, AddPointType, Zenon
  <2> QED BY <2>1, <2>2, <2>3
<1>5. TypeOK'
  BY <1>1, <1>3, <1>4 DEF IInv, TypeOK
<1>6. Phase'
  <2>1. lastPoint <= point /\ SealedEnd <= lastPoint
    BY DEF IInv, Phase
  <2>2. \A x \in recorded' : x[2] < point'
    BY <1>1 DEF IInv, Phase
  <2>3. open'.base = SealedEnd' /\ open'.base <= lastPoint'
    BY <1>2, <1>3, <1>4, <2>1
  <2>4. lastPoint' <= point' /\ SealedEnd' <= lastPoint'
    BY <1>1, <1>2, <1>3, <1>4, <2>1
  <2>5. replay' = "call" => lastPoint' = point' /\ attached' = Len(sealed')
    BY <1>1, <1>4
  <2> QED BY <1>4, <2>2, <2>3, <2>4, <2>5 DEF Phase
<1>7. ManifestOK'
  BY <1>1, <1>3 DEF IInv, ManifestOK
<1> QED BY <1>2, <1>5, <1>6, <1>7 DEF IInv

\* A point that seals the open slice, and opens the next one or fails to.
LEMMA SealingInv == IInv /\ (SealAndOpen \/ ReopenFails) => IInv'
<1> SUFFICES ASSUME IInv, SealAndOpen \/ ReopenFails PROVE IInv'
  OBVIOUS
<1>1. /\ UNCHANGED <<point, recorded, run, manifest>> /\ Advances
      /\ disk' = Written(Len(sealed), TRUE) /\ lastPoint' = point
  BY Zenon DEF SealAndOpen, ReopenFails, Index
<1>2. PICK bytes \in SnapshotBytes : sealed' = Append(sealed, Info(Reached(bytes), point))
  BY Zenon DEF SealAndOpen, ReopenFails
<1>3. /\ sealed' \in Seq(SliceInfo) /\ Len(sealed') = Len(sealed) + 1 /\ SealedEnd' = point
      /\ Partition(sealed', SealedEnd') /\ disk' \in SUBSET Container /\ DiskOK' /\ CallsOK'
  <2>1. Reached(bytes) \in OpenSlice /\ Reached(bytes).base = SealedEnd /\ SealedEnd < point
    BY <1>1, Advanced
  <2> QED BY <1>1, <1>2, <2>1, Sealing, Zenon
<1>4. point \in Nat /\ Len(sealed) \in Nat /\ manifest.run # run /\ replay = "hook"
  BY <1>1, Advanced, State DEF IInv, TypeOK, Advances
<1>5. /\ open' \in OpenSlice /\ open' # NoSlice /\ open'.base = point
      /\ attached' \in Nat \cup {NoRecorder} /\ replay' \in {"call", "over"}
      /\ replay' = "call" => attached' = Len(sealed) + 1
  <2>1. CASE SealAndOpen
    <3>1. PICK base \in SnapshotBytes : open' = NewSlice(point, base)
      BY <2>1 DEF SealAndOpen
    <3>2. base \in Nat /\ {point} \in SUBSET Nat
      BY <1>4, SliceAssumption
    <3>3. open' \in OpenSlice /\ open' # NoSlice /\ open'.base = point
      BY <1>4, <3>1, <3>2, NewSliceType, Zenon DEF NewSlice
    <3> QED BY <1>4, <2>1, <3>3 DEF SealAndOpen, Index
  <2>2. CASE ReopenFails
    <3>1. open' \in OpenSlice /\ open' # NoSlice /\ open'.base = point
      BY <1>4, <2>2, NewSliceType, Zenon DEF ReopenFails
    <3> QED BY <2>2, <3>1 DEF ReopenFails
  <2> QED BY <2>1, <2>2
<1>6. TypeOK'
  BY <1>1, <1>3, <1>4, <1>5, Zenon DEF IInv, TypeOK
<1>7. Phase'
  <2>1. \A x \in recorded' : x[2] < point'
    BY <1>1, <1>4 DEF IInv, Phase
  <2> QED BY <1>1, <1>3, <1>4, <1>5, <2>1 DEF Phase
<1>8. ManifestOK'
  BY <1>1, <1>4 DEF IInv, ManifestOK
<1> QED BY <1>3, <1>6, <1>7, <1>8 DEF IInv

\* A seal that fails, whatever it left behind.
LEMMA SealFailsAtInv ==
  ASSUME IInv, NEW s \in OpenSlice, s.base = SealedEnd, SealedEnd < point,
         SealFailsAt(point, s), lastPoint' = point, manifest.run # run
  PROVE  IInv'
<1>1. /\ UNCHANGED <<point, recorded, run, manifest>> /\ open' = NoSlice
      /\ attached' = NoRecorder /\ replay' = "over"
  BY DEF SealFailsAt
<1>2. point \in Nat /\ run \in Nat /\ SealedEnd \in Nat /\ Len(sealed) \in Nat
  BY State DEF IInv, TypeOK
<1>3. /\ sealed' \in Seq(SliceInfo) /\ SealedEnd' <= point /\ Partition(sealed', SealedEnd')
      /\ disk' \in SUBSET Container /\ DiskOK' /\ CallsOK'
  <2>1. CASE UNCHANGED <<disk, sealed>>
    BY <1>1, <1>2, <2>1, Unsealed, Untouched DEF IInv, TypeOK
  <2>2. CASE disk' = Written(Len(sealed), FALSE) /\ UNCHANGED sealed
    <3>1. SealedEnd' = SealedEnd /\ Partition(sealed', SealedEnd')
      BY <2>2, Unsealed
    <3>2. disk' \in SUBSET Container
      BY <1>2, <2>2, WrittenType, Zenon DEF IInv, TypeOK
    <3>3. CallsOK'
      BY <1>1, <2>2, <3>1 DEF IInv, CallsOK
    <3>4. DiskOK'
      <4>1. ASSUME NEW i \in 1..Len(sealed)
            PROVE  [index |-> i - 1, run |-> run, complete |-> TRUE] \in disk'
        <5>1. i - 1 # Len(sealed)
          BY <1>2
        <5>2. [index |-> i - 1, run |-> run, complete |-> TRUE] \in disk
          BY DEF IInv, DiskOK
        <5> QED BY <2>2, <5>1, <5>2 DEF Written
      <4>2. ASSUME NEW c \in disk'
            PROVE  c.run <= run /\ (c.run = run /\ c.complete => c.index < Len(sealed))
        <5>1. CASE c \in disk
          BY <5>1 DEF IInv, DiskOK
        <5>2. CASE c = [index |-> Len(sealed), run |-> run, complete |-> FALSE]
          BY <1>2, <5>2
        <5> QED BY <2>2, <5>1, <5>2 DEF Written
      <4> QED BY <1>1, <2>2, <4>1, <4>2, Zenon DEF DiskOK
    <3>5. sealed' \in Seq(SliceInfo) /\ SealedEnd' <= point
      BY <1>2, <2>2, <3>1 DEF IInv, TypeOK
    <3> QED BY <3>1, <3>2, <3>3, <3>4, <3>5, Zenon
  <2>3. CASE disk' = Written(Len(sealed), TRUE) /\ sealed' = Append(sealed, Info(s, point))
    <3>1. /\ sealed' \in Seq(SliceInfo) /\ SealedEnd' = point /\ Partition(sealed', SealedEnd')
          /\ disk' \in SUBSET Container /\ DiskOK' /\ CallsOK'
      BY <1>1, <2>3, Sealing, Zenon
    <3> QED BY <1>2, <3>1
  <2> QED BY <2>1, <2>2, <2>3, Zenon DEF SealFailsAt, Index
<1>4. TypeOK'
  BY <1>1, <1>2, <1>3 DEF IInv, TypeOK
<1>5. Phase'
  BY <1>1, <1>2, <1>3 DEF Phase
<1>6. ManifestOK'
  BY <1>1 DEF IInv, ManifestOK
<1> QED BY <1>3, <1>4, <1>5, <1>6 DEF IInv

\* Where Finish finds the writer.
LEMMA AtFinish ==
  ASSUME IInv, replay = "finish"
  PROVE  /\ open \in OpenSlice /\ open.base = SealedEnd /\ lastPoint = point
         /\ SealedEnd <= point /\ manifest.run # run
BY DEF IInv, TypeOK, Phase, ManifestOK

\* A seal that fails, at a point or in Finish.
LEMMA SealFailsInv == IInv /\ (SealFails \/ FinishFails) => IInv'
<1> SUFFICES ASSUME IInv, SealFails \/ FinishFails PROVE IInv'
  OBVIOUS
<1>1. CASE SealFails
  <2>1. PICK bytes \in SnapshotBytes : SealFailsAt(point, Reached(bytes))
    BY <1>1 DEF SealFails
  <2>2. /\ Reached(bytes) \in OpenSlice /\ Reached(bytes).base = SealedEnd
        /\ SealedEnd < point /\ manifest.run # run
    BY <1>1, Advanced DEF SealFails
  <2> QED BY <1>1, <2>1, <2>2, SealFailsAtInv DEF SealFails
<1>2. CASE FinishFails
  <2>1. /\ open \in OpenSlice /\ open.base = SealedEnd /\ lastPoint = point
        /\ SealedEnd <= point /\ manifest.run # run
    BY <1>2, AtFinish DEF FinishFails
  <2>2. SealedEnd < point
    BY <1>2, <2>1, State DEF FinishFails, IInv, TypeOK
  <2>3. SealFailsAt(point, open) /\ lastPoint' = point
    BY <1>2, <2>1 DEF FinishFails
  <2> QED BY <2>1, <2>2, <2>3, SealFailsAtInv
<1> QED BY <1>1, <1>2

\* The replay makes a call, which the attached recorder records.
LEMMA CallInv == IInv /\ (CallReturns \/ CallFails) => IInv'
<1> SUFFICES ASSUME IInv, CallReturns \/ CallFails PROVE IInv'
  OBVIOUS
<1>1. /\ replay = "call" /\ recorded' = recorded \cup {<<attached, point>>}
      /\ UNCHANGED <<open, sealed, lastPoint, attached, run, disk, manifest>>
  BY DEF CallReturns, CallFails
<1>2. \/ point' = point + 1 /\ replay' = "hook"
      \/ point' = point /\ replay' = "over"
  BY DEF CallReturns, CallFails
<1>3. /\ open # NoSlice /\ lastPoint = point /\ attached = Len(sealed)
      /\ open.base = SealedEnd /\ SealedEnd <= point /\ \A x \in recorded : x[2] < point
  BY <1>1 DEF IInv, Phase
<1>4. point \in Nat /\ SealedEnd \in Nat /\ Len(sealed) \in Nat
  BY State DEF IInv, TypeOK
<1>5. SealedEnd' = SealedEnd /\ Partition(sealed', SealedEnd')
  BY <1>1, Unsealed
<1>6. TypeOK'
  <2>1. <<attached, point>> \in (Nat \cup {NoRecorder}) \X Nat
    BY <1>4 DEF IInv, TypeOK
  <2>2. recorded' \in SUBSET ((Nat \cup {NoRecorder}) \X Nat)
    BY <1>1, <2>1 DEF IInv, TypeOK
  <2> QED BY <1>1, <1>2, <1>4, <2>2 DEF IInv, TypeOK
<1>7. Phase'
  <2>1. replay' # "over" => \A x \in recorded' : x[2] < point'
    <3>1. ASSUME replay' # "over", NEW x \in recorded' PROVE x[2] < point'
      <4>1. point' = point + 1
        BY <1>2, <3>1
      <4>2. CASE x = <<attached, point>>
        BY <1>4, <4>1, <4>2
      <4>3. CASE x \in recorded
        <5>1. x[2] \in Nat /\ x[2] < point
          BY <1>3, <4>3 DEF IInv, TypeOK
        <5> QED BY <1>4, <4>1, <5>1
      <4> QED BY <1>1, <4>2, <4>3
    <3> QED BY <3>1
  <2>2. lastPoint' <= point' /\ SealedEnd' <= lastPoint' /\ open'.base <= lastPoint'
    BY <1>1, <1>2, <1>3, <1>4, <1>5
  <2> QED BY <1>1, <1>2, <1>3, <1>5, <2>1, <2>2 DEF Phase
<1>8. DiskOK'
  BY <1>1 DEF IInv, DiskOK
<1>9. ManifestOK'
  BY <1>1 DEF IInv, ManifestOK
<1>10. CallsOK'
  <2>1. ASSUME NEW i \in 1..Len(sealed), NEW c \in sealed[i].base..(sealed[i].end - 1),
               NEW k \in Nat \cup {NoRecorder}
        PROVE  <<k, c>> \in recorded' <=> k = i - 1
    <3>1. sealed[i].base \in Nat /\ sealed[i].end \in Nat /\ sealed[i].end <= SealedEnd
      BY State DEF IInv, Partition
    <3>2. c # point
      BY <1>3, <1>4, <3>1
    <3>3. <<k, c>> \in recorded <=> k = i - 1
      BY DEF IInv, CallsOK
    <3> QED BY <1>1, <3>2, <3>3
  <2>2. ASSUME NEW c \in SealedEnd..(point' - 1), NEW k \in Nat \cup {NoRecorder}
        PROVE  <<k, c>> \in recorded' <=> k = Len(sealed)
    <3>1. CASE c = point
      <4>1. <<k, c>> \notin recorded
        <5>1. <<k, c>>[2] = c
          OBVIOUS
        <5>2. ~(c < point)
          BY <1>4, <3>1
        <5> QED BY <1>3, <5>1, <5>2
      <4> QED BY <1>1, <1>3, <3>1, <4>1
    <3>2. CASE c # point
      <4>1. c \in SealedEnd..(point - 1)
        BY <1>2, <1>4, <3>2
      <4>2. <<k, c>> \in recorded <=> k = Len(sealed)
        BY <4>1 DEF IInv, CallsOK
      <4> QED BY <1>1, <3>2, <4>2
    <3> QED BY <3>1, <3>2
  <2> QED BY <1>1, <1>5, <2>1, <2>2, Zenon DEF CallsOK
<1> QED BY <1>5, <1>6, <1>7, <1>8, <1>9, <1>10 DEF IInv

\* The replay reaches its end.
LEMMA ReplayEndsInv == IInv /\ ReplayEnds => IInv'
<1> SUFFICES ASSUME IInv, ReplayEnds PROVE IInv'
  OBVIOUS
<1> USE DEF ReplayEnds
<1>1. SealedEnd' = SealedEnd /\ Partition(sealed', SealedEnd') /\ DiskOK' /\ CallsOK'
  BY Unsealed, Untouched
<1>2. TypeOK'
  BY DEF IInv, TypeOK
<1>3. Phase'
  BY <1>1 DEF IInv, Phase
<1>4. ManifestOK'
  BY DEF IInv, ManifestOK
<1> QED BY <1>1, <1>2, <1>3, <1>4 DEF IInv

\* The recorder is run again, over what earlier runs left.
LEMMA RunAgainInv == IInv /\ RunAgain => IInv'
<1> SUFFICES ASSUME IInv, RunAgain PROVE IInv'
  OBVIOUS
<1> USE DEF RunAgain
<1>1. sealed' = <<>> /\ Len(sealed') = 0 /\ SealedEnd' = 0
  BY EmptySeq DEF SealedEnd
<1>2. Partition(sealed', SealedEnd')
  BY <1>1, PartitionOfNone
<1>3. TypeOK'
  BY EmptySeq DEF IInv, TypeOK
<1>4. Phase'
  BY <1>1 DEF Phase
<1>5. DiskOK'
  <2>1. ASSUME NEW c \in disk PROVE c.run <= run' /\ c.run # run'
    BY DEF IInv, TypeOK, DiskOK, Container
  <2> QED BY <1>1, <2>1 DEF DiskOK
<1>6. ManifestOK'
  BY DEF IInv, TypeOK, ManifestOK, Manifest
<1>7. CallsOK'
  BY <1>1 DEF CallsOK
<1> QED BY <1>2, <1>3, <1>4, <1>5, <1>6, <1>7 DEF IInv

\* Finish, whether or not it writes the manifest.
LEMMA FinishInv == IInv /\ Finish => IInv'
<1> SUFFICES ASSUME IInv, Finish PROVE IInv'
  OBVIOUS
<1>1. /\ replay = "finish" /\ open' = NoSlice /\ attached' = NoRecorder /\ replay' = "over"
      /\ UNCHANGED <<point, lastPoint, recorded, run>>
  BY DEF Finish
<1>2. /\ open \in OpenSlice /\ open.base = SealedEnd /\ lastPoint = point
      /\ SealedEnd <= point /\ manifest.run # run
  BY <1>1, AtFinish
<1>3. point \in Nat /\ run \in Nat /\ SealedEnd \in Nat
  BY State DEF IInv, TypeOK
<1>4. /\ sealed' \in Seq(SliceInfo) /\ SealedEnd' = point /\ Partition(sealed', SealedEnd')
      /\ disk' \in SUBSET Container /\ DiskOK' /\ CallsOK'
  <2>1. CASE open.base = lastPoint
    <3>1. UNCHANGED <<sealed, disk>>
      BY <2>1 DEF Finish, FinalSlices
    <3>2. SealedEnd' = SealedEnd /\ Partition(sealed', SealedEnd') /\ DiskOK' /\ CallsOK'
      BY <1>1, <3>1, Unsealed, Untouched
    <3> QED BY <1>2, <2>1, <3>1, <3>2, Zenon DEF IInv, TypeOK
  <2>2. CASE open.base # lastPoint
    <3>1. SealedEnd < point
      BY <1>2, <1>3, <2>2
    <3>2. disk' = Written(Len(sealed), TRUE) /\ sealed' = Append(sealed, Info(open, point))
      BY <1>2, <2>2 DEF Finish, FinalSlices, Index
    <3> QED BY <1>1, <1>2, <3>1, <3>2, Sealing, Zenon
  <2> QED BY <2>1, <2>2
<1>5. \/ manifest' = [run |-> run, total |-> lastPoint + 1, slices |-> sealed']
      \/ manifest' = manifest
      \/ manifest' = NoManifest
  BY DEF Finish
<1>6. TypeOK'
  <2>1. manifest' \in Manifest
    <3>1. NoManifest \in Manifest
      BY EmptySeq DEF Manifest, NoManifest
    <3>2. manifest \in Manifest
      BY DEF IInv, TypeOK
    <3>3. [run |-> run, total |-> lastPoint + 1, slices |-> sealed'] \in Manifest
      BY <1>2, <1>3, <1>4 DEF Manifest
    <3> QED BY <1>5, <3>1, <3>2, <3>3
  <2> QED BY <1>1, <1>4, <2>1 DEF IInv, TypeOK
<1>7. Phase'
  BY <1>1, <1>2, <1>3, <1>4 DEF Phase
<1>8. ManifestOK'
  <2>1. run > 0 /\ manifest.run <= run
    BY DEF IInv, ManifestOK
  <2>2. CASE manifest' = NoManifest
    BY <1>1, <1>3, <2>1, <2>2 DEF ManifestOK, NoManifest
  <2>3. CASE manifest' = manifest
    BY <1>1, <1>2, <2>1, <2>3 DEF ManifestOK
  <2>4. CASE manifest' = [run |-> run, total |-> lastPoint + 1, slices |-> sealed']
    BY <1>1, <1>2, <1>3, <1>4, <2>1, <2>4 DEF ManifestOK
  <2> QED BY <1>5, <2>2, <2>3, <2>4
<1> QED BY <1>4, <1>6, <1>7, <1>8 DEF IInv

\* A new writer over an empty directory.
LEMMA InitInv == Init => IInv
<1> SUFFICES ASSUME Init PROVE IInv
  OBVIOUS
<1> USE DEF Init
<1>1. Len(sealed) = 0 /\ SealedEnd = 0
  BY EmptySeq DEF SealedEnd
<1>2. Partition(sealed, SealedEnd)
  BY <1>1, PartitionOfNone
<1>3. TypeOK
  BY EmptySeq DEF TypeOK, NoManifest, Manifest
<1>4. Phase /\ DiskOK /\ ManifestOK /\ CallsOK
  BY <1>1 DEF Phase, DiskOK, ManifestOK, CallsOK, NoManifest
<1> QED BY <1>2, <1>3, <1>4 DEF IInv

\* Every step of the replay, of the writer and of the command keeps IInv.
LEMMA NextInv == IInv /\ [Next]_sliceVars => IInv'
<1> SUFFICES ASSUME IInv, [Next]_sliceVars PROVE IInv'
  OBVIOUS
<1>1. CASE UNCHANGED sliceVars
  <2>1. UNCHANGED <<replay, point, open, sealed, lastPoint, attached, recorded, run, disk, manifest>>
    BY <1>1 DEF sliceVars
  <2>2. SealedEnd' = SealedEnd /\ Partition(sealed', SealedEnd') /\ DiskOK' /\ CallsOK'
    BY <2>1, Unsealed, Untouched
  <2>3. TypeOK'
    BY <2>1 DEF IInv, TypeOK
  <2>4. Phase' /\ ManifestOK'
    BY <2>1, <2>2 DEF IInv, Phase, ManifestOK
  <2> QED BY <2>2, <2>3, <2>4 DEF IInv
<1>2. CASE Next
  BY <1>2, OpenFirstInv, ListingInv, SealingInv, SealFailsInv, CallInv, ReplayEndsInv,
     RunAgainInv, FinishInv DEF Next
<1> QED BY <1>1, <1>2

\* IInv holds in every state of every behaviour.
LEMMA Inductive == Spec => []IInv
BY InitInv, NextInv, PTL DEF Spec

-----------------------------------------------------------------------------
(***************************************************************************)
(* The policy. PolicyInv is inductive relative to IInv: what holds of each *)
(* sealed slice, that one which is not the last of an ended replay was     *)
(* sealed because the policy said so, and what the open slice has listed   *)
(* and captured up to the last point.                                      *)
(***************************************************************************)

\* The points of a slice, in order.
Listing(base, to) == [k \in 1..(to - base + 1) |-> base + k - 1]

ListedTo(s, to) == s.points = Listing(s.base, to)

Captured(base, end, snaps) == base \in snaps /\ snaps \subseteq base..end

Bounded(info) ==
  /\ info.points = info.end - info.base + 1
  /\ Captured(info.base, info.end, info.snaps)
  /\ EveryPoints > 0 => info.end - info.base <= EveryPoints

Filled(info) == sealsAfter(info.end - info.base, info.payload)

OpenFollows(s, to) ==
  /\ ListedTo(s, to)
  /\ Captured(s.base, to, s.snaps)
  /\ EveryPoints > 0 => to - s.base < EveryPoints

PolicyInv ==
  /\ \A i \in 1..Len(sealed) : Bounded(sealed[i])
  /\ \A i \in 1..Len(sealed) : i < Len(sealed) \/ replay # "over" => Filled(sealed[i])
  /\ replay # "over" /\ open # NoSlice => OpenFollows(open, lastPoint)

\* The list of points with the next one appended is the list up to that one.
LEMMA ListGrows ==
  ASSUME NEW b \in Nat, NEW to \in Nat, b <= to, NEW p, p = to + 1
  PROVE  /\ Listing(b, to) \in Seq(Nat) /\ Len(Listing(b, to)) = to - b + 1
         /\ Append(Listing(b, to), p) = Listing(b, p)
         /\ Len(Append(Listing(b, to), p)) = p - b + 1
<1> DEFINE n == to - b + 1
           q == Listing(b, to)
           t == [k \in 1..(n + 1) |-> b + k - 1]
<1>1. n \in Nat /\ n + 1 \in Nat /\ p - b + 1 = n + 1 /\ p \in Nat
  OBVIOUS
<1>2. \A k \in 1..n : b + k - 1 \in Nat
  OBVIOUS
<1>3. \A k \in 1..(n + 1) : b + k - 1 \in Nat
  OBVIOUS
<1> HIDE DEF n
<1>4. q \in Seq(Nat) /\ Len(q) = n /\ \A k \in 1..n : q[k] = b + k - 1
  BY <1>1, <1>2, IsASeq DEF n, Listing
<1> HIDE DEF q
<1>5. t \in Seq(Nat) /\ Len(t) = n + 1 /\ \A k \in 1..(n + 1) : t[k] = b + k - 1
  BY <1>1, <1>3, IsASeq
<1> HIDE DEF t
<1>6. /\ Append(q, p) \in Seq(Nat) /\ Len(Append(q, p)) = n + 1
      /\ Append(q, p)[n + 1] = p
      /\ \A k \in 1..n : Append(q, p)[k] = q[k]
  BY <1>1, <1>4, Appending
<1>7. p = b + (n + 1) - 1
  BY DEF n
<1>8. \A k \in 1..(n + 1) : Append(q, p)[k] = t[k]
  BY <1>1, <1>4, <1>5, <1>6, <1>7
<1>9. Append(q, p) = t
  BY <1>5, <1>6, <1>8, SeqEqual
<1>10. Listing(b, p) = t
  BY <1>1 DEF Listing, t
<1> QED BY <1>1, <1>4, <1>6, <1>9, <1>10, SMTT(30) DEF n, q

\* Where the replay can seal: what the open slice is with the point listed.
LEMMA ReachedFollows ==
  ASSUME IInv, PolicyInv, Advances, NEW bytes \in SnapshotBytes
  PROVE  /\ ListedTo(Reached(bytes), point)
         /\ Len(Reached(bytes).points) = point - open.base + 1
         /\ Captured(open.base, point, Reached(bytes).snaps)
         /\ EveryPoints > 0 => point - open.base <= EveryPoints
<1>1. /\ open \in OpenSlice /\ point = lastPoint + 1 /\ OpenFollows(open, lastPoint)
      /\ open.base <= lastPoint
  BY Advanced DEF Advances, PolicyInv, IInv, Phase
<1>2. /\ point \in Nat /\ lastPoint \in Nat /\ open.base \in Nat /\ open.points \in Seq(Nat)
      /\ open.snaps \in SUBSET Nat /\ open.payload \in Nat
  BY <1>1 DEF IInv, TypeOK, OpenSlice
<1>3. /\ Append(open.points, point) = Listing(open.base, point)
      /\ Len(Append(open.points, point)) = point - open.base + 1
  <2>1. /\ Append(Listing(open.base, lastPoint), point) = Listing(open.base, point)
        /\ Len(Append(Listing(open.base, lastPoint), point)) = point - open.base + 1
    <3>1. open.base \in Nat /\ lastPoint \in Nat
      BY <1>2
    <3>2. open.base <= lastPoint
      BY <1>1
    <3>3. point = lastPoint + 1
      BY <1>1
    <3> QED BY ONLY <3>1, <3>2, <3>3, ListGrows, Zenon
  <2>2. open.points = Listing(open.base, lastPoint)
    BY <1>1 DEF OpenFollows, ListedTo
  <2> QED BY <2>1, <2>2, Zenon
<1>4. /\ Reached(bytes).base = open.base
      /\ Reached(bytes).points = Append(open.points, point)
      /\ Reached(bytes).snaps \in {open.snaps, open.snaps \cup {point}}
  BY <1>1 DEF Reached, addPoint, OpenSlice
<1>5. Captured(open.base, point, Reached(bytes).snaps)
  <2>1. open.base \in open.snaps /\ open.snaps \subseteq open.base..lastPoint
    BY <1>1 DEF OpenFollows, Captured
  <2>2. open.base..lastPoint \subseteq open.base..point /\ point \in open.base..point
    BY <1>1, <1>2
  <2> QED BY <1>4, <2>1, <2>2 DEF Captured
<1>6. EveryPoints > 0 => point - open.base <= EveryPoints
  BY <1>1, <1>2, SliceAssumption DEF OpenFollows
<1> QED BY <1>3, <1>4, <1>5, <1>6 DEF ListedTo

\* A slice appended to the sealed ones keeps PolicyInv's part about them.
LEMMA SealedFollow ==
  ASSUME IInv, PolicyInv, replay # "over", NEW info \in SliceInfo, Bounded(info),
         Filled(info) \/ replay' = "over", sealed' = Append(sealed, info)
  PROVE  /\ \A i \in 1..Len(sealed') : Bounded(sealed'[i])
         /\ \A i \in 1..Len(sealed') : i < Len(sealed') \/ replay' # "over" => Filled(sealed'[i])
<1>1. sealed \in Seq(SliceInfo)
  BY DEF IInv, TypeOK
<1>2. /\ Len(sealed) \in Nat /\ Len(sealed') = Len(sealed) + 1
      /\ sealed'[Len(sealed) + 1] = info /\ \A i \in 1..Len(sealed) : sealed'[i] = sealed[i]
  BY <1>1, Appending
<1>3. ASSUME NEW i \in 1..Len(sealed')
      PROVE  Bounded(sealed'[i]) /\ (i < Len(sealed') \/ replay' # "over" => Filled(sealed'[i]))
  <2>1. CASE i = Len(sealed) + 1
    BY <1>2, <2>1
  <2>2. CASE i # Len(sealed) + 1
    <3>1. i \in 1..Len(sealed)
      BY <1>2, <2>2
    <3>2. Bounded(sealed[i]) /\ Filled(sealed[i])
      BY <3>1 DEF PolicyInv
    <3> QED BY <1>2, <3>1, <3>2
  <2> QED BY <2>1, <2>2
<1> QED BY <1>3

\* What is sealed at a point, and why.
LEMMA ReachedInfo ==
  ASSUME IInv, PolicyInv, Advances, NEW bytes \in SnapshotBytes,
         sealsAfter(point - open.base, Reached(bytes).payload)
  PROVE  LET info == Info(Reached(bytes), point)
         IN  info \in SliceInfo /\ Bounded(info) /\ Filled(info)
<1> DEFINE info == Info(Reached(bytes), point)
<1>1. /\ Reached(bytes) \in OpenSlice /\ Reached(bytes).base = SealedEnd /\ open.base = SealedEnd
      /\ point \in Nat
  BY Advanced DEF IInv, TypeOK
<1>2. info \in SliceInfo
  BY <1>1, InfoType
<1>3. /\ info.base = open.base /\ info.end = point /\ info.payload = Reached(bytes).payload
      /\ info.points = Len(Reached(bytes).points) /\ info.snaps = Reached(bytes).snaps
  BY <1>1 DEF Info
<1> HIDE DEF info
<1>4. Bounded(info)
  BY <1>3, ReachedFollows DEF Bounded
<1>5. Filled(info)
  BY <1>3 DEF Filled
<1> QED BY <1>2, <1>4, <1>5 DEF info

\* The slice Finish seals, in which the policy has sealed nothing.
LEMMA OpenInfo ==
  ASSUME IInv, PolicyInv, replay = "finish"
  PROVE  Info(open, lastPoint) \in SliceInfo /\ Bounded(Info(open, lastPoint))
<1> DEFINE info == Info(open, lastPoint)
<1>1. open \in OpenSlice /\ lastPoint \in Nat /\ open.base \in Nat /\ open.base <= lastPoint
  BY AtFinish DEF IInv, TypeOK, Phase, OpenSlice
<1>2. OpenFollows(open, lastPoint)
  BY DEF PolicyInv, IInv, Phase
<1>3. info \in SliceInfo
  BY <1>1, InfoType
<1>4. Len(open.points) = lastPoint - open.base + 1
  BY <1>1, <1>2, ListGrows, Zenon DEF OpenFollows, ListedTo
<1>5. /\ info.base = open.base /\ info.end = lastPoint
      /\ info.points = Len(open.points) /\ info.snaps = open.snaps
  BY DEF Info
<1>6. EveryPoints > 0 => lastPoint - open.base <= EveryPoints
  BY <1>1, <1>2, SliceAssumption DEF OpenFollows
<1> HIDE DEF info
<1>7. Bounded(info)
  BY <1>2, <1>4, <1>5, <1>6 DEF Bounded, OpenFollows
<1> QED BY <1>3, <1>7 DEF info

\* A slice opened at p.
LEMMA NewFollows ==
  ASSUME NEW p \in Nat, NEW bytes
  PROVE  OpenFollows(NewSlice(p, bytes), p)
<1>1. p - p + 1 = 1 /\ p - p = 0 /\ p + 1 - 1 = p
  OBVIOUS
<1>2. <<p>> = [k \in 1..1 |-> p + k - 1]
  OBVIOUS
<1>3. p \in p..p
  OBVIOUS
<1> QED BY <1>1, <1>2, <1>3, SliceAssumption DEF OpenFollows, NewSlice, ListedTo, Listing, Captured

\* Every step keeps PolicyInv.
LEMMA NextPolicy == IInv /\ PolicyInv /\ [Next]_sliceVars => PolicyInv'
<1> SUFFICES ASSUME IInv, PolicyInv, [Next]_sliceVars PROVE PolicyInv'
  OBVIOUS
<1>0. point \in Nat /\ lastPoint \in Nat
  BY DEF IInv, TypeOK
<1>1. CASE UNCHANGED sliceVars \/ ReplayEnds \/ CallReturns \/ CallFails
  <2>1. UNCHANGED <<open, sealed, lastPoint>> /\ (replay' # "over" => replay # "over")
    BY <1>1 DEF sliceVars, ReplayEnds, CallReturns, CallFails
  <2>2. UNCHANGED Len(sealed)
    BY <2>1
  <2>3. \A i \in 1..Len(sealed') : Bounded(sealed'[i])
    BY <2>1 DEF PolicyInv
  <2>4. \A i \in 1..Len(sealed') : i < Len(sealed') \/ replay' # "over" => Filled(sealed'[i])
    BY <2>1 DEF PolicyInv
  <2>5. replay' # "over" /\ open' # NoSlice => OpenFollows(open', lastPoint')
    BY <2>1 DEF PolicyInv
  <2> QED BY <2>3, <2>4, <2>5 DEF PolicyInv
<1>2. CASE OpenFirst
  <2>1. /\ sealed' = sealed /\ Len(sealed) = 0 /\ lastPoint' = point
        /\ \E bytes \in SnapshotBytes : open' = NewSlice(point, bytes)
    BY <1>2, EmptySeq DEF OpenFirst, IInv, Phase
  <2>2. OpenFollows(open', lastPoint')
    BY <1>0, <2>1, NewFollows
  <2> QED BY <2>1, <2>2 DEF PolicyInv
<1>3. CASE ListPoint
  <2>1. PICK bytes \in SnapshotBytes :
          ~sealsAfter(point - open.base, Reached(bytes).payload) /\ open' = Reached(bytes)
    BY <1>3 DEF ListPoint
  <2>2. /\ Advances /\ sealed' = sealed /\ lastPoint' = point /\ replay' = "call"
        /\ replay = "hook"
    BY <1>3 DEF ListPoint, Advances
  <2>3. Reached(bytes).base = open.base /\ open.base \in Nat
    BY <2>2, Advanced, State
  <2>4. EveryPoints > 0 => point - open.base < EveryPoints
    BY <1>0, <2>1, <2>3, SliceAssumption DEF sealsAfter
  <2>5. OpenFollows(open', lastPoint')
    BY <2>1, <2>2, <2>3, <2>4, ReachedFollows DEF OpenFollows
  <2> QED BY <2>2, <2>5 DEF PolicyInv
<1>4. CASE CaptureFails
  <2>1. sealed' = sealed /\ replay' = "over" /\ replay = "hook"
    BY <1>4 DEF CaptureFails
  <2> QED BY <2>1 DEF PolicyInv
<1>5. CASE SealAndOpen \/ ReopenFails
  <2>1. PICK bytes \in SnapshotBytes :
          /\ sealsAfter(point - open.base, Reached(bytes).payload)
          /\ sealed' = Append(sealed, Info(Reached(bytes), point))
    BY <1>5, Zenon DEF SealAndOpen, ReopenFails
  <2>2. Advances /\ replay = "hook" /\ lastPoint' = point
    BY <1>5, Zenon DEF SealAndOpen, ReopenFails, Advances
  <2>3. /\ Info(Reached(bytes), point) \in SliceInfo
        /\ Bounded(Info(Reached(bytes), point)) /\ Filled(Info(Reached(bytes), point))
    BY <2>1, <2>2, ReachedInfo
  <2>4. replay' # "over" => OpenFollows(open', lastPoint')
    BY <1>0, <1>5, <2>2, NewFollows, Zenon DEF SealAndOpen, ReopenFails
  <2> QED BY <2>1, <2>2, <2>3, <2>4, SealedFollow DEF PolicyInv
<1>6. CASE SealFails
  <2>1. PICK bytes \in SnapshotBytes :
          /\ sealsAfter(point - open.base, Reached(bytes).payload)
          /\ SealFailsAt(point, Reached(bytes))
    BY <1>6 DEF SealFails
  <2>2. Advances /\ replay = "hook" /\ replay' = "over"
    BY <1>6, <2>1 DEF SealFails, Advances, SealFailsAt
  <2>3. /\ Info(Reached(bytes), point) \in SliceInfo
        /\ Bounded(Info(Reached(bytes), point)) /\ Filled(Info(Reached(bytes), point))
    BY <2>1, <2>2, ReachedInfo
  <2>4. sealed' = sealed \/ sealed' = Append(sealed, Info(Reached(bytes), point))
    BY <2>1, Zenon DEF SealFailsAt
  <2>5. CASE sealed' = sealed
    BY <2>2, <2>5 DEF PolicyInv
  <2>6. CASE sealed' = Append(sealed, Info(Reached(bytes), point))
    BY <2>2, <2>3, <2>6, SealedFollow DEF PolicyInv
  <2> QED BY <2>4, <2>5, <2>6
<1>7. CASE Finish \/ FinishFails
  <2>1. /\ replay = "finish" /\ replay' = "over"
        /\ sealed' = sealed \/ sealed' = Append(sealed, Info(open, lastPoint))
    BY <1>7, Zenon DEF Finish, FinalSlices, FinishFails, SealFailsAt
  <2>2. Info(open, lastPoint) \in SliceInfo /\ Bounded(Info(open, lastPoint))
    BY <2>1, OpenInfo
  <2>3. CASE sealed' = sealed
    BY <2>1, <2>3 DEF PolicyInv
  <2>4. CASE sealed' = Append(sealed, Info(open, lastPoint))
    BY <2>1, <2>2, <2>4, SealedFollow DEF PolicyInv
  <2> QED BY <2>1, <2>3, <2>4
<1>8. CASE RunAgain
  BY <1>8, EmptySeq DEF RunAgain, PolicyInv
<1> QED BY <1>1, <1>2, <1>3, <1>4, <1>5, <1>6, <1>7, <1>8 DEF Next

-----------------------------------------------------------------------------
(***************************************************************************)
(* What holds for every policy and recording.                              *)
(***************************************************************************)

\* The writer's fields keep their types, through every failure and rerun.
THEOREM TypeCorrect == Spec => []TypeOK
<1>1. IInv => TypeOK
  BY DEF IInv
<1> QED BY <1>1, Inductive, PTL

\* The slices seal produces always tile the calls replayed so far: no gap, no
\* overlap and no empty slice (slice.go, checkTiling).
THEOREM SlicesAlwaysTile == Spec => []SlicesTile
<1>1. ASSUME IInv PROVE SlicesTile
  <2>1. point \in Nat /\ lastPoint \in Nat /\ SealedEnd \in Nat
    BY <1>1, State DEF IInv, TypeOK
  <2>2. /\ Tiles(sealed, 0, SealedEnd) /\ lastPoint <= point /\ SealedEnd <= lastPoint
        /\ open # NoSlice => open.base = SealedEnd
    BY <1>1 DEF IInv, Partition, Phase
  <2> QED BY <2>1, <2>2 DEF SlicesTile
<1> QED BY <1>1, Inductive, PTL

\* Every sealed slice lists each of its points once, can be entered at its
\* first, is no longer than EveryPoints, and was sealed at the first point the
\* policy allows unless it is the last one (slice.go, sealsAfter, addPoint).
THEOREM SlicesAlwaysFollowPolicy == Spec => []SlicesFollowPolicy
<1>1. Init => PolicyInv
  BY EmptySeq DEF Init, PolicyInv
<1>2. Spec => []PolicyInv
  BY <1>1, NextPolicy, Inductive, PTL DEF Spec
<1>3. ASSUME IInv, PolicyInv PROVE SlicesFollowPolicy
  <2>1. ASSUME replay = "call"
        PROVE  open.points = [k \in 1..(point - open.base + 1) |-> open.base + k - 1]
    <3>1. lastPoint = point /\ open # NoSlice
      BY <1>3, <2>1 DEF IInv, Phase
    <3>2. OpenFollows(open, lastPoint)
      BY <1>3, <2>1, <3>1 DEF PolicyInv
    <3> QED BY <3>1, <3>2, Zenon DEF OpenFollows, ListedTo, Listing
  <2>2. \A i \in 1..Len(sealed) : Bounded(sealed[i]) /\ (i < Len(sealed) => Filled(sealed[i]))
    BY <1>3 DEF PolicyInv
  <2> QED BY <2>1, <2>2, Zenon DEF SlicesFollowPolicy, Bounded, Captured, Filled
<1> QED BY <1>2, <1>3, Inductive, PTL

\* A manifest written by Finish describes the whole replay and only containers
\* that are complete on disk.
THEOREM ManifestAlwaysComplete == Spec => []ManifestComplete
<1>1. ASSUME IInv PROVE ManifestComplete
  <2>1. SUFFICES ASSUME manifest.run = run
                 PROVE  /\ Tiles(manifest.slices, 0, manifest.total - 1)
                        /\ manifest.total = lastPoint + 1
                        /\ \A i \in 1..Len(manifest.slices) :
                             [index |-> i - 1, run |-> run, complete |-> TRUE] \in disk
    BY DEF ManifestComplete
  <2>2. /\ manifest.slices = sealed /\ manifest.total = lastPoint + 1
        /\ SealedEnd = lastPoint
    BY <1>1, <2>1 DEF IInv, ManifestOK
  <2>3. manifest.total - 1 = SealedEnd
    BY <1>1, <2>2 DEF IInv, TypeOK
  <2>4. Tiles(sealed, 0, SealedEnd)
    BY <1>1 DEF IInv, Partition
  <2>5. \A i \in 1..Len(sealed) : [index |-> i - 1, run |-> run, complete |-> TRUE] \in disk
    BY <1>1 DEF IInv, DiskOK
  <2>6. Tiles(manifest.slices, 0, manifest.total - 1)
    BY <2>2, <2>3, <2>4, Zenon
  <2> QED BY <2>2, <2>5, <2>6, Zenon
<1> QED BY <1>1, Inductive, PTL

\* Swapping recorders at a point neither loses a call nor records it twice:
\* each call is in the trace of the one slice whose range holds it.
THEOREM CallsAlwaysInTheirSlice == Spec => []CallsInTheirSlice
<1>1. ASSUME IInv PROVE CallsInTheirSlice
  <2> SUFFICES ASSUME NEW c \in 0..(point - 1)
               PROVE  LET owners == {s \in 1..Len(sealed) :
                                       sealed[s].base <= c /\ c < sealed[s].end}
                          by == {rc[1] : rc \in {x \in recorded : x[2] = c}}
                      IN  IF c < SealedEnd THEN \E s \in owners : owners = {s} /\ by = {s - 1}
                          ELSE by = {Len(sealed)}
    BY Zenon DEF CallsInTheirSlice
  <2> DEFINE owners == {s \in 1..Len(sealed) : sealed[s].base <= c /\ c < sealed[s].end}
             by == {rc[1] : rc \in {x \in recorded : x[2] = c}}
  <2>1. point \in Nat /\ c \in Nat /\ SealedEnd \in Nat /\ Len(sealed) \in Nat
    BY <1>1, State DEF IInv, TypeOK
  <2>2. \A x \in recorded : x = <<x[1], x[2]>> /\ x[1] \in Nat \cup {NoRecorder}
    BY <1>1 DEF IInv, TypeOK
  <2>3. ASSUME NEW w \in Nat, \A k \in Nat \cup {NoRecorder} : <<k, c>> \in recorded <=> k = w
        PROVE  by = {w}
    <3>1. <<w, c>> \in recorded /\ <<w, c>>[1] = w /\ <<w, c>>[2] = c
      BY <2>3
    <3>2. ASSUME NEW x \in recorded, x[2] = c PROVE x[1] = w
      BY <2>2, <2>3, <3>2
    <3> QED BY <3>1, <3>2
  <2>4. CASE c < SealedEnd
    <3>1. c \in 0..(SealedEnd - 1)
      BY <2>1, <2>4
    <3>2. PICK s \in 1..Len(sealed) : sealed[s].base <= c /\ c < sealed[s].end
      BY <1>1, <3>1, Zenon DEF IInv, Partition
    <3>3. \A i \in 1..Len(sealed) : sealed[i].base \in Nat /\ sealed[i].end \in Nat
      BY <1>1, State
    <3>4. owners = {s}
      <4>1. ASSUME NEW i \in 1..Len(sealed), sealed[i].base <= c, c < sealed[i].end, i # s
            PROVE  FALSE
        <5>1. \/ i < s /\ sealed[i].end <= sealed[s].base
              \/ s < i /\ sealed[s].end <= sealed[i].base
          <6>1. i < s \/ s < i
            BY <2>1, <4>1
          <6> QED BY <1>1, <6>1 DEF IInv, Partition
        <5> QED BY <2>1, <3>2, <3>3, <4>1, <5>1
      <4> QED BY <3>2, <4>1
    <3>5. by = {s - 1}
      <4>1. c \in sealed[s].base..(sealed[s].end - 1) /\ s - 1 \in Nat
        BY <2>1, <3>2, <3>3
      <4>2. \A k \in Nat \cup {NoRecorder} : <<k, c>> \in recorded <=> k = s - 1
        BY <1>1, <4>1, Zenon DEF IInv, CallsOK
      <4> HIDE DEF by
      <4> QED BY <2>3, <4>1, <4>2
    <3> HIDE DEF owners, by
    <3>6. s \in owners
      BY <3>4
    <3> QED BY <2>4, <3>4, <3>5, <3>6, SMTT(30) DEF owners, by
  <2>5. CASE ~(c < SealedEnd)
    <3>1. c \in SealedEnd..(point - 1)
      BY <2>1, <2>5
    <3>2. \A k \in Nat \cup {NoRecorder} : <<k, c>> \in recorded <=> k = Len(sealed)
      BY <1>1, <3>1 DEF IInv, CallsOK
    <3>3. by = {Len(sealed)}
      BY <2>1, <2>3, <3>2, Zenon
    <3> QED BY <2>5, <3>3
  <2> QED BY <2>4, <2>5, Zenon
<1> QED BY <1>1, Inductive, PTL

\* A sealed slice and its container are never touched again by their run.
THEOREM SealedStaysFrozen == Spec => SealedFrozen
<1> DEFINE Frozen ==
      run' = run =>
        /\ \A i \in 1..Len(sealed) : i \in DOMAIN sealed' /\ sealed'[i] = sealed[i]
        /\ \A c \in disk : c.run = run /\ c.complete => c \in disk'
<1>1. ASSUME IInv, Next PROVE Frozen
  <2>1. \/ UNCHANGED sealed
        \/ \E s \in OpenSlice : sealed' = Append(sealed, Info(s, point))
        \/ run' # run
    <3>1. CASE OpenFirst \/ ListPoint \/ CaptureFails \/ CallReturns \/ CallFails \/ ReplayEnds
      BY <3>1 DEF OpenFirst, ListPoint, CaptureFails, CallReturns, CallFails, ReplayEnds
    <3>2. CASE SealAndOpen \/ SealFails \/ ReopenFails
      BY <1>1, <3>2, Advanced, Zenon DEF SealAndOpen, SealFails, SealFailsAt, ReopenFails
    <3>3. CASE Finish \/ FinishFails
      BY <1>1, <3>3, AtFinish, Zenon DEF Finish, FinalSlices, FinishFails, SealFailsAt
    <3>4. CASE RunAgain
      BY <1>1, <3>4 DEF RunAgain, IInv, TypeOK
    <3> QED BY <1>1, <3>1, <3>2, <3>3, <3>4 DEF Next
  <2>2. disk' = disk \/ \E b \in BOOLEAN : disk' = Written(Len(sealed), b)
    BY <1>1, Zenon DEF Next, OpenFirst, ListPoint, CaptureFails, CallReturns, CallFails, ReplayEnds,
       SealAndOpen, SealFails, SealFailsAt, ReopenFails, Finish, FinishFails, RunAgain, Index
  <2>3. ASSUME run' = run, NEW i \in 1..Len(sealed)
        PROVE  i \in DOMAIN sealed' /\ sealed'[i] = sealed[i]
    <3>1. sealed \in Seq(SliceInfo) /\ point \in Nat /\ Len(sealed) \in Nat
      BY <1>1, State DEF IInv, TypeOK
    <3>2. CASE UNCHANGED sealed
      BY <3>1, <3>2, LenProperties
    <3>3. CASE \E s \in OpenSlice : sealed' = Append(sealed, Info(s, point))
      <4>1. PICK s \in OpenSlice : sealed' = Append(sealed, Info(s, point))
        BY <3>3
      <4>2. Info(s, point) \in SliceInfo
        BY <3>1, InfoType
      <4>3. sealed' \in Seq(SliceInfo) /\ Len(sealed') = Len(sealed) + 1 /\ sealed'[i] = sealed[i]
        BY <3>1, <4>1, <4>2, Appending
      <4>4. DOMAIN sealed' = 1..Len(sealed')
        BY <4>3, LenProperties
      <4> QED BY <3>1, <4>3, <4>4
    <3> QED BY <2>1, <2>3, <3>2, <3>3
  <2>4. ASSUME NEW c \in disk, c.run = run, c.complete PROVE c \in disk'
    <3>1. c.index < Len(sealed)
      BY <1>1, <2>4 DEF IInv, DiskOK
    <3>2. c.index # Len(sealed)
      BY <1>1, <3>1, State DEF IInv, TypeOK, Container
    <3> QED BY <2>2, <3>2 DEF Written
  <2> QED BY <2>3, <2>4
<1>2. ASSUME IInv, [Next]_sliceVars PROVE [Frozen]_sliceVars
  BY <1>1, <1>2
<1> QED BY <1>2, Inductive, PTL DEF Spec, SealedFrozen
=============================================================================
