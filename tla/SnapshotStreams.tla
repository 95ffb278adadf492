-------------------------- MODULE SnapshotStreams --------------------------
(***************************************************************************)
(* The snap* streams of internal/wasmsnapshot/streams.go.  The layout, the *)
(* global and the table stream are shared by all snapshots of a container  *)
(* and addressed by (offset, length) pairs of the index, so they are       *)
(* sequences of cells, one cell per field the code writes; offsets and     *)
(* lengths count cells.  A field that is constant in every stream written  *)
(* (magic, protect, flags, reserved bytes) has no cell.                    *)
(***************************************************************************)
EXTENDS PageStore

CONSTANT Word       \* the number of values of a 32-bit word

ASSUME WordAssumption == Word \in Nat /\ Word % 2 = 0 /\ Word > 2

SnapshotFormatVersion == 1
NullElement == -1

\* uint32(e) of an int32, and back.
PutInt32(e) == e % Word
GetInt32(u) == IF u >= Word \div 2 THEN u - Word ELSE u

Field(raw, at) == raw[at + 1]
Remaining(raw, at) == Len(raw) - at
-----------------------------------------------------------------------------
(* snapshot.lay *)

RunCells(run) == <<run.cache, Len(run.hashes)>> \o run.hashes

RegionCells(r) ==
    <<r.base, r.size, r.kind>> \o
    CASE r.kind = KindFull       -> <<r.fileOffset>>
      [] r.kind = KindHashRef    -> <<Len(r.hashes)>> \o r.hashes
      [] r.kind = KindRunHashRef ->
            <<Len(r.runs)>> \o FlattenSeq([i \in DOMAIN r.runs |-> RunCells(r.runs[i])])

encodeRegions(regions) ==
    <<Len(regions)>> \o FlattenSeq([i \in DOMAIN regions |-> RegionCells(regions[i])])

\* A reader's position, what it has read, and whether it ran past the stream.
Stop(at) == [ok |-> FALSE, at |-> at, read |-> << >>]

hashes(raw, at, n) ==
    IF n > Remaining(raw, at) THEN Stop(at)
    ELSE [ok |-> TRUE, at |-> at + n, read |-> SubSeq(raw, at + 1, at + n)]

RECURSIVE ReadRuns(_, _, _, _)
ReadRuns(raw, at, n, runs) ==
    IF n = 0 THEN [ok |-> TRUE, at |-> at, read |-> runs]
    ELSE IF Remaining(raw, at) < 2 THEN Stop(at)
    ELSE LET hs == hashes(raw, at + 2, Field(raw, at + 1))
         IN  IF ~hs.ok THEN hs
             ELSE ReadRuns(raw, hs.at, n - 1,
                      Append(runs, [cache |-> Field(raw, at), hashes |-> hs.read]))

ReadRegion(raw, at) ==
    IF Remaining(raw, at) < 4 THEN Stop(at)
    ELSE LET base == Field(raw, at)
             size == Field(raw, at + 1)
             kind == Field(raw, at + 2)
             n    == Field(raw, at + 3)
             head == [base |-> base, size |-> size, kind |-> kind]
             list == IF kind = KindHashRef THEN hashes(raw, at + 4, n)
                     ELSE IF n * 2 > Remaining(raw, at + 4) THEN Stop(at)
                     ELSE ReadRuns(raw, at + 4, n, << >>)
         IN  CASE kind = KindFull ->
                     [ok |-> TRUE, at |-> at + 4,
                      read |-> [fileOffset |-> n] @@ head]
               [] kind = KindHashRef ->
                     [list EXCEPT !.read = [hashes |-> list.read] @@ head]
               [] kind = KindRunHashRef ->
                     [list EXCEPT !.read = [runs |-> list.read] @@ head]
               [] OTHER -> Stop(at)

RECURSIVE ReadRegions(_, _, _, _)
ReadRegions(raw, at, n, regions) ==
    IF n = 0 THEN [ok |-> TRUE, at |-> at, read |-> regions]
    ELSE LET r == ReadRegion(raw, at)
         IN  IF ~r.ok THEN r ELSE ReadRegions(raw, r.at, n - 1, Append(regions, r.read))

decodeRegions(raw) ==
    IF raw = << >> THEN [ok |-> TRUE, at |-> 0, read |-> << >>]
    ELSE IF Field(raw, 0) * 4 > Len(raw) THEN Stop(0)
    ELSE ReadRegions(raw, 1, Field(raw, 0), << >>)
-----------------------------------------------------------------------------
(* snapglob.dat and snaptab.dat *)

encodeGlobals(gs) ==
    <<Len(gs)>> \o FlattenSeq([i \in DOMAIN gs |-> <<gs[i].type, gs[i].lo, gs[i].hi>>])

decodeGlobals(raw) ==
    IF raw = << >> THEN [ok |-> TRUE, read |-> << >>]
    ELSE IF 1 + Field(raw, 0) * 3 # Len(raw) THEN [ok |-> FALSE, read |-> << >>]
    ELSE [ok |-> TRUE,
          read |-> [i \in 1..Field(raw, 0) |-> [type |-> Field(raw, 3 * i - 2),
                                                lo   |-> Field(raw, 3 * i - 1),
                                                hi   |-> Field(raw, 3 * i)]]]

encodeTables(ts) ==
    <<Len(ts)>> \o FlattenSeq([i \in DOMAIN ts |->
        <<Len(ts[i])>> \o [j \in DOMAIN ts[i] |-> PutInt32(ts[i][j])]])

RECURSIVE ReadTables(_, _, _, _)
ReadTables(raw, at, n, tables) ==
    IF n = 0 THEN [ok |-> at = Len(raw), read |-> tables]
    ELSE IF \/ Remaining(raw, at) < 1
            \/ Field(raw, at) > Remaining(raw, at + 1)
    THEN [ok |-> FALSE, read |-> << >>]
    ELSE ReadTables(raw, at + 1 + Field(raw, at), n - 1,
             Append(tables, [j \in 1..Field(raw, at) |-> GetInt32(Field(raw, at + j))]))

decodeTables(raw) ==
    IF raw = << >> THEN [ok |-> TRUE, read |-> << >>]
    ELSE ReadTables(raw, 1, Field(raw, 0), << >>)
-----------------------------------------------------------------------------
(* snapshot.idx *)

encodeIndex(records, version) ==
    [version |-> version, count |-> Len(records), records |-> records]

\* The outcome is "ok", "version" or "corrupt".
decodeIndex(raw) ==
    IF raw.version # SnapshotFormatVersion THEN "version"
    ELSE IF raw.count # Len(raw.records) THEN "corrupt"
    ELSE "ok"

\* sliceOf: a window of a stream, refused when it runs past its end.
Within(raw, off, length) == off + length <= Len(raw)
Window(raw, off, length) == SubSeq(raw, off + 1, off + length)
=============================================================================
