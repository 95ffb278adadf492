------------------------------ MODULE Snapshots ------------------------------
(***************************************************************************)
(* Deriving snapshots and seeking with them.                               *)
(*                                                                         *)
(* Several processes replay the same recording with --snapshots            *)
(* (cmd/wazero/snapshots.go).  At the quiescent points it selects each     *)
(* captures the module (snapshot.go), encodes the memory page by page      *)
(* against its own per-trace tier and the host-wide system cache they all  *)
(* share (pagecas.go), and at the end attaches the streams to its          *)
(* container (container.go).  A process may die at any step, the disk may  *)
(* fill up while a cache file is written, and cache files may be removed.  *)
(* Seeks load a container, pick the nearest snapshot, materialise it and   *)
(* restore it into a fresh instance.                                       *)
(***************************************************************************)
EXTENDS SnapshotStreams

CONSTANTS Procs,        \* the deriving processes, one container each
          Executions,   \* sequences of module states, one per quiescent point
          Options,      \* the settings a derivation may run with
          Functions,    \* how many functions the module has
          MaxPages      \* the memory's declared maximum

VARIABLES execution,    \* the execution every replay of the recording repeats
          system,       \* the system cache: per hash, its file's content
          proc,         \* the deriving processes
          archive,      \* the containers with attached streams
          answer,       \* the outcome of the last seek
          evicted       \* whether a cache file was ever removed (no state of the code)

vars == <<execution, system, proc, archive, answer, evicted>>

NoContainer == [attached |-> FALSE]
Nothing == [status |-> "none"]
Refused == [status |-> "refused"]

LastPoint == Len(execution) - 1
-----------------------------------------------------------------------------
(* Capture and Restore.  A function reference is an address of the engine  *)
(* instance that made it: instance i names function f by a number no other *)
(* instance uses, and a slot filled with another module's function holds a *)
(* number of neither.                                                      *)

Foreign == -2

FunctionInstanceReference(inst, f) == 1 + inst * Functions + f

References(inst, table) ==
    [j \in DOMAIN table |->
        CASE table[j] = NullElement -> 0
          [] table[j] = Foreign     -> FunctionInstanceReference(2, 0)
          [] OTHER                  -> FunctionInstanceReference(inst, table[j])]

OwnReferences(inst) == {FunctionInstanceReference(inst, f) : f \in 0..(Functions - 1)}

captureTable(inst, refs) ==
    [j \in DOMAIN refs |->
        IF refs[j] = 0 THEN NullElement
        ELSE CHOOSE f \in 0..(Functions - 1) : FunctionInstanceReference(inst, f) = refs[j]]

\* The module's state at a point of a deriving replay, run on instance 0.
Capture(p) ==
    LET s    == execution[p + 1]
        refs == [i \in DOMAIN s.tables |-> References(0, s.tables[i])]
        ok   == \A i \in DOMAIN refs : \A j \in DOMAIN refs[i] :
                    refs[i][j] = 0 \/ refs[i][j] \in OwnReferences(0)
    IN  [ok |-> ok, memory |-> s.memory, globals |-> s.globals,
         tables |-> IF ok THEN [i \in DOMAIN refs |-> captureTable(0, refs[i])] ELSE << >>]

\* What a snapshot leaves in a fresh instance (instance 1), which starts in the
\* state of point 0; ok is FALSE where Restore returns an error.
Restore(snap) ==
    LET fresh == execution[1]
    IN  [ok |-> /\ Len(fresh.memory) <= Len(snap.memory)
                /\ Len(snap.memory) <= MaxPages
                /\ Len(snap.globals) = Len(fresh.globals)
                /\ \A i \in DOMAIN snap.globals : snap.globals[i].type = fresh.globals[i].type
                /\ Len(snap.tables) = Len(fresh.tables)
                /\ \A i \in DOMAIN snap.tables : Len(snap.tables[i]) = Len(fresh.tables[i]),
         memory |-> snap.memory, globals |-> snap.globals,
         tables |-> [i \in DOMAIN snap.tables |-> References(1, snap.tables[i])]]

\* An instance's state with its references named by the functions they denote.
Portable(r) ==
    [memory |-> r.memory, globals |-> r.globals,
     tables |-> [i \in DOMAIN r.tables |->
         [j \in DOMAIN r.tables[i] |->
             IF r.tables[i][j] = 0 THEN NullElement
             ELSE IF r.tables[i][j] \in OwnReferences(1)
             THEN CHOOSE f \in 0..(Functions - 1) :
                      FunctionInstanceReference(1, f) = r.tables[i][j]
             ELSE Foreign]]]
-----------------------------------------------------------------------------
(* A deriving process.  Its builder holds the index records, the streams   *)
(* and the per-trace tier; while a memory is encoded, enc and page are the *)
(* state of EncodeMemory's loop and tier the tier of the page at hand.     *)

EmptyTier == [h \in {} |-> Short]

Record(ordinal) ==
    [ordinal |-> ordinal, snapshot |-> FALSE, base |-> FALSE, memory |-> 0,
     layOffset |-> 0, layLength |-> 0, globOffset |-> 0, globLength |-> 0,
     tabOffset |-> 0, tabLength |-> 0]

Idle == [pc |-> "idle"]

Init ==
    /\ execution \in Executions
    /\ system = NoSystem
    /\ proc = [d \in Procs |-> Idle]
    /\ archive = [d \in Procs |-> NoContainer]
    /\ answer = Nothing
    /\ evicted = FALSE

\* configure: the points are those of the whole recording, listed whether or not
\* they will carry a snapshot.
Start(d) ==
    /\ proc[d].pc = "idle"
    /\ \E o \in Options :
          proc' = [proc EXCEPT ![d] =
              [pc |-> "replay", opts |-> o, point |-> 0, page |-> 0, tier |-> 0,
               enc |-> NewEncoder, perTrace |-> EmptyTier,
               lay |-> << >>, mem |-> << >>, glob |-> << >>, tab |-> << >>,
               records |-> [i \in 1..Len(execution) |-> Record(i - 1)]]]
    /\ UNCHANGED <<execution, system, archive, answer, evicted>>

Selected(o, p) == p % o.every = 0 \/ p = LastPoint

\* The quiescent-point hook: capture, or pass the point by.
AtQuiescentPoint(d) ==
    LET q == proc[d]
    IN  /\ q.pc = "replay"
        /\ q.point <= LastPoint
        /\ proc' = [proc EXCEPT ![d] =
               IF ~Selected(q.opts, q.point) THEN [q EXCEPT !.point = @ + 1]
               ELSE IF ~Capture(q.point).ok THEN [q EXCEPT !.pc = "failed"]
               ELSE [q EXCEPT !.pc = "encode", !.page = 0, !.enc = NewEncoder]]
        /\ UNCHANGED <<execution, system, archive, answer, evicted>>

\* The system cache as a process sees it: not at all without --cas-system.
SystemOf(q) == IF q.opts.system THEN system ELSE NoSystem

PageAt(q) == Capture(q.point).memory[q.page + 1]

\* The tail of EncodeMemory's loop body.
Encoded(q, tier) ==
    [q EXCEPT !.pc = "encode", !.page = @ + 1,
              !.enc = EncodeHash(@, q.page, tier, HashPage(PageAt(q)))]

\* One page: look it up, keep a miss inline or in the per-trace tier, and go on
\* to promote it if it is to be shared and the system cache does not have it.
EncodePage(d) ==
    LET q      == proc[d]
        h      == HashPage(PageAt(q))
        found  == Lookup(q.perTrace, SystemOf(q), h)
        tier   == IF found = {} THEN CacheIDPerTrace ELSE (CHOOSE f \in found : TRUE).tier
        kept   == [q EXCEPT !.perTrace = IF found = {} THEN PerTraceInsert(@, h, PageAt(q))
                                         ELSE @]
    IN  /\ q.pc = "encode"
        /\ q.page < Len(Capture(q.point).memory)
        /\ proc' = [proc EXCEPT ![d] =
               IF found = {} /\ q.opts.inline
               THEN [q EXCEPT !.page = @ + 1, !.enc = EncodeInline(@, q.page, PageAt(q))]
               ELSE IF q.opts.promote /\ q.opts.system /\ ~SystemHolds(system, h)
               THEN [kept EXCEPT !.pc = "create", !.tier = tier]
               ELSE Encoded(kept, tier)]
        /\ UNCHANGED <<execution, system, archive, answer, evicted>>

\* SystemCache.Insert, first half: the exclusive create.  A name that exists is
\* taken for the same content.
CreateFile(d) ==
    LET q == proc[d]
        h == HashPage(PageAt(q))
    IN  /\ q.pc = "create"
        /\ IF system[h] # NoFile
           THEN /\ proc' = [proc EXCEPT ![d] = Encoded(q, q.tier)]
                /\ UNCHANGED system
           ELSE /\ proc' = [proc EXCEPT ![d].pc = "write"]
                /\ system' = [system EXCEPT ![h] = Short]
        /\ UNCHANGED <<execution, archive, answer, evicted>>

\* Second half: the write succeeds, or fails with the file cut short.
WriteFile(d) ==
    LET q == proc[d]
    IN  /\ q.pc = "write"
        /\ proc' = [proc EXCEPT ![d] = Encoded(q, q.tier)]
        /\ system' = [system EXCEPT ![HashPage(PageAt(q))] = PageAt(q)]
        /\ UNCHANGED <<execution, archive, answer, evicted>>

WriteFails(d) ==
    /\ proc[d].pc = "write"
    /\ proc' = [proc EXCEPT ![d].pc = "failed"]
    /\ UNCHANGED <<execution, system, archive, answer, evicted>>

\* Mutant of Rebased: the offsets stay relative to the snapshot's own pages.
NotRebased(regions, base) == regions

\* Builder.Add once the memory is encoded: inline offsets are rebased onto the
\* shared stream, the streams grow, the point's record is filled in.
Rebased(regions, base) ==
    [i \in DOMAIN regions |->
        IF regions[i].kind = KindFull THEN [regions[i] EXCEPT !.fileOffset = @ + base]
        ELSE regions[i]]

Add(d) ==
    LET q     == proc[d]
        snap  == Capture(q.point)
        done  == flushRegion(q.enc)
        lay   == encodeRegions(Rebased(done.regions, Len(q.mem)))
        glob  == encodeGlobals(snap.globals)
        tab   == encodeTables(snap.tables)
    IN  /\ q.pc = "encode"
        /\ q.page = Len(snap.memory)
        /\ proc' = [proc EXCEPT ![d] =
               [q EXCEPT !.pc = "replay", !.point = @ + 1, !.enc = NewEncoder, !.page = 0,
                         !.mem = @ \o done.inline, !.lay = @ \o lay,
                         !.glob = @ \o glob, !.tab = @ \o tab,
                         !.records[q.point + 1] =
                             [@ EXCEPT !.snapshot = TRUE, !.memory = Len(snap.memory),
                                       !.layOffset = Len(q.lay), !.layLength = Len(lay),
                                       !.globOffset = Len(q.glob), !.globLength = Len(glob),
                                       !.tabOffset = Len(q.tab), !.tabLength = Len(tab)]]]
        /\ UNCHANGED <<execution, system, archive, answer, evicted>>

\* The finish callback: MarkBase(0), then the streams are attached.
Finish(d) ==
    LET q == proc[d]
    IN  /\ q.pc = "replay"
        /\ q.point > LastPoint
        /\ proc' = [proc EXCEPT ![d].pc = "done"]
        /\ archive' = [archive EXCEPT ![d] =
               [attached |-> TRUE, altered |-> FALSE, missing |-> FALSE,
                idx |-> encodeIndex([q.records EXCEPT ![1].base = TRUE], SnapshotFormatVersion),
                pages |-> encodePageStore(q.perTrace, SnapshotFormatVersion),
                lay |-> q.lay, mem |-> q.mem, glob |-> q.glob, tab |-> q.tab]]
        /\ UNCHANGED <<execution, system, answer, evicted>>

\* A process dies while it writes a cache file, which stays short.  Dying anywhere
\* else leaves nothing behind: it is a process that takes no further step.
Crash(d) ==
    /\ proc[d].pc = "write"
    /\ proc' = [proc EXCEPT ![d].pc = "dead"]
    /\ UNCHANGED <<execution, system, archive, answer, evicted>>

\* A file of the system cache that nobody is writing is removed.
Evict(h) ==
    /\ system[h] # NoFile
    /\ \A d \in Procs : proc[d].pc = "write" => HashPage(PageAt(proc[d])) # h
    /\ system' = [system EXCEPT ![h] = NoFile]
    /\ evicted' = TRUE
    /\ UNCHANGED <<execution, proc, archive, answer>>

\* A container is not what was attached: written by a later format version, short
\* of a stream, its layout cut off or a page of its store overwritten.
Alterations == {"index version", "pages version", "no stream", "short layout", "wrong page"}

Altered(c, how) ==
    CASE how = "index version" -> [c EXCEPT !.altered = TRUE, !.idx.version = @ + 1]
      [] how = "pages version" -> [c EXCEPT !.altered = TRUE, !.pages.version = @ + 1]
      [] how = "no stream"     -> [c EXCEPT !.altered = TRUE, !.missing = TRUE]
      [] how = "short layout"  -> [c EXCEPT !.altered = TRUE, !.lay = Front(@)]
      [] how = "wrong page"    ->
            [c EXCEPT !.altered = TRUE,
                      !.pages.payload = [i \in DOMAIN @ |->
                          IF i = Len(@) THEN [@[i] EXCEPT !.page = (@ % Max(Pages)) + 1]
                          ELSE @[i]]]

Alter(d) ==
    /\ archive[d].attached
    /\ \A c \in Procs : archive[c].attached => ~archive[c].altered
    /\ \E how \in Alterations : archive' = [archive EXCEPT ![d] = Altered(@, how)]
    /\ UNCHANGED <<execution, system, proc, answer, evicted>>
-----------------------------------------------------------------------------
(* Seeking *)

\* Load: "ok" with the per-trace tier, "unavailable" for what this build cannot
\* read, "corrupt" for what it should be able to read and cannot.
Load(c) ==
    LET index == decodeIndex(c.idx)
        pages == decodePageStore(c.pages, SnapshotFormatVersion)
    IN  IF c.missing THEN [status |-> "unavailable"]
        ELSE IF index # "ok"
        THEN [status |-> IF index = "version" THEN "unavailable" ELSE "corrupt"]
        ELSE IF pages.status # "ok"
        THEN [status |-> IF pages.status = "version" THEN "unavailable" ELSE "corrupt"]
        ELSE [status |-> "ok", tier |-> pages.tier]

\* Nearest: the last record with a snapshot before the first one past the point.
Nearest(records, point) ==
    LET past == {i \in DOMAIN records : records[i].ordinal > point}
        stop == IF past = {} THEN Len(records) + 1 ELSE Min(past)
    IN  {i \in DOMAIN records :
            /\ i < stop
            /\ records[i].snapshot
            /\ \A j \in DOMAIN records : (j < stop /\ records[j].snapshot) => j <= i}

\* Set.Snapshot: one record's windows, decoded and materialised.
Materialise(c, r, tier) ==
    LET lay  == decodeRegions(Window(c.lay, r.layOffset, r.layLength))
        mem  == MaterialiseMemory(lay.read, c.mem, tier, system, r.memory)
        glob == decodeGlobals(Window(c.glob, r.globOffset, r.globLength))
        tab  == decodeTables(Window(c.tab, r.tabOffset, r.tabLength))
        ok   == /\ Within(c.lay, r.layOffset, r.layLength) /\ lay.ok
                /\ mem.ok
                /\ Within(c.glob, r.globOffset, r.globLength) /\ glob.ok
                /\ Within(c.tab, r.tabOffset, r.tabLength) /\ tab.ok
    IN  [ok |-> ok, memory |-> IF ok THEN mem.memory ELSE << >>,
         globals |-> glob.read, tables |-> tab.read]

\* The seek half of configure, down to Resume: the instance a replay of the range
\* would start from, or a refusal.
SeekResult(c, from) ==
    LET set  == Load(c)
        at   == Nearest(c.idx.records, from)
        r    == c.idx.records[CHOOSE i \in at : TRUE]
        snap == Materialise(c, r, set.tier)
        back == Restore(snap)
    IN  IF set.status # "ok" THEN Refused
        ELSE IF at = {} THEN Refused
        ELSE IF ~snap.ok THEN Refused
        ELSE IF ~back.ok THEN Refused
        ELSE [status |-> "restored", point |-> r.ordinal, state |-> Portable(back)]

Seek(d) ==
    /\ archive[d].attached
    /\ \E from \in 0..LastPoint : answer' = [of |-> d] @@ SeekResult(archive[d], from)
    /\ UNCHANGED <<execution, system, proc, archive, evicted>>

Forget ==
    /\ answer # Nothing
    /\ answer' = Nothing
    /\ UNCHANGED <<execution, system, proc, archive, evicted>>

\* An answer influences nothing, so it is taken note of before anything else
\* happens.
Next ==
    \/ /\ answer = Nothing
       /\ \/ \E d \in Procs :
                \/ Start(d) \/ AtQuiescentPoint(d) \/ EncodePage(d) \/ CreateFile(d)
                \/ WriteFile(d) \/ WriteFails(d) \/ Add(d) \/ Finish(d) \/ Crash(d)
                \/ Alter(d) \/ Seek(d)
          \/ \E h \in Hashes : Evict(h)
    \/ Forget

Spec == Init /\ [][Next]_vars
-----------------------------------------------------------------------------
(* The containers published so far, by the points their derivation selected. *)
published == [d \in Procs |-> IF archive[d].attached
                              THEN {p \in 0..LastPoint : Selected(proc[d].opts, p)} ELSE {}]

Archive == INSTANCE SnapshotArchive WITH Containers <- Procs,
    answer <- CASE answer.status = "none"     -> Nothing
                [] answer.status = "refused"  -> Refused
                [] answer.status = "restored" -> [point |-> answer.point, state |-> answer.state]

\* A seek answers with the state the execution had at the nearest selected point
\* or refuses, whatever dies, fills up or is removed while snapshots are derived:
\* the pipeline Capture, EncodeMemory, Builder, Load, Set.Snapshot, Restore
\* implements the archive.
SeeksAreFaithful == Archive!Spec

\* A container that was not altered answers every seek, if it was derived without
\* the system cache or no cache file was ever removed: a page is recorded as held
\* by the system cache only once it is whole there, and a file left short by a
\* process that died or by a failed write costs nothing.
SeeksSucceed ==
    answer.status = "refused" =>
        \/ archive[answer.of].altered
        \/ evicted /\ proc[answer.of].opts.system

\* Every page of the per-trace tier is found by any namespace reader under its
\* truncated key, behind its full hash, even when keys collide.
PagesReachable ==
    \A d \in Procs : (archive[d].attached /\ ~archive[d].altered) =>
        \A h \in DOMAIN proc[d].perTrace :
            \E desc \in nsLookup(archive[d].pages.image, truncatedKey(h)) :
                \E i \in DOMAIN ChainOf(archive[d].pages, desc) :
                    ChainOf(archive[d].pages, desc)[i] =
                        [fullHash |-> h, page |-> proc[d].perTrace[h]]
=============================================================================
