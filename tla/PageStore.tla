------------------------------ MODULE PageStore ------------------------------
(***************************************************************************)
(* Content-addressed memory pages, internal/wasmsnapshot/pagecas.go: the   *)
(* cache tiers and their lookup, the regions that describe a memory image, *)
(* and the snappages.ns stream that carries the per-trace tier.            *)
(*                                                                         *)
(* Bytes are abstracted to whole pages: a page's content is a number, an   *)
(* address is a page number, and a file cut short has the content Short,   *)
(* which is no page.  HashPage is injective (collisions of xxh3-128 are    *)
(* not modelled), but the namespace key truncates it, and two pages whose  *)
(* numbers agree modulo Keys collide on it.                                *)
(***************************************************************************)
EXTENDS Namespace

CONSTANTS Pages,    \* the contents a memory page can have, positive numbers
          Keys      \* how many values a truncated hash has

ASSUME PagesAssumption == Pages \subseteq Nat \ {0} /\ Keys \in Nat \ {0}

NoFile == -1
Short == 0

HashPage(content) == [hi |-> content \div Keys, lo |-> content % Keys]
truncatedKey(h) == h.lo
Hashes == {HashPage(p) : p \in Pages}

CacheIDPerTrace == 0
CacheIDSystem == 1

KindFull == 0
KindHashRef == 1
KindRunHashRef == 2
-----------------------------------------------------------------------------
(* Tiers.  A per-trace tier maps the hashes it holds to contents, the      *)
(* system tier maps every hash to the content of its file or to NoFile, a  *)
(* pair of both is what a lookup walks; without a system tier the second   *)
(* component is NoSystem.                                                  *)

NoSystem == [h \in Hashes |-> NoFile]

\* Mutant of SystemHolds: the content is not verified.
SystemHoldsAnything(system, h) == system[h] # NoFile

\* SystemCache.Lookup: a file whose content does not hash to its name is a miss.
SystemHolds(system, h) == system[h] # NoFile /\ HashPage(system[h]) = h

\* Tiers.Lookup: per-trace, then system; the set is empty on a miss.  No remote
\* tier exists.
Lookup(perTrace, system, h) ==
    IF h \in DOMAIN perTrace THEN {[page |-> perTrace[h], tier |-> CacheIDPerTrace]}
    ELSE IF SystemHolds(system, h) THEN {[page |-> system[h], tier |-> CacheIDSystem]}
    ELSE {}

\* PerTraceCache.Insert: a hash already there keeps its page.
PerTraceInsert(perTrace, h, page) ==
    IF h \in DOMAIN perTrace THEN perTrace
    ELSE [g \in DOMAIN perTrace \cup {h} |-> IF g = h THEN page ELSE perTrace[g]]
-----------------------------------------------------------------------------
(* Regions.  An encoder is the state of EncodeMemory's loop: the regions   *)
(* closed so far, the open hash-run region (an empty sequence or one       *)
(* element), and the contents to go inline.                                *)

NewEncoder == [regions |-> << >>, cur |-> << >>, inline |-> << >>]

flushRegion(e) == [e EXCEPT !.regions = @ \o e.cur, !.cur = << >>]

\* A page no tier knows, stored inline: it closes the open region.
EncodeInline(e, off, page) ==
    LET f == flushRegion(e)
    IN  [f EXCEPT !.regions = Append(@, [base |-> off, size |-> 1, kind |-> KindFull,
                                         fileOffset |-> Len(e.inline)]),
                  !.inline = Append(@, page)]

\* A page named by its hash: it extends the last run of the open region while
\* the tier is unchanged, and opens a run or a region otherwise.
EncodeHash(e, off, tier, h) ==
    LET r    == IF e.cur # << >> THEN e.cur[1]
                ELSE [base |-> off, size |-> 0, kind |-> KindRunHashRef, runs |-> << >>]
        open == r.runs # << >> /\ Last(r.runs).cache = tier
        runs == IF open
                THEN [r.runs EXCEPT ![Len(r.runs)].hashes = Append(@, h)]
                ELSE Append(r.runs, [cache |-> tier, hashes |-> <<h>>])
    IN  [e EXCEPT !.cur = <<[r EXCEPT !.size = @ + 1, !.runs = runs]>>]

\* The (address, hash) pairs a region names, and the addresses it copies inline.
Named(r) ==
    LET hashes == IF r.kind = KindHashRef THEN r.hashes
                  ELSE IF r.kind = KindRunHashRef
                  THEN FlattenSeq([i \in DOMAIN r.runs |-> r.runs[i].hashes])
                  ELSE << >>
    IN  [i \in DOMAIN hashes |-> [at |-> r.base + i - 1, hash |-> hashes[i]]]

\* MaterialiseMemory over the tiers: ok is FALSE where the code returns an error.
\* A page is written only if it resolves to a whole page inside the image, and
\* the regions must cover as many pages as the image has.
MaterialiseMemory(regions, inline, perTrace, system, size) ==
    LET named    == FlattenSeq([i \in DOMAIN regions |-> Named(regions[i])])
        full     == SelectSeq(regions, LAMBDA r : r.kind = KindFull)
        found(n) == Lookup(perTrace, system, n.hash)
        page(n)  == (CHOOSE f \in found(n) : TRUE).page
        ok       == /\ \A i \in DOMAIN regions : regions[i].base + regions[i].size <= size
                    /\ \A i \in DOMAIN full : full[i].fileOffset + full[i].size <= Len(inline)
                    /\ \A i \in DOMAIN named : /\ found(named[i]) # {}
                                               /\ page(named[i]) # Short
                                               /\ named[i].at < size
                    /\ Len(named) + Len(full) = size
        at(a)    == {page(named[i]) : i \in {j \in DOMAIN named : named[j].at = a}}
                        \cup {inline[full[i].fileOffset + 1] :
                                 i \in {j \in DOMAIN full : full[j].base = a}}
    IN  [ok |-> ok,
         memory |-> IF ok THEN [a \in 1..size |-> CHOOSE c \in at(a - 1) : TRUE] ELSE << >>]
-----------------------------------------------------------------------------
(* snappages.ns: the per-trace tier as a namespace, with a version record  *)
(* in the header page and one chain of records per truncated key.          *)

HashBefore(g, h) == g.hi < h.hi \/ (g.hi = h.hi /\ g.lo < h.lo)

encodePageStore(perTrace, version) ==
    LET keys    == SetToSortSeq({truncatedKey(h) : h \in DOMAIN perTrace}, <)
        chains  == [i \in DOMAIN keys |->
                       SetToSortSeq({h \in DOMAIN perTrace : truncatedKey(h) = keys[i]},
                                    HashBefore)]
        before(i) == Len(FlattenSeq(SubSeq(chains, 1, i - 1)))
        order   == FlattenSeq(chains)
    IN  [image    |-> nsBulkLoad([i \in DOMAIN keys |->
                          [key |-> keys[i],
                           desc |-> [start |-> before(i), length |-> Len(chains[i])]]]),
         version  |-> version,
         keyCount |-> Len(keys),
         payload  |-> [i \in DOMAIN order |-> [fullHash |-> order[i],
                                               page |-> perTrace[order[i]]]]]

ChainOf(raw, desc) == SubSeq(raw.payload, desc.start + 1, desc.start + desc.length)

\* Every record of a chain must be a whole page that hashes to its name, filed
\* under its own key, and a chain has at least one.
ChainSound(raw, entry) ==
    /\ entry.desc.start + entry.desc.length <= Len(raw.payload)
    /\ entry.desc.length > 0
    /\ \A i \in DOMAIN ChainOf(raw, entry.desc) :
          LET r == ChainOf(raw, entry.desc)[i]
          IN  /\ r.page # Short
              /\ HashPage(r.page) = r.fullHash
              /\ truncatedKey(r.fullHash) = entry.key

\* The outcome is "ok" with the tier, "version" or "corrupt".
decodePageStore(raw, supported) ==
    LET walk    == nsCollect(raw.image)
        records == FlattenSeq([i \in DOMAIN walk.out |-> ChainOf(raw, walk.out[i].desc)])
        sound   == /\ walk.ok
                   /\ Len(walk.out) = raw.keyCount
                   /\ \A i \in DOMAIN walk.out : ChainSound(raw, walk.out[i])
        pageOf(h) == (CHOOSE i \in DOMAIN records : records[i].fullHash = h)
    IN  IF raw.version # supported THEN [status |-> "version", tier |-> << >>]
        ELSE IF ~sound THEN [status |-> "corrupt", tier |-> << >>]
        ELSE [status |-> "ok",
              tier |-> [h \in {records[i].fullHash : i \in DOMAIN records} |->
                           records[pageOf(h)].page]]
=============================================================================
