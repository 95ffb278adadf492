------------------------------ MODULE MCReplay ------------------------------
(***************************************************************************)
(* Recordings of up to two calls of e1, which takes nothing and returns a  *)
(* value, with up to two imports each: iv takes and returns a value, i0    *)
(* takes and returns nothing.                                              *)
(***************************************************************************)
EXTENDS Replay

CONSTANTS e1, e2, i0, iv, v1, v2, m1, g1

MCImportSig ==
  [i \in {i0, iv} |-> IF i = i0 THEN [params |-> 0, results |-> 0]
                      ELSE [params |-> 1, results |-> 1]]
MCExportSig == [e \in {e1} |-> [params |-> 0, results |-> 1]]

\* Crossings without their place in the recording.
Cross(kind, label, depth, args, res, marked) ==
  [depth |-> depth, kind |-> kind, label |-> label, args |-> args,
   results |-> res, hasResults |-> res # <<>>, markerBracketed |-> marked]

Export(res) == Cross("export", e1, 0, <<>>, res, FALSE)
Import(arg, marked) == Cross("import", iv, 1, <<arg>>, <<v1>>, marked)
ValuelessImport == Cross("import", i0, 1, <<>>, <<>>, TRUE)

\* An import that returned nothing it should have, one with values it does not
\* have, a callback, an export the module does not have.
OddCrossings ==
  { Cross("import", iv, 1, <<v1>>, <<>>, TRUE),
    Cross("import", i0, 1, <<>>, <<v1>>, FALSE),
    Cross("export", e1, 1, <<>>, <<v1>>, FALSE) }

ImportCrossings ==
  {ValuelessImport, Import(v1, TRUE), Import(v1, FALSE), Import(v2, TRUE)} \cup OddCrossings

GroupsOf(body) ==
  { <<Export(<<v1>>)>> \o b : b \in body }

Bodies == {<<>>} \cup {<<c>> : c \in ImportCrossings}
            \cup { <<ValuelessImport, Import(v1, TRUE)>>, <<Import(v1, FALSE), Import(v1, FALSE)>> }

LaterBodies == { <<>>, <<ValuelessImport>>, <<Import(v1, FALSE)>> }

OddGroups == { << Export(<<>>) >>, << [Export(<<v1>>) EXCEPT !.label = e2] >> }

\* An import called outside of any export.
Orphan == << [ValuelessImport EXCEPT !.depth = 0] >>

MCGroups == GroupsOf(Bodies) \cup OddGroups

Numbered(cs) ==
  [i \in DOMAIN cs |->
     [seq |-> i - 1, depth |-> cs[i].depth, kind |-> cs[i].kind, label |-> cs[i].label,
      args |-> cs[i].args, results |-> cs[i].results,
      hasResults |-> cs[i].hasResults, markerBracketed |-> cs[i].markerBracketed]]

OfGroups(gs) ==
  LET end[n \in 0..Len(gs)] == IF n = 0 THEN 0 ELSE end[n - 1] + Len(gs[n])
      all[n \in 0..Len(gs)] == IF n = 0 THEN <<>> ELSE all[n - 1] \o gs[n]
  IN  [crossings |-> Numbered(all[Len(gs)]), groupEnds |-> [n \in 1..Len(gs) |-> end[n]]]

GroupSeqs ==
  {<<>>} \cup {<<g>> : g \in MCGroups}
    \cup {<<g, h>> : g \in MCGroups \cup {Orphan}, h \in GroupsOf(LaterBodies) \cup OddGroups}

\* The host state: described before the first call, and a write made while the
\* second crossing of a group was serviced, whose record precedes the end of
\* that group. One of the second group may be read ahead, with the first.
Described == [mems |-> {m1}, globals |-> {g1}, mutable |-> {g1}, decodes |-> TRUE]
Written(seq) == [after |-> seq, writes |-> {m1}, sets |-> {g1}, decodes |-> TRUE]
HostRec(kind, seq) ==
  [t |-> "Event", what |-> "hostState", malformed |-> FALSE, record |-> kind,
   initial |-> Described, mutation |-> Written(seq)]
StreamHost(number, seq) ==
  << [before |-> 1, rec |-> HostRec("initial", 0)],
     [before |-> number, rec |-> HostRec("mutation", seq)] >>
Sidecar ==
  [present |-> TRUE, initialSeen |-> FALSE, initial |-> Described, mutations |-> <<Written(1)>>]

With(cs, host, sidecar) ==
  [crossings |-> cs.crossings, groupEnds |-> cs.groupEnds, host |-> host,
   sidecar |-> sidecar]

Hosts(gs) ==
  { <<StreamHost(1, 1), NilHostState>>, <<StreamHost(1, 1), Sidecar>>, <<<<>>, NilHostState>> }
    \cup (IF Len(gs) < 2 THEN {} ELSE {<<StreamHost(2, Len(gs[1]) + 1), NilHostState>>})

MCRecordings == UNION { {With(OfGroups(gs), h[1], h[2]) : h \in Hosts(gs)} : gs \in GroupSeqs }

MCRanges ==
  { [from |-> 0, to |-> 0, resume |-> FALSE], [from |-> 1, to |-> 0, resume |-> TRUE],
    [from |-> 1, to |-> 0, resume |-> FALSE], [from |-> 0, to |-> 1, resume |-> FALSE],
    [from |-> 1, to |-> 3, resume |-> TRUE] }
=============================================================================
