--------------------------- MODULE MCStreamReader ---------------------------
(***************************************************************************)
(* Documents of the shapes the browser writes: an exported call is Call,   *)
(* argument run, marker, body, result run, Return, marker; an imported one *)
(* is argument run, marker, result run, marker. Names are declared before  *)
(* their first use.                                                        *)
(***************************************************************************)
EXTENDS StreamReader, SequencesExt

CONSTANTS e1, i1, v1

Name(label, role) ==
  [t |-> "VariableName", binding |-> [label |-> label, role |-> role, slot |-> 0]]
Value(id) == [t |-> "Value", id |-> id, value |-> v1]
Marker == [t |-> "Event", what |-> "other"]
Enter == [t |-> "Event", what |-> "enterImport", index |-> i1]
Leave == [t |-> "Event", what |-> "leaveImport", index |-> i1]
Call == [t |-> "Call", id |-> 1]
ReturnRec == [t |-> "Return"]

\* The declarations: value 1 is an argument of e1, 2 of i1, 3 a result of i1.
Names == << [t |-> "Function", name |-> e1], Name(e1, "arg"), Name(i1, "arg"),
            Name(i1, "ret") >>

\* A call whose body is the given records.
CallOf(body) == <<Call, Value(1), Marker>> \o body \o <<ReturnRec, Marker>>

\* An import call with markers, and one from before the import markers.
MarkedImport(body) == <<Value(2), Enter>> \o body \o <<Value(3), Leave>>
PlainImport == <<Value(2), Marker, Marker>>

Units(rec) == << [u |-> "head"], [u |-> "tail", rec |-> rec] >>
Body(recs) == FlattenSeq([i \in DOMAIN recs |-> Units(recs[i])])
Array(recs) == << [u |-> "open"] >> \o Body(recs) \o << [u |-> "close"] >>

\* A function with no arguments, called once.
Fn == [t |-> "Function", name |-> e1]
ShortCall == <<Fn, Call, ReturnRec>>

MCDocuments ==
  { \* two calls, the first with an import; one with a callback
    Array(Names \o CallOf(MarkedImport(<<>>)) \o <<Call, ReturnRec>>),
    Array(Names \o <<Call>> \o MarkedImport(<<Call, ReturnRec>>) \o <<ReturnRec>>),
    \* two calls of an older recording, the import with no result
    Array(Names \o <<Call>> \o PlainImport \o <<ReturnRec, Call, ReturnRec>>),
    \* an import called outside of any export, left open at the end
    Array(Tail(Names) \o PlainImport),
    \* a record that does not decode, and one the assembler refuses
    Array(ShortCall \o <<Undecodable>>),
    Array(ShortCall \o <<ReturnRec>>),
    \* an argument run of an export that is not being called, at the end
    Array(ShortCall \o <<Name(e1, "arg"), Value(1)>>),
    \* the same while an import called outside of any export is open
    Array(<<Name(e1, "arg"), Enter, Value(1)>>),
    \* bytes after the array, an element that is not an object, no array
    Array(ShortCall) \o << [u |-> "junk"], [u |-> "junk"] >>,
    << [u |-> "open"] >> \o Body(ShortCall) \o << [u |-> "junk"] >>,
    << [u |-> "junk"] >> }
=============================================================================
