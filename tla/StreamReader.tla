---------------------------- MODULE StreamReader ----------------------------
(***************************************************************************)
(* internal/boundarylog/stream.go: reading the call groups of a recording  *)
(* that is still being written. A producer appends a JSON array of records *)
(* to a file and may stop at any byte; followReader waits at the end of    *)
(* the file until the done channel is closed; the scanner splits the bytes *)
(* into records; NextGroup hands out call groups as they complete.         *)
(*                                                                         *)
(* Bytes are abstracted to units: the bracket that opens the array, the    *)
(* one that closes it, the two parts of a record (a cut between them       *)
(* leaves a partial record), and bytes the array cannot hold.              *)
(***************************************************************************)
EXTENDS Assembler

CONSTANTS
  Documents,  \* the documents a producer may set out to write
  MaxChunk    \* the most units one read returns

\* A record json.Unmarshal refuses.
Undecodable == [t |-> "undecodable"]

Unit ==
  [u : {"open", "close", "junk"}] \cup [u : {"head"}]
    \cup [u : {"tail"}, rec : Record \cup {Undecodable}]

\* The parts of a record are adjacent, and no record follows the bracket that
\* closes the array.
WellFormed(d) ==
  /\ \A n \in 1..(Len(d) - 1) : d[n].u = "head" => d[n + 1].u = "tail"
  /\ \A m, n \in 1..Len(d) : m < n /\ d[m].u = "close" => d[n].u # "tail"

ASSUME StreamAssumption ==
  /\ Documents \subseteq Seq(Unit)
  /\ \A d \in Documents : WellFormed(d)
  /\ MaxChunk \in Nat \ {0}

NoError == ""

VARIABLES
  doc,      \* the document the producer is writing
  written,  \* how many of its units are in the file
  done,     \* whether the done channel has been closed
  pos,      \* how many units followReader has read
  chunk,    \* what was fed to the scanner and it has not examined yet
  pc,       \* where the reading goroutine is
  scan,     \* the jsonArrayScanner
  asm,      \* StreamReader.asm
  next,     \* StreamReader.next: groups handed out
  eof,      \* StreamReader.eof
  closed,   \* StreamReader.closed
  failed,   \* StreamReader.failed
  got,      \* the groups the caller has been handed
  result    \* what the last NextGroup returned

producerVars == <<doc, written, done>>
streamVars == <<doc, written, done, pos, chunk, pc, scan, asm, next, eof, closed,
                failed, got, result>>

-----------------------------------------------------------------------------
(***************************************************************************)
(* The scanner, and drain.                                                 *)
(***************************************************************************)

newScanner == [started |-> FALSE, done |-> FALSE, inElem |-> FALSE]

\* One unit examined by jsonArrayScanner.next.
ScanFails(s, u) ==
  CASE ~s.started -> u.u # "open"
    [] s.started /\ ~s.inElem -> s.done \/ u.u \notin {"close", "head"}
    [] OTHER -> FALSE

Scanned(s, u) ==
  CASE ~s.started -> [s EXCEPT !.started = TRUE]
    [] s.started /\ ~s.inElem ->
         IF u.u = "close" THEN [s EXCEPT !.done = TRUE] ELSE [s EXCEPT !.inElem = TRUE]
    [] OTHER -> [s EXCEPT !.inElem = (u.u # "tail")]

\* The assembler once a record that has arrived in full is decoded and pushed.
Pushed(a, rec) == IF rec = Undecodable THEN Fail(a) ELSE push(a, rec)

-----------------------------------------------------------------------------
(***************************************************************************)
(* The producer (external): it appends, and may stop at any time. done is  *)
(* closed only once it has stopped.                                        *)
(***************************************************************************)

Write ==
  /\ ~done
  /\ written < Len(doc)
  /\ written' = written + 1
  /\ UNCHANGED <<doc, done, pos, chunk, pc, scan, asm, next, eof, closed, failed, got, result>>

Stop ==
  /\ ~done
  /\ done' = TRUE
  /\ UNCHANGED <<doc, written, pos, chunk, pc, scan, asm, next, eof, closed, failed, got, result>>

-----------------------------------------------------------------------------
(***************************************************************************)
(* NextGroup. pc is "caller" outside of it, "loop" at the head of its      *)
(* loop, and inside followReader.Read "read" before the first read of the  *)
(* file, "select" after it found nothing, "last" once done was seen closed,*)
(* and "drain" while the bytes of a read are examined.                     *)
(***************************************************************************)

Return(r) == pc' = "caller" /\ result' = r

\* fail: the error is kept, so that later calls report the same thing.
FailWith(err) == failed' = err /\ Return(err)

CallNextGroup ==
  /\ pc = "caller"
  /\ IF failed # NoError THEN Return(failed) ELSE pc' = "loop" /\ UNCHANGED result
  /\ UNCHANGED <<producerVars, pos, chunk, scan, asm, next, eof, closed, failed, got>>

\* Mutant of HandOut: the newest group is handed out in place of the next one.
HandOutNewest ==
  /\ pc = "loop"
  /\ Len(asm.groupEnds) > next
  /\ got' = Append(got, group(asm, Len(asm.groupEnds)))
  /\ next' = next + 1
  /\ Return("group")
  /\ UNCHANGED <<producerVars, pos, chunk, scan, asm, eof, closed, failed>>

HandOut ==
  /\ pc = "loop"
  /\ Len(asm.groupEnds) > next
  /\ got' = Append(got, group(asm, next + 1))
  /\ next' = next + 1
  /\ Return("group")
  /\ UNCHANGED <<producerVars, pos, chunk, scan, asm, eof, closed, failed>>

\* Mutant of finishStream: the missing bracket is reported before anything else.
finishStreamBracketFirst(s, a) ==
  LET fin == finish(a)
  IN  CASE ~s.done -> "unterminated"
        [] s.done /\ fin.failed ->
             IF openCrossings(a) > 0 THEN "midCrossing" ELSE "finish"
        [] OTHER -> NoError

\* finishStream: what the end of the input means, in order of severity.
finishStream(s, a) ==
  LET fin == finish(a)
  IN  CASE s.inElem -> "midRecord"
        [] ~s.inElem /\ fin.failed ->
             IF openCrossings(a) > 0 THEN "midCrossing" ELSE "finish"
        [] ~s.inElem /\ ~fin.failed /\ ~s.done -> "unterminated"
        [] OTHER -> NoError

FinishStream ==
  /\ pc = "loop"
  /\ Len(asm.groupEnds) = next
  /\ eof /\ ~closed
  /\ closed' = TRUE
  /\ asm' = IF scan.inElem THEN asm ELSE finish(asm)
  /\ LET err == finishStream(scan, asm)
     IN  IF err # NoError THEN FailWith(err) ELSE UNCHANGED <<pc, failed, result>>
  /\ UNCHANGED <<producerVars, pos, chunk, scan, next, eof, got>>

ReturnEOF ==
  /\ pc = "loop"
  /\ Len(asm.groupEnds) = next
  /\ eof /\ closed
  /\ Return("EOF")
  /\ UNCHANGED <<producerVars, pos, chunk, scan, asm, next, eof, closed, failed, got>>

StartRead ==
  /\ pc = "loop"
  /\ Len(asm.groupEnds) = next
  /\ ~eof
  /\ pc' = "read"
  /\ UNCHANGED <<producerVars, pos, chunk, scan, asm, next, eof, closed, failed, got, result>>

\* Either read of the file returns bytes, which pump feeds to the scanner.
ReadSome ==
  /\ pc \in {"read", "last"}
  /\ \E n \in 1..MaxChunk :
       /\ pos + n <= written
       /\ pos' = pos + n
       /\ chunk' = chunk \o SubSeq(doc, pos + 1, pos + n)
  /\ pc' = "drain"
  /\ UNCHANGED <<producerVars, scan, asm, next, eof, closed, failed, got, result>>

\* drain on one unit: the scanner takes it, and a record it completes is
\* pushed. At the bracket that closes the array next has no element to return
\* and drain is over: what the read brought in behind the bracket stays in the
\* buffer, to be examined with the bytes of a later read if there is one.
\* Otherwise the groups are looked at again when the buffer is used up.
Drain ==
  /\ pc = "drain"
  /\ chunk # <<>>
  /\ chunk' = Tail(chunk)
  /\ IF ScanFails(scan, Head(chunk)) THEN FailWith("scan") /\ UNCHANGED <<scan, asm>>
     ELSE /\ scan' = Scanned(scan, Head(chunk))
          /\ CASE Head(chunk).u = "tail" ->
                    \E a \in {Pushed(asm, Head(chunk).rec)} :
                      /\ asm' = a
                      /\ IF a.failed THEN FailWith("record")
                         ELSE UNCHANGED <<pc, failed, result>>
               [] Head(chunk).u = "close" -> pc' = "loop" /\ UNCHANGED <<asm, failed, result>>
               [] OTHER -> UNCHANGED <<asm, pc, failed, result>>
  /\ UNCHANGED <<producerVars, pos, next, eof, closed, got>>

Drained ==
  /\ pc = "drain"
  /\ chunk = <<>>
  /\ pc' = "loop"
  /\ UNCHANGED <<producerVars, pos, chunk, scan, asm, next, eof, closed, failed, got, result>>

ReadNothing ==
  /\ pc = "read"
  /\ pos = written
  /\ pc' = "select"
  /\ UNCHANGED <<producerVars, pos, chunk, scan, asm, next, eof, closed, failed, got, result>>

\* Mutant of Poll: the reader sleeps until done is closed.
PollAsleep ==
  /\ pc = "select"
  /\ ~done
  /\ UNCHANGED streamVars

\* done is open: sleep and read again.
Poll ==
  /\ pc = "select"
  /\ ~done
  /\ pc' = "read"
  /\ UNCHANGED <<producerVars, pos, chunk, scan, asm, next, eof, closed, failed, got, result>>

\* Mutant of SeeDone: the reader goes back to polling.
SeeDonePolls ==
  /\ pc = "select"
  /\ done
  /\ pc' = "read"
  /\ UNCHANGED <<producerVars, pos, chunk, scan, asm, next, eof, closed, failed, got, result>>

\* done is closed: what was written since the first read is still to come.
SeeDone ==
  /\ pc = "select"
  /\ done
  /\ pc' = "last"
  /\ UNCHANGED <<producerVars, pos, chunk, scan, asm, next, eof, closed, failed, got, result>>

ReadEOF ==
  /\ pc = "last"
  /\ pos = written
  /\ eof' = TRUE
  /\ pc' = "loop"
  /\ UNCHANGED <<producerVars, pos, chunk, scan, asm, next, closed, failed, got, result>>

\* A read fails otherwise than at the end of the file.
ReadFails ==
  /\ pc \in {"read", "last"}
  /\ FailWith("io")
  /\ UNCHANGED <<producerVars, pos, chunk, scan, asm, next, eof, closed, got>>

-----------------------------------------------------------------------------
Init ==
  /\ doc \in Documents
  /\ written = 0
  /\ done = FALSE
  /\ pos = 0
  /\ chunk = <<>>
  /\ pc = "caller"
  /\ scan = newScanner
  /\ asm = newAssembler
  /\ next = 0
  /\ eof = FALSE
  /\ closed = FALSE
  /\ failed = NoError
  /\ got = <<>>
  /\ result = NoError

Reader ==
  \/ CallNextGroup \/ HandOut \/ FinishStream \/ ReturnEOF \/ StartRead
  \/ ReadSome \/ Drain \/ Drained \/ ReadNothing \/ Poll \/ SeeDone \/ ReadEOF

Next == Write \/ Stop \/ Reader \/ ReadFails

\* The reading goroutine runs; nothing is assumed of the producer.
Spec == Init /\ [][Next]_streamVars /\ WF_streamVars(Reader)

-----------------------------------------------------------------------------
(***************************************************************************)
(* Properties.                                                             *)
(***************************************************************************)

\* What LoadRecording makes of one unit: a record that is complete is decoded
\* and pushed, until one fails.
Loaded(a, u) ==
  CASE a.failed \/ u.u # "tail" -> a
    [] ~a.failed /\ u.u = "tail" /\ u.rec = Undecodable -> Fail(a)
    [] OTHER -> push(a, u.rec)

\* The assembler it would hold, before finish, after the first n units of
\* document d.
BatchOf(d) ==
  LET after[n \in 0..Len(d)] ==
        IF n = 0 THEN newAssembler ELSE Loaded(after[n - 1], d[n])
  IN  after

Batches == [d \in Documents |-> [n \in 0..Len(d) |-> BatchOf(d)[n]]]

\* The properties bind it with \E, so that TLC computes it once per state.
BatchAfter(n) == Batches[doc][n]

\* Whatever the timing of the producer and the size of the reads, the groups
\* handed out are the first groups LoadRecording would find in the finished
\* document: a group is never handed out short, late records never change it,
\* and none is skipped or repeated.
StreamedIsPrefixOfBatch ==
  \E whole \in {BatchAfter(Len(doc))} :
    \E fin \in {IF whole.failed THEN whole ELSE finish(whole)} :
      /\ Len(fin.groupEnds) >= Len(got)
      /\ \A k \in 1..Len(got) : got[k] = group(fin, k)

\* What NextGroup reports at the end is what the file holds. io.EOF: the array
\* up to its closing bracket, with every group of it handed out; what the file
\* holds behind the bracket, if anything, came with the read that brought the
\* bracket and was not looked at. A refusal by the scanner: what was read is
\* not one array of objects. mid-record: the file ends inside a record.
\* mid-crossing: every record is whole and an exported call has not returned,
\* or a crossing is open and the last values belong to none. unterminated:
\* every record is whole, no export is open, and only the closing bracket is
\* missing. followReader ends the stream only after the producer has stopped
\* and all it wrote has been read: a recording in progress is never mistaken
\* for a truncated one.
EndClassified ==
  \E batch \in {BatchAfter(written)} :
    LET strayRun == batch.stack # <<>> /\ closeRun(batch).failed
        terminated == \E n \in 1..written : doc[n].u = "close"
        cutInRecord == written > 0 /\ doc[written].u = "head" /\ ~terminated
        misplaced(n) == IF n = 1 THEN doc[n].u # "open"
                        ELSE \/ doc[n - 1].u = "close"
                             \/ doc[n - 1].u # "head" /\ doc[n].u \notin {"head", "close"}
    IN  /\ eof => done /\ pos = written
        /\ result = "EOF" =>
             /\ Len(chunk) < written /\ doc[written - Len(chunk)].u = "close"
             /\ ~ExportOpen(batch)
             /\ Len(got) = Len(finish(batch).groupEnds)
        /\ result = "scan" => \E n \in 1..pos : misplaced(n)
        /\ result = "midRecord" => cutInRecord
        /\ result = "midCrossing" => ~cutInRecord /\ (ExportOpen(batch) \/ strayRun)
        /\ result = "unterminated" => ~cutInRecord /\ ~ExportOpen(batch) /\ ~terminated

\* The reader keeps catching up with the file, whether or not the producer is
\* still running, unless reading fails: what is in it is read, and every call
\* group whose records are in it is handed out.
GroupsDelivered ==
  []<>(failed # NoError \/ (pos = written /\ next = Len(asm.groupEnds)))

\* Once the producer has stopped, the caller learns how the stream ended.
EndReported == done ~> (result = "EOF" \/ failed # NoError)
=============================================================================
