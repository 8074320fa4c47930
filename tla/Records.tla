------------------------------ MODULE Records ------------------------------
(***************************************************************************)
(* Reading the records of an open stream: the providers' SSE relay ("sse"),*)
(* Anthropic's ("anthropic"), Ollama's NDJSON ("ollama") and the extension *)
(* client's ("extension").  Lines are read through a buffer that returns   *)
(* at most Buffer bytes of one at a time, and a record over MaxRecord      *)
(* bytes is refused.                                                       *)
(*                                                                         *)
(* A line has a length, its newline included, and a kind: what its content *)
(* is.  In an SSE stream a blank line ends a record, "data" and "empty"    *)
(* are data fields with and without a value, "stop" the data of a          *)
(* message_stop, "comment" anything that is not data.  In NDJSON a line is *)
(* a record: "data" has content, "stop" says done without, "last" says     *)
(* done with content, and any other has nothing to relay.                  *)
(***************************************************************************)
EXTENDS Integers, Subsequences, SequencesExt, FiniteSets, FiniteSetsExt

CONSTANTS
    MaxRecord,      \* maxStreamRecordWireSize and maxStreamRecord
    Buffer,         \* the size of the bufio.Reader's buffer
    Scripts         \* what an upstream may send

LineKinds == {"blank", "data", "empty", "stop", "comment", "last"}
Line == [kind : LineKinds, len : 1..(MaxRecord + 2)]

ASSUME RecordsConstants ==
    /\ {MaxRecord, Buffer} \subseteq Nat \ {0}
    /\ Scripts \subseteq Seq(Line)

VARIABLES
    script,     \* what the upstream sends: the lines, and whether the last is unended
    at,         \* the line being read, and how much of it has been
    frame,      \* the lines of the record being read, and how many bytes it holds
    stream,     \* the reader: its kind, its flags and how it ended
    relayed     \* the frames Next has returned, each the lines it holds

recordVars == <<script, at, frame, stream, relayed>>

NoFrame == [lines |-> <<>>, held |-> 0]

RecordsInit ==
    /\ script \in [lines : Scripts, ended : BOOLEAN]
    /\ ~script.ended => script.lines # <<>> /\ Last(script.lines).kind # "blank"
    /\ at = [line |-> 1, read |-> 0]
    /\ frame = NoFrame
    /\ stream \in [kind : {"sse", "anthropic", "ollama", "extension"}, gone : {FALSE},
                   stopped : {FALSE}, emitted : {FALSE}, end : {""}, permits : {"none"}]
    /\ relayed = <<>>

Ndjson == stream.kind = "ollama"
Closed == stream.end # ""
AtEnd == at.line > Len(script.lines)
ThisLine == script.lines[at.line]
\* An unended last line has no newline: it is a byte shorter.
LengthOf(l) == script.lines[l].len - IF l = Len(script.lines) /\ ~script.ended THEN 1 ELSE 0
LineLength == LengthOf(at.line)
Rest == LineLength - at.read

\* The data lines of a record, joined: two empty ones join to a newline.
Payload(lines) ==
    LET data == {i \in DOMAIN lines : script.lines[lines[i]].kind \in {"data", "empty", "stop"}}
    IN \/ \E i \in data : script.lines[lines[i]].kind # "empty"
       \/ \E i, k \in data : i # k

End(how, permits) ==
    /\ stream' = [stream EXCEPT !.end = how, !.permits = permits]
    /\ frame' = NoFrame
    /\ UNCHANGED <<script, at, relayed>>

----------------------------------------------------------------------------
(* Failures.                                                               *)

\* The caller's context ends.
HangUp ==
    /\ ~Closed /\ ~stream.gone
    /\ stream' = [stream EXCEPT !.gone = TRUE]
    /\ UNCHANGED <<script, at, frame, relayed>>

\* streamFailure and the extension's failure: an oversized record ends the request,
\* a broken stream permits failover.  Ollama's also counts and repeats.
StreamFailure(how) ==
    End(how, CASE how = "large" \/ stream.gone -> "none"
               [] Ndjson -> "transient"
               [] OTHER -> "failover")

----------------------------------------------------------------------------
(* Lines.                                                                  *)

\* Mutant: the bound is on a line, not on the record it is of.
RoomOfLine == MaxRecord - at.read

\* readBoundedLine's limit less the line so far: a record's bound is on all of it.
Room == MaxRecord - frame.held - at.read

\* The content of an NDJSON line is complete without its newline.
Content == LineLength - IF Ndjson /\ (at.line < Len(script.lines) \/ script.ended) THEN 1 ELSE 0

\* The stream breaks off: in a line, of which at most a buffer is read with the
\* error, or where its end should be.  What was read of a record is lost.
BreakOff ==
    /\ ~Closed
    /\ \/ AtEnd /\ StreamFailure("broken")
       \/ /\ ~AtEnd
          /\ \E part \in 0..Min({Content - at.read - 1, Buffer}) :
                StreamFailure(IF part > Room THEN "large" ELSE "broken")

\* One ReadSlice: the rest of the line, or as much of it as the buffer holds.
ReadSlice ==
    LET part == Min({Rest, Buffer})
    IN /\ ~Closed /\ ~AtEnd /\ Rest > 0
       /\ IF part > Room THEN StreamFailure("large")
          ELSE /\ at' = [at EXCEPT !.read = @ + part]
               /\ UNCHANGED <<script, frame, stream, relayed>>

LineRead == ~Closed /\ ~AtEnd /\ Rest = 0

NextLine == at' = [line |-> at.line + 1, read |-> 0]

\* Next returns a frame; anthropicStream notes its message_stop.
ReturnFrame(lines) ==
    /\ relayed' = Append(relayed, lines)
    /\ frame' = NoFrame
    /\ stream' = [stream EXCEPT !.stopped = @ \/ \E l \in ToSet(lines) : script.lines[l].kind = "stop"]
    /\ UNCHANGED script

\* Mutant: a record is returned without the fields that are not data.
WholeRecordData(lines) == SelectSeq(lines, LAMBDA l : script.lines[l].kind # "comment")

\* A frame holds every line of its record, byte for byte.
WholeRecord(lines) == lines

\* A line of SSE joins its record, which a blank line ends.
ReadLine ==
    LET lines == Append(frame.lines, at.line)
    IN /\ LineRead /\ ~Ndjson
       /\ NextLine
       /\ IF ThisLine.kind # "blank"
          THEN /\ frame' = [lines |-> lines, held |-> frame.held + at.read]
               /\ UNCHANGED <<script, stream, relayed>>
          ELSE IF Payload(frame.lines)
          THEN ReturnFrame(WholeRecord(lines))
          ELSE frame' = NoFrame /\ UNCHANGED <<script, stream, relayed>>

\* A line of NDJSON is relayed when it has content, or says done without; done
\* ends the stream, but for its [DONE].
ReadEvent ==
    LET kind == ThisLine.kind
    IN /\ LineRead /\ Ndjson
       /\ NextLine
       /\ IF kind \in {"data", "last", "stop"} THEN relayed' = Append(relayed, <<at.line>>)
          ELSE UNCHANGED relayed
       /\ stream' = [stream EXCEPT !.emitted = @ \/ kind \in {"data", "last"},
                                   !.end = IF kind \in {"last", "stop"} THEN "done" ELSE ""]
       /\ UNCHANGED <<script, frame>>

\* Mutant: the end of the body is the end of the message.
StreamEndsAnyway == End("eof", "none")

\* The reader's io.EOF, as each stream takes it: Anthropic's must have stopped, and
\* Ollama's must have said something.
StreamEnds ==
    CASE stream.kind = "anthropic" /\ ~stream.stopped -> End("cut", "unusable")
      [] Ndjson /\ ~stream.emitted                    -> End("nothing", "failover")
      [] Ndjson /\ stream.emitted                     -> End("done", "none")
      [] OTHER                                        -> End("eof", "none")

\* The body ends: a last record without its blank line still counts.
ReadEnd ==
    /\ ~Closed /\ AtEnd
    /\ IF ~Ndjson /\ Payload(frame.lines)
       THEN ReturnFrame(WholeRecord(frame.lines)) /\ UNCHANGED at
       ELSE StreamEnds

RecordsNext == HangUp \/ BreakOff \/ ReadSlice \/ ReadLine \/ ReadEvent \/ ReadEnd

RecordsSpec == RecordsInit /\ [][RecordsNext]_recordVars

----------------------------------------------------------------------------
(* Properties.                                                             *)

Lines == 1..Len(script.lines)
Blank(l) == script.lines[l].kind = "blank"

\* The records of a stream by their definition: the lines from one blank line to
\* the next, or to the end, that carry data.  NDJSON has a record a line.
Starts(l) == IF Ndjson THEN TRUE ELSE l = 1 \/ Blank(l - 1)
RecordFrom(l) ==
    LET last == IF Ndjson THEN l ELSE Min({k \in l..Len(script.lines) : Blank(k)} \cup {Len(script.lines)})
    IN [i \in 1..(last - l + 1) |-> l + i - 1]
Carries(record) ==
    IF Ndjson THEN script.lines[record[1]].kind \in {"data", "last", "stop"}
    ELSE Payload(record)
Done(l) == Ndjson /\ \E k \in 1..(l - 1) : script.lines[k].kind \in {"last", "stop"}
Expected ==
    Only([l \in Lines |-> RecordFrom(l)],
         {l \in Lines : Starts(l) /\ Carries(RecordFrom(l)) /\ ~Done(l)})

Bytes(record) ==
    LET sum[i \in 0..Len(record)] == IF i = 0 THEN 0 ELSE sum[i - 1] + LengthOf(record[i])
    IN  sum[Len(record)]

\* However its bytes are split over reads, a stream's frames are its records that
\* carry data, whole and in order, and a stream that ends has relayed them all
\* (sseRecordReader.Next, extension stream.Next, ollamaStream.Next).
RecordsExact ==
    /\ IsPrefix(relayed, Expected)
    /\ stream.end \in {"eof", "cut", "done", "nothing"} => relayed = Expected

\* A record is refused as too large exactly when it is: never one that fits to the
\* byte, and none that does not is relayed (readBoundedLine at both of its callers).
BoundExact ==
    /\ \A i \in DOMAIN relayed : Bytes(relayed[i]) <= MaxRecord
    /\ stream.end = "large" => \E l \in Lines : Starts(l) /\ Bytes(RecordFrom(l)) > MaxRecord
    /\ frame.held + at.read <= MaxRecord

\* A Messages stream that ends without an error has relayed its message_stop, so
\* one cut short is never taken for a complete answer (anthropicStream.Next).
CutIsNotComplete ==
    stream.kind = "anthropic" /\ stream.end = "eof" =>
        \E i \in DOMAIN relayed : \E l \in ToSet(relayed[i]) : script.lines[l].kind = "stop"

\* A reader relays the records of its stream, all of them within the bound and no cut
\* one as complete, however their bytes arrive (the four readers).
RecordsRelayed == RecordsExact /\ BoundExact /\ CutIsNotComplete
=============================================================================
