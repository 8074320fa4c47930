---------------------------- MODULE StreamBridge ----------------------------
(***************************************************************************)
(* translation.chatStream and translation.messagesStream: streams that     *)
(* render one surface as another.  A converter goroutine pulls records     *)
(* from the upstream stream and pushes frames into an unbuffered channel,  *)
(* from which Next takes them; Close stops the converter and waits for it. *)
(*                                                                         *)
(* chatStream reads Messages events, tells a stream cut short from a whole *)
(* one, and ends with usage, when asked, and [DONE].  messagesStream reads *)
(* Chat chunks up to [DONE].  The goroutines of a consumer (Thread) may    *)
(* call Next and Close together.  One step is one operation on a channel,  *)
(* one call of the upstream, or one critical section.                      *)
(***************************************************************************)
EXTENDS Naturals, Sequences

CONSTANTS
    Thread,     \* goroutines of the consumer
    MaxItems,   \* bound on the records the upstream sends
    MaxCalls    \* bound on the calls of Next and Close

ASSUME BridgeConstants == MaxItems \in Nat /\ MaxCalls \in Nat

VARIABLES
    bridge,     \* which stream this is, and whether usage was asked for
    conv,       \* where the converter is
    outbox,     \* the frames the converter is about to send
    ending,     \* the converter has seen the end of its input
    stop,       \* the channel stop is closed
    shut,       \* the upstream is closed
    err,        \* the stream's failure
    complete,   \* chatStream.complete
    usage,      \* chatStream.usageSeen
    reported,   \* the converter's losses are in the stream's
    pc,         \* where each goroutine of the consumer is
    result,     \* what its last call returned
    calls,      \* calls made
    received,   \* history: the records read, in order
    delivered   \* history: the frames Next returned, in order

converter == <<conv, outbox, ending, err, complete, usage, reported, received>>
consumer == <<pc, result, calls>>
vars == <<bridge, converter, stop, shut, consumer, delivered>>

----------------------------------------------------------------------------
Kinds == {"chat", "messages"}

\* What an upstream record may be: one that converts to a frame, one that
\* reports usage, a comment or keepalive, the end of the message (message_stop
\* or [DONE]), and a Messages error event.
Items == {"text", "usage", "noise", "end", "error"}

\* "upstream": its error or a Messages error event; "short": cutShort.
Failures == {"none", "upstream", "short"}

\* The converter: at the head of nextLine or nextChunk, in upstream.Next, at
\* the reading of the error Next returned, at a send, at the report of its
\* losses, with the frames closed, and finished.
ConvLabels == {"pull", "read", "eof", "fault", "send", "report", "closed", "finished"}

Labels == {"idle", "next", "stop", "shut", "drain", "await"}

Results == {"none", "frame", "eof", "error", "closed"}

Frames == {"text", "finish", "usage", "done"} \X Nat

Init ==
    /\ bridge \in [kind : Kinds, usage : BOOLEAN]
    /\ bridge.kind = "messages" => ~bridge.usage
    /\ conv = "pull"
    /\ outbox = <<>>
    /\ ending = FALSE
    /\ stop = FALSE
    /\ shut = FALSE
    /\ err = "none"
    /\ complete = FALSE
    /\ usage = FALSE
    /\ reported = FALSE
    /\ pc = [t \in Thread |-> "idle"]
    /\ result = [t \in Thread |-> "none"]
    /\ calls = 0
    /\ received = <<>>
    /\ delivered = <<>>

Chat == bridge.kind = "chat"

----------------------------------------------------------------------------
(* The converter.                                                          *)

\* Mutant: what the converter emits after a failure is sent.
ClosingRegardless(failure, seen) ==
    <<<<"finish", 0>>>> \o
    (IF Chat THEN (IF bridge.usage /\ seen THEN <<<<"usage", 0>>>> ELSE <<>>) \o <<<<"done", 0>>>>
     ELSE <<>>)

\* What follows the last record: the converter's closing frame, and of a
\* chatStream the usage and [DONE]; nothing of it after a failure.
Closing(failure, seen) ==
    IF failure # "none" THEN <<>>
    ELSE <<<<"finish", 0>>>> \o
         (IF Chat THEN (IF bridge.usage /\ seen THEN <<<<"usage", 0>>>> ELSE <<>>) \o <<<<"done", 0>>>>
          ELSE <<>>)

\* nextLine and nextChunk return false: the converter ends its output.  The
\* failure, if any, was met first.
EndInput(failure) ==
    /\ err' = failure
    /\ ending' = TRUE
    /\ outbox' = Closing(failure, usage)
    /\ conv' = "send"

\* The head of the loop asks whether the consumer closed the stream.
Pull ==
    /\ conv = "pull"
    /\ \/ stop /\ EndInput(err)
       \/ ~stop /\ conv' = "read" /\ UNCHANGED <<outbox, ending, err>>
    /\ UNCHANGED <<bridge, stop, shut, complete, usage, reported, received, consumer, delivered>>

\* upstream.Next returns a record.  A Messages error event fails the stream;
\* [DONE] ends a Chat stream; message_stop makes a Messages stream complete.
ReadItem(item) ==
    /\ conv = "read" /\ ~shut
    /\ Len(received) < MaxItems
    /\ ~Chat => item \notin {"usage", "error"}
    /\ received' = Append(received, item)
    /\ \/ /\ item = "text"
          /\ outbox' = <<<<"text", Len(received) + 1>>>>
          /\ conv' = "send"
          /\ UNCHANGED <<ending, err, complete, usage>>
       \/ /\ item = "usage" /\ usage' = TRUE
          /\ conv' = "pull"
          /\ UNCHANGED <<outbox, ending, err, complete>>
       \/ /\ item = "noise"
          /\ conv' = "pull"
          /\ UNCHANGED <<outbox, ending, err, complete, usage>>
       \/ /\ item = "end" /\ Chat /\ complete' = TRUE
          /\ conv' = "pull"
          /\ UNCHANGED <<outbox, ending, err, usage>>
       \/ /\ item = "end" /\ ~Chat
          /\ EndInput(err)
          /\ UNCHANGED <<complete, usage>>
       \/ /\ item = "error"
          /\ EndInput("upstream")
          /\ UNCHANGED <<complete, usage>>
    /\ UNCHANGED <<bridge, stop, shut, reported, consumer, delivered>>

\* upstream.Next returns io.EOF or an error.
ReadEnds(how) ==
    /\ conv = "read" /\ ~shut
    /\ conv' = how
    /\ UNCHANGED <<bridge, stop, shut, outbox, ending, err, complete, usage, reported,
                   received, consumer, delivered>>

\* The upstream's Close unblocks its Next, which ends either way.
ReadUnblocked ==
    /\ conv = "read" /\ shut
    /\ conv' \in {"eof", "fault"}
    /\ UNCHANGED <<bridge, stop, shut, outbox, ending, err, complete, usage, reported,
                   received, consumer, delivered>>

\* Mutant: an end is an end, whether or not the message was complete.
FailureOfAnyEnd(how) ==
    IF Chat /\ stop THEN err
    ELSE IF how = "fault" THEN "upstream" ELSE err

\* Mutant: every error is kept as it came, io.EOF too.
FailureOfAnyError(how) == IF Chat /\ stop THEN err ELSE how

\* What an error of upstream.Next means.  To a chatStream that is being closed
\* it means nothing, and an end before message_stop is a failure.
FailureOf(how) ==
    IF Chat /\ stop THEN err
    ELSE IF how = "fault" THEN "upstream"
    ELSE IF Chat /\ ~complete THEN "short" ELSE err

JudgeEnd ==
    /\ conv \in {"eof", "fault"}
    /\ EndInput(FailureOf(conv))
    /\ UNCHANGED <<bridge, stop, shut, complete, usage, reported, received, consumer, delivered>>

\* The converter goes on after a frame was taken or dropped.
Sent ==
    /\ outbox' = Tail(outbox)
    /\ UNCHANGED <<bridge, conv, stop, shut, ending, err, complete, usage, reported, received>>

\* The stream is being closed: select may drop the frame.
DropFrame ==
    /\ conv = "send" /\ outbox # <<>> /\ stop
    /\ Sent
    /\ UNCHANGED <<consumer, delivered>>

AllSent ==
    /\ conv = "send" /\ outbox = <<>>
    /\ conv' = IF ending THEN "report" ELSE "pull"
    /\ UNCHANGED <<bridge, stop, shut, outbox, ending, err, complete, usage, reported,
                   received, consumer, delivered>>

\* Mutant: the frames are closed before the losses are reported.
ReportAfterwards ==
    /\ \/ conv = "report" /\ conv' = "closed" /\ UNCHANGED reported
       \/ conv = "closed" /\ reported' = TRUE /\ conv' = "finished"
    /\ UNCHANGED <<bridge, stop, shut, outbox, ending, err, complete, usage,
                   received, consumer, delivered>>

\* The losses are appended, then frames and finished are closed.
Report ==
    /\ \/ conv = "report" /\ reported' = TRUE /\ conv' = "closed"
       \/ conv = "closed" /\ conv' = "finished" /\ UNCHANGED reported
    /\ UNCHANGED <<bridge, stop, shut, outbox, ending, err, complete, usage,
                   received, consumer, delivered>>

----------------------------------------------------------------------------
(* The consumer.                                                           *)

FramesClosed == conv \in {"closed", "finished"}

Goto(t, label) == pc' = [pc EXCEPT ![t] = label]

Return(t, r) ==
    /\ Goto(t, "idle")
    /\ result' = [result EXCEPT ![t] = r]
    /\ UNCHANGED calls

Call(t, label) ==
    /\ pc[t] = "idle" /\ calls < MaxCalls
    /\ calls' = calls + 1
    /\ Goto(t, label)
    /\ UNCHANGED <<bridge, converter, stop, shut, result, delivered>>

\* Next takes the frame the converter is sending.
TakeFrame(t) ==
    /\ pc[t] = "next" /\ conv = "send" /\ outbox # <<>>
    /\ delivered' = Append(delivered, Head(outbox))
    /\ Sent
    /\ Return(t, "frame")

\* Next finds the frames closed, and reads the stream's failure.
TakeEnd(t) ==
    /\ pc[t] = "next" /\ FramesClosed
    /\ Return(t, IF err = "none" THEN "eof" ELSE "error")
    /\ UNCHANGED <<bridge, converter, stop, shut, delivered>>

CloseStop(t) ==
    /\ pc[t] = "stop"
    /\ stop' = TRUE
    /\ Goto(t, "shut")
    /\ UNCHANGED <<bridge, converter, shut, result, calls, delivered>>

\* Mutant: the upstream is closed once the frames are.
CloseUpstreamLate(t) ==
    /\ pc[t] = "shut" /\ FramesClosed
    /\ shut' = TRUE
    /\ Goto(t, "drain")
    /\ UNCHANGED <<bridge, converter, stop, result, calls, delivered>>

CloseUpstream(t) ==
    /\ pc[t] = "shut"
    /\ shut' = TRUE
    /\ Goto(t, "drain")
    /\ UNCHANGED <<bridge, converter, stop, result, calls, delivered>>

\* Close takes the frames nobody will, until there are no more.
Drain(t) ==
    /\ pc[t] = "drain"
    /\ \/ /\ conv = "send" /\ outbox # <<>>
          /\ Sent
          /\ UNCHANGED consumer
       \/ /\ FramesClosed
          /\ Goto(t, "await")
          /\ UNCHANGED <<bridge, converter, stop, shut, result, calls>>
    /\ UNCHANGED delivered

\* Mutant: Close does not wait for the goroutine.
AwaitNothing(t) ==
    /\ pc[t] = "await"
    /\ Return(t, "closed")
    /\ UNCHANGED <<bridge, converter, stop, shut, delivered>>

Await(t) ==
    /\ pc[t] = "await" /\ conv = "finished"
    /\ Return(t, "closed")
    /\ UNCHANGED <<bridge, converter, stop, shut, delivered>>

----------------------------------------------------------------------------
Upstream == \/ \E item \in Items : ReadItem(item)
            \/ \E how \in {"eof", "fault"} : ReadEnds(how)

Converter == Pull \/ ReadUnblocked \/ JudgeEnd \/ DropFrame \/ AllSent \/ Report

Step(t) == TakeFrame(t) \/ TakeEnd(t) \/ CloseStop(t) \/ CloseUpstream(t) \/ Drain(t) \/ Await(t)

\* Nobody calls any more: the stream may be left as it is, as a consumer may
\* leave it, with the converter waiting for the upstream or for Close.
Abandoned ==
    /\ calls = MaxCalls
    /\ \A t \in Thread : pc[t] = "idle"
    /\ UNCHANGED vars

Next ==
    \/ Upstream
    \/ Converter
    \/ Abandoned
    \/ \E t \in Thread : Step(t) \/ Call(t, "next") \/ Call(t, "stop")

Spec == Init /\ [][Next]_vars

\* The goroutines run, and closing the upstream unblocks its Next.  Nothing is
\* assumed of the upstream: it may never send again.
FairSpec ==
    /\ Spec
    /\ WF_vars(Converter)
    /\ \A t \in Thread : WF_vars(Step(t))

----------------------------------------------------------------------------
(* Properties.                                                             *)

\* The types of the stream's state.
TypeOK ==
    /\ bridge \in [kind : Kinds, usage : BOOLEAN]
    /\ conv \in ConvLabels
    /\ outbox \in Seq(Frames)
    /\ ending \in BOOLEAN /\ stop \in BOOLEAN /\ shut \in BOOLEAN
    /\ complete \in BOOLEAN /\ usage \in BOOLEAN /\ reported \in BOOLEAN
    /\ err \in Failures
    /\ pc \in [Thread -> Labels]
    /\ result \in [Thread -> Results]
    /\ calls \in 0..MaxCalls
    /\ received \in Seq(Items)
    /\ delivered \in Seq(Frames)

\* The frames are what the records convert to, each once and in their order,
\* followed by the tail.
Relays(records, frames, tail) ==
    LET n == Len(frames) - Len(tail)
    IN /\ n >= 0
       /\ \A i \in 1..n : \E k \in 1..Len(records) :
              records[k] = "text" /\ frames[i] = <<"text", k>>
       /\ \A k \in 1..Len(records) : records[k] = "text" =>
              \E i \in 1..n : frames[i] = <<"text", k>>
       /\ \A i, j \in 1..n : i < j => frames[i][2] < frames[j][2]
       /\ \A i \in 1..Len(tail) : frames[n + i] = tail[i]

Ends == {"finish", "done"}

\* A stream that failed never looks complete: Next returned no closing frame
\* and no [DONE], whatever the converter emitted after the failure and whether
\* or not the stream was being closed.
FailedNeverComplete ==
    err # "none" => \A i \in 1..Len(delivered) : delivered[i][1] \notin Ends

\* A stream nobody closed ends honestly: before io.EOF Next returned every
\* frame in order and the whole tail, and a chatStream's message was complete;
\* before an error it returned every frame that preceded the failure.
EndsHonestly ==
    \A t \in Thread : ~stop =>
        /\ result[t] = "eof" => Relays(received, delivered, Closing("none", usage)) /\ (Chat => complete)
        /\ result[t] = "error" => Relays(received, delivered, <<>>)

\* No goroutine outlives the stream: once a Close has returned, the converter
\* has finished and its upstream is closed.
NoneOutlives ==
    \A t \in Thread : result[t] = "closed" => conv = "finished" /\ shut

\* The report of losses is complete once Next has returned the end of the
\* stream (core.LossReporter).
LossesComplete ==
    \A t \in Thread : result[t] \in {"eof", "error"} => reported

\* Close returns, even when the upstream has stalled and other goroutines are
\* in Next or in Close.
CloseReturns == \A t \in Thread : pc[t] = "stop" ~> result[t] = "closed"

\* What Next returned is the truth of the stream: a failed one never looks complete,
\* one that ended has all its frames, and its losses are there by then
\* (chatStream.run, messagesStream.run).
EndsTrue == TypeOK /\ FailedNeverComplete /\ EndsHonestly /\ LossesComplete
============================================================================
