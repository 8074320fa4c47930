--------------------------- MODULE StreamProofs -----------------------------
(***************************************************************************)
(* Proofs about the streams and translations of a request: what a          *)
(* translating stream shows its consumer, for any number of goroutines that *)
(* call Next and Close, of records and of calls; what the readers relay of an *)
(* open stream, however its bytes arrive; and what the Adapter lets be lost. *)
(* They share no state; each has its own invariant, and each theorem is about *)
(* that component's own specification.                                     *)
(***************************************************************************)
EXTENDS StreamBridge, Records, Adapter, SharedProofs, SequenceTheorems

----------------------------------------------------------------------------
(* The inductive invariant.                                                *)

\* The frames returned and those about to be sent.
Output == delivered \o outbox

\* A goroutine past the first step of Close has closed the channel stop, and
\* past the second the upstream; a result was read where the code reads it.
CloseOrder ==
    \A t \in Thread :
        /\ pc[t] \in {"shut", "drain", "await"} => stop
        /\ pc[t] \in {"drain", "await"} => shut
        /\ pc[t] = "await" => FramesClosed
        /\ result[t] \in {"eof", "error"} => FramesClosed
        /\ result[t] = "closed" => conv = "finished" /\ shut
        /\ result[t] = "eof" => err = "none"
        /\ result[t] = "error" => err # "none"

\* Where the converter is, and what its state then is.
ConverterOrder ==
    /\ conv # "send" => outbox = <<>>
    /\ conv \in {"pull", "read", "eof", "fault"} => ~ending
    /\ conv \in {"report", "closed", "finished"} => ending
    /\ FramesClosed => reported
    /\ ~ending => err = "none"
    /\ ending /\ Chat /\ ~stop /\ err = "none" => complete

\* No closing frame while the input lasts, and none after a failure.
NoFalseEnd ==
    ~ending \/ err # "none" => \A i \in 1..Len(Output) : Output[i][1] \notin Ends

\* While nobody has closed the stream, what was sent and what is about to be is
\* what the records convert to, with its tail once the input has ended.
OutputWhole ==
    ~stop => Relays(received, Output, IF ending THEN Closing(err, usage) ELSE <<>>)

IInv == TypeOK /\ CloseOrder /\ ConverterOrder /\ NoFalseEnd /\ OutputWhole

----------------------------------------------------------------------------
(* Sequences of frames.                                                    *)

\* A frame that moves from the outbox to the consumer leaves the output as it is.
LEMMA TakenOutput ==
    ASSUME NEW S, NEW d \in Seq(S), NEW o \in Seq(S), o # <<>>
    PROVE  /\ Append(d, Head(o)) \in Seq(S) /\ Tail(o) \in Seq(S)
           /\ Append(d, Head(o)) \o Tail(o) = d \o o
<1>1. o[1] \in S /\ Head(o) = o[1] /\ Len(o) > 0 /\ Tail(o) \in Seq(S) OBVIOUS
<1>2. Append(d, Head(o)) \in Seq(S) BY <1>1
<1>3. Len(Append(d, Head(o)) \o Tail(o)) = Len(d \o o) BY <1>1, <1>2
<1>4. \A i \in 1..Len(d \o o) : (Append(d, Head(o)) \o Tail(o))[i] = (d \o o)[i]
    BY <1>1, <1>2
<1>5. Append(d, Head(o)) \o Tail(o) \in Seq(S) /\ d \o o \in Seq(S) BY <1>1, <1>2
<1> QED BY <1>1, <1>2, <1>3, <1>4, <1>5, SeqEqual

\* The frames that close a stream; none close one that failed.
LEMMA ClosingFrames ==
    ASSUME NEW failure, NEW seen
    PROVE  /\ Closing(failure, seen) \in Seq(Frames)
           /\ failure # "none" => Closing(failure, seen) = <<>>
BY DEF Closing, Frames

----------------------------------------------------------------------------
(* Initially, and for every step.                                          *)

\* A stream that was just opened.
LEMMA InitIInv == Init => IInv
<1> SUFFICES ASSUME Init PROVE IInv OBVIOUS
<1>1. TypeOK
  <2>1. pc \in [Thread -> Labels] /\ result \in [Thread -> Results] /\ calls \in 0..MaxCalls
      BY BridgeConstants DEF Init, Labels, Results
  <2>2. outbox \in Seq(Frames) /\ received \in Seq(Items) /\ delivered \in Seq(Frames)
      BY DEF Init
  <2> QED BY <2>1, <2>2 DEF Init, TypeOK, ConvLabels, Failures
<1>2. CloseOrder /\ ConverterOrder BY DEF Init, CloseOrder, ConverterOrder, FramesClosed
<1>3. Output = <<>> BY DEF Init, Output
<1>4. NoFalseEnd /\ OutputWhole
    BY <1>3 DEF Init, NoFalseEnd, OutputWhole, Relays
<1> QED BY <1>1, <1>2, <1>4 DEF IInv

\* What every step keeps: the types.
LEMMA StepTypeOK ==
    ASSUME TypeOK, [Next]_vars
    PROVE  TypeOK'
<1> USE BridgeConstants DEF TypeOK, converter, consumer, ConvLabels, Failures, Labels, Results
<1>1. ASSUME NEW item \in Items, ReadItem(item) PROVE TypeOK'
  <2>1. received' \in Seq(Items) /\ \A failure : Closing(failure, usage) \in Seq(Frames)
      BY <1>1, ClosingFrames DEF ReadItem
  <2>2. <<<<"text", Len(received) + 1>>>> \in Seq(Frames) BY DEF Frames
  <2>3. CASE item = "text" BY <1>1, <2>1, <2>2, <2>3 DEF ReadItem
  <2>4. CASE item \in {"usage", "noise"} BY <1>1, <2>1, <2>4 DEF ReadItem
  <2>5. CASE item = "end"
    <3>1. CASE Chat BY <1>1, <2>1, <2>5, <3>1 DEF ReadItem
    <3>2. CASE ~Chat
      <4>1. EndInput(err) /\ UNCHANGED <<complete, usage>> BY <1>1, <2>5, <3>2 DEF ReadItem
      <4>2. UNCHANGED <<bridge, stop, shut, reported, consumer, delivered>> BY <1>1 DEF ReadItem
      <4> QED BY <2>1, <4>1, <4>2 DEF EndInput
    <3> QED BY <3>1, <3>2
  <2>6. CASE item = "error" BY <1>1, <2>1, <2>6 DEF ReadItem, EndInput
  <2> QED BY <2>3, <2>4, <2>5, <2>6 DEF Items
<1>2. ASSUME NEW how \in {"eof", "fault"}, ReadEnds(how) PROVE TypeOK'
    BY <1>2 DEF ReadEnds
<1>3. CASE Pull
  <2>1. Closing(err, usage) \in Seq(Frames) BY ClosingFrames
  <2>2. CASE stop BY <1>3, <2>1, <2>2 DEF Pull, EndInput
  <2>3. CASE ~stop BY <1>3, <2>3 DEF Pull
  <2> QED BY <2>2, <2>3
<1>4. CASE ReadUnblocked BY <1>4 DEF ReadUnblocked
<1>5. CASE JudgeEnd BY <1>5, ClosingFrames DEF JudgeEnd, EndInput, FailureOf
<1>6. CASE DropFrame BY <1>6 DEF DropFrame, Sent
<1>7. CASE AllSent BY <1>7 DEF AllSent
<1>8. CASE Report BY <1>8 DEF Report
<1>9. CASE Abandoned \/ UNCHANGED vars BY <1>9 DEF Abandoned, vars
<1>10. ASSUME NEW t \in Thread, Step(t) \/ Call(t, "next") \/ Call(t, "stop") PROVE TypeOK'
  <2>1. CASE TakeFrame(t) BY <2>1, TakenOutput DEF TakeFrame, Sent, Return, Goto
  <2>2. CASE TakeEnd(t) BY <2>2 DEF TakeEnd, Return, Goto
  <2>3. CASE CloseStop(t) BY <2>3 DEF CloseStop, Goto
  <2>4. CASE CloseUpstream(t) BY <2>4 DEF CloseUpstream, Goto
  <2>5. CASE Drain(t)
    <3>1. CASE conv = "send"
      <4>1. outbox # <<>> /\ Sent /\ UNCHANGED <<consumer, delivered>>
          BY <2>5, <3>1 DEF Drain, FramesClosed
      <4> QED BY <4>1 DEF Sent
    <3>2. CASE FramesClosed BY <2>5, <3>2 DEF Drain, Goto, FramesClosed
    <3> QED BY <2>5, <3>1, <3>2 DEF Drain
  <2>6. CASE Await(t) BY <2>6 DEF Await, Return, Goto
  <2>7. CASE Call(t, "next") \/ Call(t, "stop") BY <2>7 DEF Call, Goto
  <2> QED BY <1>10, <2>1, <2>2, <2>3, <2>4, <2>5, <2>6, <2>7 DEF Step
<1> QED BY <1>1, <1>2, <1>3, <1>4, <1>5, <1>6, <1>7, <1>8, <1>9, <1>10
        DEF Next, Upstream, Converter

\* What every step keeps: the order of the converter's and of Close's steps.
LEMMA StepOrder ==
    ASSUME TypeOK, CloseOrder, ConverterOrder, [Next]_vars
    PROVE  CloseOrder' /\ ConverterOrder'
<1> USE DEF TypeOK, converter, consumer, CloseOrder, ConverterOrder, FramesClosed, Chat
<1>1. ASSUME NEW item \in Items, ReadItem(item) PROVE CloseOrder' /\ ConverterOrder'
  <2>1. CloseOrder' BY <1>1 DEF ReadItem, EndInput
  <2>2. ConverterOrder' BY <1>1 DEF ReadItem, EndInput
  <2> QED BY <2>1, <2>2
<1>2. ASSUME NEW how \in {"eof", "fault"}, ReadEnds(how) PROVE CloseOrder' /\ ConverterOrder'
    BY <1>2 DEF ReadEnds
<1>3. CASE Pull BY <1>3 DEF Pull, EndInput
<1>4. CASE ReadUnblocked BY <1>4 DEF ReadUnblocked
<1>5. CASE JudgeEnd BY <1>5 DEF JudgeEnd, EndInput, FailureOf
<1>6. CASE DropFrame BY <1>6 DEF DropFrame, Sent
<1>7. CASE AllSent BY <1>7 DEF AllSent
<1>8. CASE Report BY <1>8 DEF Report
<1>9. CASE Abandoned \/ UNCHANGED vars BY <1>9 DEF Abandoned, vars
<1>10. ASSUME NEW t \in Thread, Step(t) \/ Call(t, "next") \/ Call(t, "stop")
       PROVE CloseOrder' /\ ConverterOrder'
  <2>1. CASE TakeFrame(t) BY <2>1 DEF TakeFrame, Sent, Return, Goto
  <2>2. CASE TakeEnd(t) BY <2>2 DEF TakeEnd, Return, Goto
  <2>3. CASE CloseStop(t) BY <2>3 DEF CloseStop, Goto
  <2>4. CASE CloseUpstream(t) BY <2>4 DEF CloseUpstream, Goto
  <2>5. CASE Drain(t)
    <3>1. CASE conv = "send"
      <4>1. Sent /\ UNCHANGED <<consumer, delivered>> BY <2>5, <3>1 DEF Drain
      <4> QED BY <3>1, <4>1 DEF Sent
    <3>2. CASE FramesClosed BY <2>5, <3>2 DEF Drain, Goto
    <3> QED BY <2>5, <3>1, <3>2 DEF Drain
  <2>6. CASE Await(t) BY <2>6 DEF Await, Return, Goto
  <2>7. CASE Call(t, "next") \/ Call(t, "stop") BY <2>7 DEF Call, Goto
  <2> QED BY <1>10, <2>1, <2>2, <2>3, <2>4, <2>5, <2>6, <2>7 DEF Step
<1> QED BY <1>1, <1>2, <1>3, <1>4, <1>5, <1>6, <1>7, <1>8, <1>9, <1>10
        DEF Next, Upstream, Converter

----------------------------------------------------------------------------
(* The output.                                                             *)

\* The parts of Relays, for the first n frames.
RelayedOnly(records, frames, n) ==
    \A i \in 1..n : \E k \in 1..Len(records) : records[k] = "text" /\ frames[i] = <<"text", k>>
RelayedAll(records, frames, n) ==
    \A k \in 1..Len(records) : records[k] = "text" => \E i \in 1..n : frames[i] = <<"text", k>>
RelayedInOrder(frames, n) == \A i, j \in 1..n : i < j => frames[i][2] < frames[j][2]

\* What Relays says, part by part.
LEMMA RelaysParts ==
    ASSUME NEW records, NEW frames, NEW tail, NEW n \in Nat, Len(frames) - Len(tail) = n
    PROVE  Relays(records, frames, tail) <=>
               /\ RelayedOnly(records, frames, n) /\ RelayedAll(records, frames, n)
               /\ RelayedInOrder(frames, n)
               /\ \A i \in 1..Len(tail) : frames[n + i] = tail[i]
<1>1. n >= 0 OBVIOUS
<1> QED BY <1>1, Zenon DEF Relays, RelayedOnly, RelayedAll, RelayedInOrder

\* Without a tail every frame is one that a record converts to.
LEMMA RelaysNoTail ==
    ASSUME NEW records \in Seq(Items), NEW frames \in Seq(Frames)
    PROVE  Relays(records, frames, <<>>) <=>
               /\ RelayedOnly(records, frames, Len(frames)) /\ RelayedAll(records, frames, Len(frames))
               /\ RelayedInOrder(frames, Len(frames))
<1>1. Len(frames) \in Nat /\ Len(<<>>) = 0 OBVIOUS
<1>2. Len(frames) - Len(<<>>) = Len(frames) BY <1>1
<1>3. \A i \in 1..Len(<<>>) : frames[Len(frames) + i] = <<>>[i] BY <1>1
<1> QED BY <1>1, <1>2, <1>3, RelaysParts

\* A record that converts to nothing leaves what the frames relay as it is.
LEMMA NothingToRelay ==
    ASSUME NEW records \in Seq(Items), NEW frames \in Seq(Frames), Relays(records, frames, <<>>),
           NEW item \in Items, item # "text"
    PROVE  Relays(Append(records, item), frames, <<>>)
<1> DEFINE longer == Append(records, item)
<1>1. Len(records) \in Nat /\ Len(frames) \in Nat OBVIOUS
<1>2. longer \in Seq(Items) /\ Len(longer) = Len(records) + 1 /\ longer[Len(records) + 1] = item
      /\ \A k \in 1..Len(records) : longer[k] = records[k]
    BY AppendProperties
<1> HIDE DEF longer
<1>3. RelayedOnly(longer, frames, Len(frames))
    BY <1>1, <1>2, RelaysNoTail DEF RelayedOnly
<1>4. RelayedAll(longer, frames, Len(frames))
  <2>1. 1..Len(longer) = (1..Len(records)) \cup {Len(records) + 1} BY <1>1, <1>2
  <2>2. RelayedAll(records, frames, Len(frames)) BY RelaysNoTail
  <2> QED BY <1>2, <2>1, <2>2, Zenon DEF RelayedAll
<1>5. Relays(longer, frames, <<>>) BY <1>2, <1>3, <1>4, RelaysNoTail
<1> QED BY <1>5 DEF longer

\* A text record is relayed by the frame it converts to.
LEMMA TextRelayed ==
    ASSUME NEW records \in Seq(Items), NEW frames \in Seq(Frames), Relays(records, frames, <<>>)
    PROVE  Relays(Append(records, "text"), frames \o <<<<"text", Len(records) + 1>>>>, <<>>)
<1> DEFINE n == Len(records) + 1
           f == <<"text", n>>
           longer == Append(records, "text")
           more == frames \o <<f>>
<1>1. Len(records) \in Nat /\ Len(frames) \in Nat /\ n \in Nat OBVIOUS
<1>2. longer \in Seq(Items)
      /\ Len(longer) = n /\ longer[n] = "text" /\ \A k \in 1..Len(records) : longer[k] = records[k]
    BY AppendProperties DEF Items
<1>3. more \in Seq(Frames)
      /\ Len(more) = Len(frames) + 1 /\ more[Len(frames) + 1] = f
      /\ \A i \in 1..Len(frames) : more[i] = frames[i]
    BY <1>1, ConcatProperties DEF Frames
<1>4. /\ RelayedOnly(records, frames, Len(frames)) /\ RelayedAll(records, frames, Len(frames))
      /\ RelayedInOrder(frames, Len(frames))
    BY RelaysNoTail
<1>5. f[2] = n /\ \A i \in 1..Len(frames) : frames[i][2] \in 1..Len(records)
    BY <1>1, <1>4 DEF RelayedOnly
<1> HIDE DEF longer, more
<1>6. RelayedOnly(longer, more, Len(more))
  <2>1. 1..Len(more) = (1..Len(frames)) \cup {Len(frames) + 1} BY <1>1, <1>3
  <2>2. n \in 1..Len(longer) /\ \A k \in 1..Len(records) : k \in 1..Len(longer) BY <1>1, <1>2
  <2> QED BY <1>2, <1>3, <1>4, <2>1, <2>2, Zenon DEF RelayedOnly
<1>7. RelayedAll(longer, more, Len(more))
  <2>1. Len(more) \in 1..Len(more) /\ more[Len(more)] = <<"text", n>> BY <1>1, <1>3
  <2>2. 1..Len(longer) = (1..Len(records)) \cup {n} BY <1>1, <1>2
  <2>3. \A k \in 1..Len(records) : longer[k] = "text" => \E i \in 1..Len(more) : more[i] = <<"text", k>>
    <3>1. \A i \in 1..Len(frames) : i \in 1..Len(more) BY <1>1, <1>3
    <3> QED BY <1>2, <1>3, <1>4, <3>1, Zenon DEF RelayedAll
  <2> QED BY <2>1, <2>2, <2>3 DEF RelayedAll
<1> HIDE DEF f
<1>8. RelayedInOrder(more, Len(more))
  <2> SUFFICES ASSUME NEW i \in 1..Len(more), NEW j \in 1..Len(more), i < j
               PROVE  more[i][2] < more[j][2]
      BY DEF RelayedInOrder
  <2>1. CASE j \in 1..Len(frames) BY <1>1, <1>3, <1>4, <2>1 DEF RelayedInOrder
  <2>2. CASE j = Len(frames) + 1 BY <1>1, <1>3, <1>5, <2>2
  <2> QED BY <1>1, <1>3, <2>1, <2>2
<1>9. Relays(longer, more, <<>>) BY <1>2, <1>3, <1>6, <1>7, <1>8, RelaysNoTail
<1> QED BY <1>9 DEF longer, more, f

\* The closing frames follow what was relayed.
LEMMA TailFollows ==
    ASSUME NEW records \in Seq(Items), NEW frames \in Seq(Frames), NEW tail \in Seq(Frames),
           Relays(records, frames, <<>>)
    PROVE  Relays(records, frames \o tail, tail)
<1> DEFINE whole == frames \o tail
           n == Len(frames)
<1>1. n \in Nat /\ Len(tail) \in Nat OBVIOUS
<1>2. Len(whole) - Len(tail) = n
      /\ (\A i \in 1..n : whole[i] = frames[i])
      /\ (\A i \in 1..Len(tail) : whole[n + i] = tail[i])
    BY <1>1, ConcatProperties
<1>3. RelayedOnly(records, frames, n) /\ RelayedAll(records, frames, n) /\ RelayedInOrder(frames, n)
    BY RelaysNoTail
<1> HIDE DEF whole, n
<1>4. RelayedOnly(records, whole, n) BY <1>1, <1>2, <1>3 DEF RelayedOnly
<1>5. RelayedAll(records, whole, n) BY <1>1, <1>2, <1>3 DEF RelayedAll
<1>6. RelayedInOrder(whole, n) BY <1>1, <1>2, <1>3 DEF RelayedInOrder
<1>7. Relays(records, whole, tail) BY <1>1, <1>2, <1>4, <1>5, <1>6, RelaysParts
<1> QED BY <1>7 DEF whole

\* A step that leaves the output and the converter's input alone.
LEMMA SameOutput ==
    ASSUME IInv, Output' = Output, stop' = stop \/ stop',
           UNCHANGED <<bridge, received, ending, err, usage>>
    PROVE  NoFalseEnd' /\ OutputWhole'
<1>1. Closing(err, usage)' = Closing(err, usage) BY DEF Closing, Chat
<1>2. NoFalseEnd' BY DEF IInv, NoFalseEnd
<1>3. OutputWhole' BY <1>1 DEF IInv, OutputWhole
<1> QED BY <1>2, <1>3

\* A frame taken by Close or dropped: the stream is being closed.
LEMMA FrameLost ==
    ASSUME IInv, outbox # <<>>, stop, stop', Sent, UNCHANGED delivered
    PROVE  NoFalseEnd' /\ OutputWhole'
<1>1. outbox' = Tail(outbox) /\ UNCHANGED <<ending, err>> BY DEF Sent
<1>2. delivered \in Seq(Frames) /\ outbox \in Seq(Frames) BY DEF IInv, TypeOK
<1>3. \A i \in 1..Len(Output') : \E j \in 1..Len(Output) : Output'[i] = Output[j]
  <2>1. Output' = delivered \o Tail(outbox) /\ Output = delivered \o outbox BY <1>1 DEF Output
  <2> SUFFICES ASSUME NEW i \in 1..Len(Output')
               PROVE  \E j \in 1..Len(Output) : Output'[i] = Output[j]
      OBVIOUS
  <2>2. CASE i <= Len(delivered)
      BY <1>2, <2>1, <2>2, ConcatProperties, HeadTailProperties
  <2>3. CASE i > Len(delivered)
    <3>1. i + 1 \in 1..Len(Output) /\ Output'[i] = Output[i + 1]
        BY <1>2, <2>1, <2>3, ConcatProperties, HeadTailProperties
    <3> QED BY <3>1
  <2> QED BY <1>2, <2>2, <2>3
<1>4. NoFalseEnd' BY <1>1, <1>3 DEF IInv, NoFalseEnd
<1> QED BY <1>4 DEF OutputWhole

\* The input ends: the closing frames follow what was relayed.
LEMMA InputEnds ==
    ASSUME IInv, outbox = <<>>, ~ending, NEW failure, EndInput(failure),
           UNCHANGED <<bridge, stop, usage, delivered>>,
           \/ received' = received
           \/ \E item \in Items : item # "text" /\ received' = Append(received, item)
    PROVE  NoFalseEnd' /\ OutputWhole'
<1> DEFINE tail == Closing(failure, usage)
<1>1. tail \in Seq(Frames) /\ (failure # "none" => tail = <<>>) BY ClosingFrames
<1>2. delivered \in Seq(Frames) /\ received \in Seq(Items) BY DEF IInv, TypeOK
<1>3. Output = delivered BY <1>2, ConcatEmptySeq DEF Output
<1>4. Output' = delivered \o tail /\ err' = failure /\ ending' BY DEF Output, EndInput
<1>5. Closing(err, usage)' = tail BY <1>4 DEF Closing, Chat
<1> HIDE DEF tail
<1>6. NoFalseEnd'
  <2> SUFFICES ASSUME failure # "none" PROVE \A i \in 1..Len(Output') : Output'[i][1] \notin Ends
      BY <1>4 DEF NoFalseEnd
  <2>1. Output' = Output BY <1>1, <1>2, <1>3, <1>4, ConcatEmptySeq
  <2> QED BY <2>1 DEF IInv, NoFalseEnd
<1>7. OutputWhole'
  <2> SUFFICES ASSUME ~stop PROVE Relays(received', Output', tail)
      BY <1>4, <1>5 DEF OutputWhole
  <2>1. Relays(received, delivered, <<>>) BY <1>3 DEF IInv, OutputWhole
  <2>2. received' \in Seq(Items) /\ Relays(received', delivered, <<>>)
    <3>1. CASE received' = received BY <1>2, <2>1, <3>1
    <3>2. ASSUME NEW item \in Items, item # "text", received' = Append(received, item)
          PROVE  received' \in Seq(Items) /\ Relays(received', delivered, <<>>)
      <4>1. Append(received, item) \in Seq(Items) BY <1>2
      <4> QED BY <1>2, <2>1, <3>2, <4>1, NothingToRelay
    <3> QED BY <3>1, <3>2
  <2> QED BY <1>1, <1>2, <1>4, <2>2, TailFollows
<1> QED BY <1>6, <1>7

\* What every step keeps: the output is what the records convert to.
LEMMA StepOutput ==
    ASSUME IInv, [Next]_vars
    PROVE  NoFalseEnd' /\ OutputWhole'
<1> USE DEF converter, consumer
<1>0. delivered \in Seq(Frames) /\ outbox \in Seq(Frames) /\ received \in Seq(Items)
    BY DEF IInv, TypeOK
<1>1. ASSUME NEW item \in Items, ReadItem(item) PROVE NoFalseEnd' /\ OutputWhole'
  <2>1. outbox = <<>> /\ ~ending /\ received' = Append(received, item)
        /\ UNCHANGED <<bridge, stop, delivered>>
      BY <1>1 DEF ReadItem, IInv, ConverterOrder
  <2>2. Output = delivered BY <1>0, <2>1, ConcatEmptySeq DEF Output
  <2>3. CASE item = "text"
    <3> DEFINE f == <<"text", Len(received) + 1>>
    <3>1. outbox' = <<f>> /\ ~ending' /\ UNCHANGED <<err, usage>>
        BY <1>1, <2>1, <2>3 DEF ReadItem
    <3>2. Output' = delivered \o <<f>> BY <2>1, <3>1 DEF Output
    <3>3. f \in Frames /\ f[1] \notin Ends BY <1>0 DEF Frames, Ends
    <3>4. NoFalseEnd'
        BY <1>0, <2>1, <2>2, <3>2, <3>3, ConcatProperties DEF IInv, NoFalseEnd
    <3>5. OutputWhole'
        BY <1>0, <2>1, <2>2, <2>3, <3>1, <3>2, TextRelayed DEF IInv, OutputWhole
    <3> QED BY <3>4, <3>5
  <2>4. CASE item \in {"usage", "noise"} \/ (item = "end" /\ Chat)
    <3>1. UNCHANGED <<outbox, ending>> BY <1>1, <2>4 DEF ReadItem
    <3>2. Output' = Output BY <2>1, <3>1 DEF Output
    <3>3. NoFalseEnd' BY <2>1, <3>1, <3>2 DEF IInv, NoFalseEnd
    <3>4. OutputWhole'
        BY <1>0, <2>1, <2>2, <2>4, <3>1, <3>2, NothingToRelay DEF IInv, OutputWhole
    <3> QED BY <3>3, <3>4
  <2>5. CASE item = "error" \/ (item = "end" /\ ~Chat)
    <3>1. \E failure : EndInput(failure) /\ UNCHANGED usage BY <1>1, <2>5 DEF ReadItem
    <3> QED BY <2>1, <2>5, <3>1, InputEnds
  <2> QED BY <2>3, <2>4, <2>5 DEF Items
<1>2. ASSUME NEW how \in {"eof", "fault"}, ReadEnds(how) PROVE NoFalseEnd' /\ OutputWhole'
    BY <1>2, SameOutput DEF ReadEnds, Output
<1>3. CASE Pull
  <2>1. CASE stop
    <3>1. outbox = <<>> /\ ~ending BY <1>3 DEF Pull, IInv, ConverterOrder
    <3>2. EndInput(err) /\ UNCHANGED <<bridge, stop, usage, delivered, received>>
        BY <1>3, <2>1 DEF Pull
    <3> QED BY <3>1, <3>2, InputEnds
  <2>2. CASE ~stop BY <1>3, <2>2, SameOutput DEF Pull, Output
  <2> QED BY <2>1, <2>2
<1>4. CASE ReadUnblocked BY <1>4, SameOutput DEF ReadUnblocked, Output
<1>5. CASE JudgeEnd
  <2>1. outbox = <<>> /\ ~ending BY <1>5 DEF JudgeEnd, IInv, ConverterOrder
  <2>2. EndInput(FailureOf(conv)) /\ UNCHANGED <<bridge, stop, usage, delivered, received>>
      BY <1>5 DEF JudgeEnd
  <2> QED BY <2>1, <2>2, InputEnds
<1>6. CASE DropFrame
  <2>1. outbox # <<>> /\ stop /\ stop' /\ Sent /\ UNCHANGED delivered BY <1>6 DEF DropFrame, Sent
  <2> QED BY <2>1, FrameLost
<1>7. CASE AllSent BY <1>7, SameOutput DEF AllSent, Output
<1>8. CASE Report BY <1>8, SameOutput DEF Report, Output
<1>9. CASE Abandoned \/ UNCHANGED vars BY <1>9, SameOutput DEF Abandoned, vars, Output
<1>10. ASSUME NEW t \in Thread, Step(t) \/ Call(t, "next") \/ Call(t, "stop")
       PROVE NoFalseEnd' /\ OutputWhole'
  <2>1. CASE TakeFrame(t)
    <3>1. outbox # <<>> /\ delivered' = Append(delivered, Head(outbox)) /\ outbox' = Tail(outbox)
        BY <2>1 DEF TakeFrame, Sent
    <3>2. Output' = Output BY <1>0, <3>1, TakenOutput DEF Output
    <3>3. UNCHANGED <<bridge, received, ending, err, usage, stop>> BY <2>1 DEF TakeFrame, Sent
    <3> QED BY <3>2, <3>3, SameOutput
  <2>2. CASE TakeEnd(t) BY <2>2, SameOutput DEF TakeEnd, Output
  <2>3. CASE CloseStop(t) BY <2>3, SameOutput DEF CloseStop, Output
  <2>4. CASE CloseUpstream(t) BY <2>4, SameOutput DEF CloseUpstream, Output
  <2>5. CASE Drain(t)
    <3>1. CASE conv = "send"
      <4>1. outbox # <<>> /\ Sent /\ UNCHANGED delivered
          BY <2>5, <3>1 DEF Drain, FramesClosed
      <4>2. stop /\ stop' BY <2>5, <4>1 DEF Drain, IInv, CloseOrder, Sent
      <4> QED BY <4>1, <4>2, FrameLost
    <3>2. CASE FramesClosed BY <2>5, <3>2, SameOutput DEF Drain, FramesClosed, Output
    <3> QED BY <2>5, <3>1, <3>2 DEF Drain
  <2>6. CASE Await(t) BY <2>6, SameOutput DEF Await, Output
  <2>7. CASE Call(t, "next") \/ Call(t, "stop") BY <2>7, SameOutput DEF Call, Output
  <2> QED BY <1>10, <2>1, <2>2, <2>3, <2>4, <2>5, <2>6, <2>7 DEF Step
<1> QED BY <1>1, <1>2, <1>3, <1>4, <1>5, <1>6, <1>7, <1>8, <1>9, <1>10
        DEF Next, Upstream, Converter

----------------------------------------------------------------------------
(* The theorems.                                                           *)

\* The invariant is inductive.
LEMMA BridgeInvariant == Spec => []IInv
<1>1. IInv /\ [Next]_vars => IInv'
    BY StepTypeOK, StepOrder, StepOutput DEF IInv
<1> QED BY InitIInv, <1>1, PTL DEF Spec

\* What Next returned is the truth of the stream (chatStream.run and
\* messagesStream.run), for any number of goroutines calling Next and Close and
\* any records: a failed stream never looks complete, one that ended and nobody
\* closed gave every frame in order and its whole tail, and the losses are in
\* the report when the end is seen.
THEOREM StreamEndsTrue == Spec => []EndsTrue
<1>1. IInv => EndsTrue
  <2> SUFFICES ASSUME IInv PROVE EndsTrue OBVIOUS
  <2>0. delivered \in Seq(Frames) /\ outbox \in Seq(Frames) BY DEF IInv, TypeOK
  <2>1. FailedNeverComplete
    <3> SUFFICES ASSUME err # "none", NEW i \in 1..Len(delivered)
                 PROVE  delivered[i][1] \notin Ends
        BY DEF FailedNeverComplete
    <3>1. i \in 1..Len(Output) /\ Output[i] = delivered[i] BY <2>0, ConcatProperties DEF Output
    <3> QED BY <3>1 DEF IInv, NoFalseEnd
  <2>2. EndsHonestly
    <3> SUFFICES ASSUME NEW t \in Thread, ~stop, result[t] \in {"eof", "error"}
                 PROVE  /\ result[t] = "eof" => Relays(received, delivered, Closing("none", usage)) /\ (Chat => complete)
                        /\ result[t] = "error" => Relays(received, delivered, <<>>)
        BY DEF EndsHonestly
    <3>1. outbox = <<>> /\ ending BY DEF IInv, CloseOrder, ConverterOrder, FramesClosed
    <3>2. Output = delivered BY <2>0, <3>1, ConcatEmptySeq DEF Output
    <3>3. Relays(received, delivered, Closing(err, usage)) BY <3>1, <3>2 DEF IInv, OutputWhole
    <3>4. CASE result[t] = "eof"
        BY <3>1, <3>3, <3>4 DEF IInv, CloseOrder, ConverterOrder
    <3>5. CASE result[t] = "error"
        BY <3>3, <3>5, ClosingFrames DEF IInv, CloseOrder
    <3> QED BY <3>4, <3>5
  <2>3. LossesComplete BY DEF IInv, CloseOrder, ConverterOrder, LossesComplete
  <2> QED BY <2>1, <2>2, <2>3 DEF IInv, EndsTrue
<1> QED BY BridgeInvariant, <1>1, PTL

\* No goroutine outlives the stream (chatStream.Close): once a Close has
\* returned, the converter has finished and the upstream is closed.
THEOREM ConverterFinished == Spec => []NoneOutlives
<1>1. IInv => NoneOutlives BY DEF IInv, CloseOrder, NoneOutlives
<1> QED BY BridgeInvariant, <1>1, PTL

----------------------------------------------------------------------------
(* Reading the records of an open stream.                                  *)

Records == [l \in Lines |-> RecordFrom(l)]
Places == {l \in Lines : Starts(l) /\ Carries(RecordFrom(l)) /\ ~Done(l)}

\* The lines from one to another, both included.
Run(first, last) == [i \in 1..(last - first + 1) |-> first + i - 1]

\* A stream read up to line l, and since line s into the record that begins there.
Reads(s, l, lines, held, returned) ==
    /\ s \in 1..l /\ l <= Len(script.lines) + 1
    /\ returned = Kept(Records, Places)[s - 1]
    /\ lines = Run(s, l - 1)
    /\ held = Bytes(lines)
    /\ IF Ndjson THEN s = l /\ \A k \in 1..(s - 1) : script.lines[k].kind \notin {"last", "stop"}
       ELSE /\ s \in Lines => Starts(s)
            /\ \A k \in s..(l - 1) : ~Blank(k)

TooLarge == \E l \in Lines : Starts(l) /\ Bytes(RecordFrom(l)) > MaxRecord
HasStop(lines) == \E l \in ToSet(lines) : script.lines[l].kind = "stop"

StreamKinds == {"sse", "anthropic", "ollama", "extension"}
Endings == {"", "eof", "cut", "done", "nothing", "large", "broken"}

RecordsTypeOK ==
    /\ script \in [lines : Seq(Line), ended : BOOLEAN]
    /\ at \in [line : Nat \ {0}, read : Nat]
    /\ at.line <= Len(script.lines) + 1
    /\ IF AtEnd THEN at.read = 0 ELSE at.read <= LengthOf(at.line)
    /\ frame \in [lines : Seq(Nat), held : Nat]
    /\ stream \in [kind : StreamKinds, gone : BOOLEAN, stopped : BOOLEAN, emitted : BOOLEAN,
                   end : Endings, permits : {"none", "failover", "transient", "unusable"}]
    /\ relayed \in Seq(Seq(Nat))

RecordsInv ==
    /\ RecordsTypeOK
    /\ frame.held + at.read <= MaxRecord
    /\ \A i \in 1..Len(relayed) : Bytes(relayed[i]) <= MaxRecord
    /\ stream.stopped => \E i \in 1..Len(relayed) : HasStop(relayed[i])
    /\ ~Closed => \E s \in 1..at.line : Reads(s, at.line, frame.lines, frame.held, relayed)
    /\ IsPrefix(relayed, Expected)
    /\ stream.end \in {"eof", "cut", "done", "nothing"} => relayed = Expected
    /\ stream.end = "large" => TooLarge
    /\ stream.kind = "anthropic" /\ stream.end = "eof" => stream.stopped

----------------------------------------------------------------------------
(* What the script decides, and what the reader keeps.                     *)

\* What the script alone decides stays as it is while the script does.
LEMMA Frozen ==
    ASSUME script' = script, stream'.kind = stream.kind
    PROVE  /\ Lines' = Lines
           /\ Ndjson' <=> Ndjson
           /\ \A l : LengthOf(l)' = LengthOf(l)
           /\ \A r : Bytes(r)' = Bytes(r)
           /\ \A r : HasStop(r)' <=> HasStop(r)
           /\ \A s, l, r, h, t : Reads(s, l, r, h, t)' <=> Reads(s, l, r, h, t)
           /\ Expected' = Expected
           /\ TooLarge' <=> TooLarge
<1>1. Lines' = Lines BY DEF Lines
<1>2. Ndjson' <=> Ndjson BY DEF Ndjson
<1>3. ASSUME NEW l PROVE LengthOf(l)' = LengthOf(l) BY DEF LengthOf
<1>4. ASSUME NEW l PROVE Blank(l)' <=> Blank(l) BY DEF Blank
<1>5. ASSUME NEW r PROVE Bytes(r)' = Bytes(r) BY DEF Bytes, LengthOf
<1>6. ASSUME NEW r PROVE HasStop(r)' <=> HasStop(r) BY DEF HasStop
<1>7. ASSUME NEW l PROVE RecordFrom(l)' = RecordFrom(l) BY DEF RecordFrom, Ndjson, Blank
<1>8. Records' = Records BY <1>1, <1>7 DEF Records
<1>9. Places' = Places BY DEF Places, Lines, Starts, Carries, Done, RecordFrom, Ndjson, Blank, Payload
<1>10. ASSUME NEW l PROVE Starts(l)' <=> Starts(l) BY <1>2, <1>4 DEF Starts
<1>11. ASSUME NEW s, NEW l, NEW r, NEW h, NEW t PROVE Reads(s, l, r, h, t)' <=> Reads(s, l, r, h, t)
  BY <1>1, <1>2, <1>4, <1>5, <1>8, <1>9, <1>10 DEF Reads
<1>12. Expected' = Expected BY <1>8, <1>9 DEF Expected, Records, Places
<1>13. TooLarge' <=> TooLarge BY <1>1, <1>5, <1>7, <1>10 DEF TooLarge
<1> QED BY <1>1, <1>2, <1>3, <1>5, <1>6, <1>11, <1>12, <1>13

----------------------------------------------------------------------------
(* Numbers, and what is kept.                                              *)

\* A set of numbers that has one has a least.
LEMMA Least ==
    ASSUME NEW n \in Nat, NEW S \in SUBSET (1..n), S # {}
    PROVE  Min(S) \in S /\ \A x \in S : Min(S) <= x
<1> DEFINE T == {k \in 0..n : \A x \in S : k < x}
<1>1. SUFFICES \E x \in S : \A y \in S : x <= y BY DEF Min
<1>2. SUFFICES ASSUME \A x \in S : \E y \in S : ~(x <= y) PROVE FALSE OBVIOUS
<1>3. 0 \in T OBVIOUS
<1>4. ASSUME NEW k \in 1..n, k - 1 \in T PROVE k \in T
  <2>1. \A x \in S : k <= x BY <1>4
  <2>2. k \notin S BY <2>1, <1>2
  <2>3. ASSUME NEW x \in S PROVE k < x BY <2>1, <2>2, <2>3
  <2> QED BY <2>3
<1>5. 0..n \subseteq T
  <2> HIDE DEF T
  <2>1. \A k \in 1..n : k - 1 \in T => k \in T BY <1>4
  <2> QED BY <1>3, <2>1, UpTo, Zenon
<1>6. PICK x \in S : TRUE OBVIOUS
<1>7. x \in T BY <1>5, <1>6
<1> QED BY <1>6, <1>7

\* Of two numbers Min is one, and at most the other.
LEMMA MinOfTwo ==
    ASSUME NEW a \in Int, NEW b \in Int
    PROVE  Min({a, b}) \in {a, b} /\ Min({a, b}) <= a /\ Min({a, b}) <= b
<1>1. \E x \in {a, b} : \A y \in {a, b} : x <= y
  <2>1. CASE a <= b BY <2>1
  <2>2. CASE b <= a BY <2>2
  <2> QED BY <2>1, <2>2
<1>2. Min({a, b}) \in {a, b} /\ \A y \in {a, b} : Min({a, b}) <= y BY <1>1 DEF Min
<1> QED BY <1>2

\* Where there is nothing to keep, what is kept stays as it is.
LEMMA KeptSame ==
    ASSUME NEW S, NEW list \in Seq(S), NEW places, NEW i \in 0..Len(list), NEW j \in i..Len(list),
           \A k \in (i + 1)..j : k \notin places
    PROVE  Kept(list, places)[j] = Kept(list, places)[i]
<1> DEFINE T == {d \in 0..(j - i) : Kept(list, places)[i + d] = Kept(list, places)[i]}
<1>1. j - i \in Nat OBVIOUS
<1>2. 0 \in T OBVIOUS
<1>3. ASSUME NEW d \in 1..(j - i), d - 1 \in T PROVE d \in T
  <2>1. i + d \in 1..Len(list) /\ i + d \in (i + 1)..j /\ (i + d) - 1 = i + (d - 1) OBVIOUS
  <2>2. Kept(list, places)[i + d] = Kept(list, places)[(i + d) - 1] BY <2>1, KeptUnfolds
  <2> QED BY <1>3, <2>1, <2>2
<1>4. 0..(j - i) \subseteq T
  <2> HIDE DEF T
  <2>1. \A d \in 1..(j - i) : d - 1 \in T => d \in T BY <1>3
  <2> QED BY <1>1, <1>2, <2>1, UpTo, Zenon
<1>5. j - i \in T
  <2> HIDE DEF T
  <2>1. j - i \in 0..(j - i) OBVIOUS
  <2> QED BY <2>1, <1>4
<1> QED BY <1>5

\* What is kept of the first elements begins what is kept of them all.
LEMMA KeptPrefix ==
    ASSUME NEW S, NEW list \in Seq(S), NEW places, NEW i \in 0..Len(list)
    PROVE  IsPrefix(Kept(list, places)[i], Only(list, places))
<1> DEFINE n == Len(list)
           T == {d \in 0..(n - i) : IsPrefix(Kept(list, places)[i], Kept(list, places)[i + d])}
<1>0. PICK kept : kept = Kept(list, places) OBVIOUS
<1>1. /\ n \in Nat /\ kept \in [0..n -> Seq(S)]
      /\ \A k \in 1..n : kept[k] = IF k \in places THEN Append(kept[k - 1], list[k]) ELSE kept[k - 1]
    BY <1>0, KeptUnfolds
<1>2. PICK first \in Seq(S) : first = kept[i] BY <1>1
<1>3. 0 \in T
  <2>1. IsPrefix(first, first) BY DEF IsPrefix
  <2> QED BY <2>1, <1>0, <1>2
<1>4. ASSUME NEW d \in 1..(n - i), d - 1 \in T PROVE d \in T
  <2>1. i + d \in 1..n /\ i + (d - 1) \in 0..n /\ (i + d) - 1 = i + (d - 1) OBVIOUS
  <2>2. PICK old \in Seq(S) : old = kept[i + (d - 1)] BY <1>1, <2>1
  <2>3. IsPrefix(first, old) BY <1>0, <1>2, <1>4, <2>2
  <2>4. list[i + d] \in S BY <2>1
  <2>5. IsPrefix(first, Append(old, list[i + d])) BY <2>3, <2>4 DEF IsPrefix
  <2>6. kept[i + d] = Append(old, list[i + d]) \/ kept[i + d] = old BY <1>1, <2>1, <2>2
  <2>7. IsPrefix(first, kept[i + d])
    <3>1. CASE kept[i + d] = old BY <3>1, <2>3, Zenon
    <3>2. CASE kept[i + d] # old
      <4>1. kept[i + d] = Append(old, list[i + d]) BY <3>2, <2>6
      <4> QED BY <4>1, <2>5, Zenon
    <3> QED BY <3>1, <3>2
  <2>8. d \in 0..(n - i) OBVIOUS
  <2> QED BY <2>7, <2>8, <1>0, <1>2, Zenon
<1>5. 0..(n - i) \subseteq T
  <2> HIDE DEF T
  <2>1. n - i \in Nat OBVIOUS
  <2>2. \A d \in 1..(n - i) : d - 1 \in T => d \in T BY <1>4
  <2> QED BY <1>3, <2>1, <2>2, UpTo, Zenon
<1>6. n - i \in T
  <2> HIDE DEF T
  <2>1. n - i \in 0..(n - i) OBVIOUS
  <2> QED BY <2>1, <1>5
<1> QED BY <1>6 DEF Only

----------------------------------------------------------------------------
(* The bytes of a record.                                                  *)

ScriptOK == script \in [lines : Seq(Line), ended : BOOLEAN]

LEMMA Lengths ==
    ASSUME ScriptOK
    PROVE  Len(script.lines) \in Nat /\ \A l \in Lines : LengthOf(l) \in Nat
<1>1. script.lines \in Seq(Line) BY DEF ScriptOK
<1>2. ASSUME NEW l \in Lines PROVE LengthOf(l) \in Nat
  <2>1. script.lines[l] \in Line BY <1>1 DEF Lines
  <2>2. script.lines[l].len \in Nat /\ script.lines[l].len >= 1 BY <2>1, RecordsConstants DEF Line
  <2> QED BY <2>2 DEF LengthOf
<1> QED BY <1>1, <1>2

\* The equation of Bytes: f is the sum up to each place.
Sums(f, r) ==
    /\ f \in [0..Len(r) -> Nat] /\ f[0] = 0
    /\ \A i \in 1..Len(r) : f[i] = f[i - 1] + LengthOf(r[i])
    /\ Bytes(r) = f[Len(r)]

LEMMA BytesUnfolds ==
    ASSUME ScriptOK, NEW r \in Seq(Lines)
    PROVE  \E f : Sums(f, r)
<1> DEFINE n == Len(r)
           Def(f) == [i \in 0..n |-> IF i = 0 THEN 0 ELSE f[i - 1] + LengthOf(r[i])]
           step == [p \in (1..n) \X Nat |-> p[2] + LengthOf(r[p[1]])]
<1>1. n \in Nat /\ 0 \in Nat OBVIOUS
<1>2. \A i \in 1..n : LengthOf(r[i]) \in Nat
  <2>1. ASSUME NEW i \in 1..n PROVE r[i] \in Lines OBVIOUS
  <2> QED BY <2>1, Lengths
<1>3. step \in [(1..n) \X Nat -> Nat]
  <2>1. ASSUME NEW p \in (1..n) \X Nat PROVE p[2] + LengthOf(r[p[1]]) \in Nat
    <3>1. LengthOf(r[p[1]]) \in Nat /\ p[2] \in Nat BY <1>2
    <3> QED BY <3>1
  <2> QED BY <2>1
<1>4. PICK f \in [0..n -> Nat] : Solves(f, n, 0, step)
  <2> HIDE DEF step, n
  <2> QED BY <1>1, <1>3, Recursion, Zenon
<1>5. \A i \in 1..n : f[i] = f[i - 1] + LengthOf(r[i])
  <2>1. ASSUME NEW i \in 1..n PROVE f[i] = f[i - 1] + LengthOf(r[i])
    <3>0. i - 1 \in 0..n BY <1>1
    <3>1. f[i - 1] \in Nat BY <1>4, <3>0
    <3>2. f[i] = step[<<i, f[i - 1]>>] BY <1>4 DEF Solves
    <3> QED BY <3>1, <3>2
  <2> QED BY <2>1
<1>6. f = Def(f)
  <2>1. ASSUME NEW i \in 0..n PROVE f[i] = Def(f)[i]
    <3>1. CASE i = 0 BY <3>1, <1>4 DEF Solves
    <3>2. CASE i # 0
      <4>1. i \in 1..n BY <3>2
      <4> QED BY <4>1, <3>2, <1>5
    <3> QED BY <3>1, <3>2
  <2> QED BY <2>1, <1>4
<1>7. PICK g : g = CHOOSE h : h = Def(h) OBVIOUS
<1>8. g = Def(g) BY <1>6, <1>7
<1>9. Bytes(r) = g[n] BY <1>7 DEF Bytes
<1>10. DOMAIN g = 0..n /\ g[0] = 0 BY <1>8
<1>11. \A i \in 1..n : g[i] = g[i - 1] + LengthOf(r[i])
  <2>1. ASSUME NEW i \in 1..n PROVE g[i] = g[i - 1] + LengthOf(r[i])
    <3>1. i \in 0..n /\ i # 0 OBVIOUS
    <3>2. g[i] = Def(g)[i] BY <1>8
    <3> HIDE <1>8
    <3> QED BY <3>1, <3>2
  <2> QED BY <2>1
<1>12. g \in [0..n -> Nat]
  <2> DEFINE T == {i \in 0..n : g[i] \in Nat}
  <2>1. 0 \in T BY <1>10
  <2>2. ASSUME NEW i \in 1..n, i - 1 \in T PROVE i \in T
    <3>1. LengthOf(r[i]) \in Nat /\ g[i - 1] \in Nat /\ i \in 0..n BY <2>2, <1>2
    <3>2. g[i] = g[i - 1] + LengthOf(r[i]) BY <1>11
    <3> QED BY <3>1, <3>2
  <2>3. 0..n \subseteq T
    <3> HIDE DEF T
    <3>1. \A i \in 1..n : i - 1 \in T => i \in T BY <2>2
    <3> QED BY <2>1, <3>1, <1>1, UpTo, Zenon
  <2>4. \A i \in 0..n : g[i] \in Nat BY <2>3
  <2>5. g = [i \in 0..n |-> g[i]] BY <1>8
  <2> QED BY <2>4, <2>5
<1>13. Sums(g, r) BY <1>9, <1>10, <1>11, <1>12 DEF Sums
<1> QED BY <1>13

\* A record that begins with another holds at least its bytes.
LEMMA BytesOfPrefix ==
    ASSUME ScriptOK, NEW r \in Seq(Lines), NEW q \in Seq(Lines), Len(r) <= Len(q),
           \A i \in 1..Len(r) : q[i] = r[i]
    PROVE  /\ Bytes(r) \in Nat /\ Bytes(q) \in Nat /\ Bytes(r) <= Bytes(q)
           /\ Len(q) = Len(r) + 1 => Bytes(q) = Bytes(r) + LengthOf(q[Len(q)])
<1>1. PICK f : Sums(f, r) BY BytesUnfolds
<1>2. PICK g : Sums(g, q) BY BytesUnfolds
<1>3. /\ f \in [0..Len(r) -> Nat] /\ f[0] = 0 /\ Bytes(r) = f[Len(r)]
      /\ \A i \in 1..Len(r) : f[i] = f[i - 1] + LengthOf(r[i])
    BY <1>1 DEF Sums
<1>4. /\ g \in [0..Len(q) -> Nat] /\ g[0] = 0 /\ Bytes(q) = g[Len(q)]
      /\ \A i \in 1..Len(q) : g[i] = g[i - 1] + LengthOf(q[i])
    BY <1>2 DEF Sums
<1>5. Len(r) \in Nat /\ Len(q) \in Nat OBVIOUS
<1>6. g[Len(r)] = f[Len(r)]
  <2> DEFINE T == {i \in 0..Len(r) : g[i] = f[i]}
  <2>1. 0 \in T BY <1>3, <1>4
  <2>2. ASSUME NEW i \in 1..Len(r), i - 1 \in T PROVE i \in T
    <3>1. i \in 1..Len(q) /\ i \in 0..Len(r) /\ g[i - 1] = f[i - 1] /\ q[i] = r[i] BY <2>2, <1>5
    <3>2. f[i] = f[i - 1] + LengthOf(r[i]) BY <1>3
    <3>3. g[i] = g[i - 1] + LengthOf(q[i]) BY <3>1, <1>4
    <3>4. g[i] = f[i] BY <3>1, <3>2, <3>3
    <3> QED BY <3>1, <3>4
  <2> HIDE DEF T
  <2>3. \A i \in 1..Len(r) : i - 1 \in T => i \in T BY <2>2
  <2>4. 0..Len(r) \subseteq T BY <2>1, <2>3, <1>5, UpTo, Zenon
  <2>5. Len(r) \in T BY <2>4, <1>5
  <2> QED BY <2>5 DEF T
<1>7. f[Len(r)] <= g[Len(q)]
  <2> DEFINE m == Len(r)
             T == {d \in 0..(Len(q) - m) : f[m] <= g[m + d]}
  <2>1. 0 \in T BY <1>3, <1>5, <1>6
  <2>2. ASSUME NEW d \in 1..(Len(q) - m), d - 1 \in T PROVE d \in T
    <3>1. m + d \in 1..Len(q) /\ (m + d) - 1 = m + (d - 1) /\ m + (d - 1) \in 0..Len(q) BY <1>5
    <3>2. g[m + d] = g[m + (d - 1)] + LengthOf(q[m + d]) BY <3>1, <1>4
    <3>3. LengthOf(q[m + d]) \in Nat
      <4>1. q[m + d] \in Lines BY <3>1
      <4> QED BY <4>1, Lengths
    <3>4. f[m] <= g[m + (d - 1)] BY <2>2
    <3>5. f[m] \in Nat /\ g[m + (d - 1)] \in Nat
      <4>1. m \in 0..m BY <1>5
      <4>2. f[m] \in Nat BY <4>1, <1>3
      <4>3. g[m + (d - 1)] \in Nat BY <3>1, <1>4
      <4> QED BY <4>2, <4>3
    <3>6. f[m] <= g[m + d] BY <3>2, <3>3, <3>4, <3>5
    <3> QED BY <3>6
  <2>3. 0..(Len(q) - m) \subseteq T
    <3> HIDE DEF T
    <3>1. Len(q) - m \in Nat BY <1>5
    <3>2. \A d \in 1..(Len(q) - m) : d - 1 \in T => d \in T BY <2>2
    <3> HIDE DEF m
    <3> QED BY <2>1, <3>1, <3>2, UpTo, Zenon
  <2>4. Len(q) - m \in T
    <3> HIDE DEF T
    <3> QED BY <2>3, <1>5
  <2>5. f[m] <= g[m + (Len(q) - m)] /\ m + (Len(q) - m) = Len(q) BY <2>4, <1>5
  <2> QED BY <2>5
<1>8. Bytes(r) \in Nat /\ Bytes(q) \in Nat BY <1>3, <1>4, <1>5
<1>9. ASSUME Len(q) = Len(r) + 1 PROVE Bytes(q) = Bytes(r) + LengthOf(q[Len(q)])
  <2>1. Len(q) \in 1..Len(q) /\ Len(q) - 1 = Len(r) BY <1>9, <1>5
  <2>2. g[Len(q)] = g[Len(q) - 1] + LengthOf(q[Len(q)]) BY <2>1, <1>4
  <2> QED BY <2>1, <2>2, <1>3, <1>4, <1>6
<1>10. Bytes(r) <= Bytes(q) BY <1>3, <1>4, <1>7
<1> QED BY <1>8, <1>9, <1>10

----------------------------------------------------------------------------
(* Records as runs of lines.                                               *)

LEMMA RunIs ==
    ASSUME ScriptOK, NEW s \in 1..(Len(script.lines) + 1), NEW e \in (s - 1)..Len(script.lines)
    PROVE  /\ Run(s, e) \in Seq(Lines) /\ Run(s, e) \in Seq(Nat) /\ Len(Run(s, e)) = e - s + 1
           /\ \A i \in 1..(e - s + 1) : Run(s, e)[i] = s + i - 1
           /\ s = e + 1 => Run(s, e) = <<>>
           /\ e >= s => Append(Run(s, e - 1), e) = Run(s, e)
<1> DEFINE n == Len(script.lines)
<1>1. n \in Nat BY Lengths
<1>2. e - s + 1 \in Nat /\ \A i \in 1..(e - s + 1) : s + i - 1 \in Lines /\ s + i - 1 \in Nat BY <1>1 DEF Lines
<1>3. Run(s, e) \in Seq(Lines) /\ Run(s, e) \in Seq(Nat) /\ Len(Run(s, e)) = e - s + 1
  <2>1. PICK m \in Nat : m = e - s + 1 BY <1>2
  <2>2. PICK r : r = [i \in 1..m |-> s + i - 1] OBVIOUS
  <2>3. \A i \in 1..m : s + i - 1 \in Lines /\ s + i - 1 \in Nat BY <1>2, <2>1
  <2>4. r \in [1..m -> Lines] /\ r \in [1..m -> Nat] BY <2>2, <2>3
  <2>5. r \in Seq(Lines) /\ Len(r) = m BY <2>4
  <2>6. r \in Seq(Nat) BY <2>4
  <2> QED BY <2>1, <2>2, <2>5, <2>6 DEF Run
<1>4. \A i \in 1..(e - s + 1) : Run(s, e)[i] = s + i - 1 BY DEF Run
<1>5. s = e + 1 => Run(s, e) = <<>> BY <1>1 DEF Run
<1>6. ASSUME e >= s PROVE Append(Run(s, e - 1), e) = Run(s, e)
  <2>1. (e - 1) - s + 1 \in Nat /\ e - s + 1 = ((e - 1) - s + 1) + 1 BY <1>6, <1>1
  <2>2. \A i \in 1..((e - 1) - s + 1) : s + i - 1 \in Nat BY <1>1
  <2>3. Run(s, e - 1) \in Seq(Nat) /\ Len(Run(s, e - 1)) = (e - 1) - s + 1 BY <2>1, <2>2 DEF Run
  <2>4. \A i \in 1..((e - 1) - s + 1) : Run(s, e - 1)[i] = s + i - 1 BY DEF Run
  <2>5. PICK a : a = Append(Run(s, e - 1), e) OBVIOUS
  <2>6. a \in Seq(Nat) /\ Len(a) = e - s + 1
    <3>1. PICK b \in Seq(Nat) : b = Run(s, e - 1) BY <2>3
    <3>2. e \in Nat /\ s \in Nat BY <1>6, <1>1
    <3>3. a \in Seq(Nat) /\ Len(a) = Len(b) + 1 BY <3>1, <3>2, <2>5
    <3>4. Len(b) = (e - 1) - s + 1 BY <3>1, <2>3
    <3> QED BY <3>2, <3>3, <3>4
  <2>7. \A i \in 1..Len(a) : a[i] = Run(s, e)[i]
    <3>1. ASSUME NEW i \in 1..Len(a) PROVE a[i] = s + i - 1
      <4>1. CASE i = Len(a) BY <4>1, <2>1, <2>3, <2>5, <2>6
      <4>2. CASE i # Len(a)
        <5>1. i \in 1..((e - 1) - s + 1) BY <4>2, <2>1, <2>6
        <5>2. a[i] = Run(s, e - 1)[i] BY <5>1, <2>3, <2>5
        <5> QED BY <5>1, <5>2, <2>4
      <4> QED BY <4>1, <4>2
    <3> QED BY <3>1, <1>4, <2>6
  <2>8. Run(s, e) \in Seq(Nat) /\ Len(Run(s, e)) = Len(a) BY <1>3, <2>6
  <2>9. PICK b \in Seq(Nat) : b = Run(s, e) BY <1>3
  <2>10. a = b BY <2>6, <2>7, <2>8, <2>9
  <2> QED BY <2>5, <2>9, <2>10
<1> QED BY <1>3, <1>4, <1>5, <1>6

\* The bytes of a run are those of the run before its last line, and the line's.
LEMMA RunBytes ==
    ASSUME ScriptOK, NEW s \in 1..(Len(script.lines) + 1), NEW e \in (s - 1)..Len(script.lines),
           NEW d \in (s - 1)..e
    PROVE  /\ Bytes(Run(s, e)) \in Nat /\ Bytes(Run(s, d)) <= Bytes(Run(s, e))
           /\ Bytes(<<>>) = 0
           /\ d = e - 1 => Bytes(Run(s, e)) = Bytes(Run(s, d)) + LengthOf(e)
<1>1. d \in (s - 1)..Len(script.lines) BY Lengths
<1>2. PICK r \in Seq(Lines) : r = Run(s, d) BY <1>1, RunIs
<1>3. PICK q \in Seq(Lines) : q = Run(s, e) BY RunIs
<1>4. Len(r) = d - s + 1 /\ \A i \in 1..(d - s + 1) : r[i] = s + i - 1 BY <1>1, <1>2, RunIs
<1>5. Len(q) = e - s + 1 /\ \A i \in 1..(e - s + 1) : q[i] = s + i - 1 BY <1>3, RunIs
<1>6. Len(r) <= Len(q) /\ \A i \in 1..Len(r) : q[i] = r[i] BY <1>1, <1>4, <1>5, Lengths
<1>7. /\ Bytes(q) \in Nat /\ Bytes(r) <= Bytes(q)
      /\ Len(q) = Len(r) + 1 => Bytes(q) = Bytes(r) + LengthOf(q[Len(q)])
    BY <1>6, BytesOfPrefix
<1>8. ASSUME d = e - 1 PROVE Bytes(q) = Bytes(r) + LengthOf(e)
  <2>1. Len(q) = Len(r) + 1 /\ q[Len(q)] = e BY <1>8, <1>4, <1>5, Lengths
  <2> QED BY <2>1, <1>7
<1>9. Bytes(<<>>) = 0
  <2>1. <<>> \in Seq(Lines) /\ Len(<<>>) = 0 OBVIOUS
  <2>2. PICK f : Sums(f, <<>>) BY <2>1, BytesUnfolds, Zenon
  <2> QED BY <2>1, <2>2 DEF Sums
<1> QED BY <1>2, <1>3, <1>7, <1>8, <1>9

\* A record goes on to the first blank line, or to the end.
LEMMA RecordGoes ==
    ASSUME ScriptOK, NEW s \in Lines, ~Ndjson
    PROVE  \E e \in s..Len(script.lines) :
            /\ RecordFrom(s) = Run(s, e)
            /\ \A k \in s..(e - 1) : ~Blank(k)
            /\ Blank(e) \/ e = Len(script.lines)
<1> DEFINE n == Len(script.lines)
           S == {k \in s..n : Blank(k)} \cup {n}
<1>1. n \in Nat /\ s \in 1..n BY Lengths DEF Lines
<1>2. S \in SUBSET (1..n) /\ S # {} BY <1>1
<1>3. PICK e : e = Min(S) OBVIOUS
<1>4. e \in S /\ \A x \in S : e <= x
  <2> HIDE DEF S, n
  <2> QED BY <1>1, <1>2, <1>3, Least
<1>5. e \in s..n /\ (Blank(e) \/ e = n) BY <1>1, <1>4
<1>6. ASSUME NEW k \in s..(e - 1) PROVE ~Blank(k)
  <2>1. k \in s..n /\ ~(e <= k) BY <1>1, <1>5
  <2> QED BY <2>1, <1>4
<1>7. RecordFrom(s) = Run(s, e) BY <1>3 DEF RecordFrom, Run
<1> QED BY <1>5, <1>6, <1>7

\* An NDJSON record is its line.
LEMMA RecordOfLine ==
    ASSUME ScriptOK, NEW l \in Lines, Ndjson
    PROVE  RecordFrom(l) = Run(l, l) /\ Run(l, l) = <<l>>
<1>1. l \in Nat BY Lengths DEF Lines
<1>2. RecordFrom(l) = Run(l, l) BY DEF RecordFrom, Run
<1>3. Run(l, l) = <<l>>
  <2>1. l - l + 1 = 1 /\ \A i \in 1..1 : l + i - 1 = l BY <1>1
  <2> QED BY <2>1 DEF Run
<1> QED BY <1>2, <1>3

LEMMA RecordsAre == ASSUME ScriptOK PROVE Records \in Seq(Seq(Nat)) /\ Len(Records) = Len(script.lines)
<1>1. Len(script.lines) \in Nat BY Lengths
<1>2. ASSUME NEW l \in Lines PROVE RecordFrom(l) \in Seq(Nat)
  <2>1. l \in 1..Len(script.lines) BY DEF Lines
  <2>2. \E e \in l..Len(script.lines) : RecordFrom(l) = Run(l, e)
    <3>1. CASE Ndjson BY <3>1, <2>1, RecordOfLine
    <3>2. CASE ~Ndjson BY <3>2, RecordGoes
    <3> QED BY <3>1, <3>2
  <2> QED BY <2>1, <2>2, <1>1, RunIs
<1>3. PICK records : records = Records OBVIOUS
<1>4. records \in [1..Len(script.lines) -> Seq(Nat)] BY <1>2, <1>3 DEF Records, Lines
<1>5. records \in Seq(Seq(Nat)) /\ Len(records) = Len(script.lines) BY <1>1, <1>4
<1> QED BY <1>3, <1>5

\* The blank line that ends a record is no part of its data.
LEMMA BlankIsNoData ==
    ASSUME ScriptOK, NEW s \in Lines, NEW e \in s..Len(script.lines), Blank(e)
    PROVE  Payload(Run(s, e)) <=> Payload(Run(s, e - 1))
<1> DEFINE Data(r) == {i \in DOMAIN r : script.lines[r[i]].kind \in {"data", "empty", "stop"}}
<1>1. Len(script.lines) \in Nat /\ s \in 1..Len(script.lines) BY Lengths DEF Lines
<1>2. e - 1 \in (s - 1)..Len(script.lines) /\ e \in (s - 1)..Len(script.lines) BY <1>1
<1>3. PICK r : r = Run(s, e) OBVIOUS
<1>4. PICK q : q = Run(s, e - 1) OBVIOUS
<1>5. DOMAIN r = 1..(e - s + 1) /\ \A i \in 1..(e - s + 1) : r[i] = s + i - 1 BY <1>3 DEF Run
<1>6. DOMAIN q = 1..(e - s) /\ \A i \in 1..(e - s) : q[i] = s + i - 1
  <2>1. (e - 1) - s + 1 = e - s BY <1>1
  <2> QED BY <1>4, <2>1 DEF Run
<1>7. Data(r) = Data(q) /\ \A i \in Data(q) : r[i] = q[i]
  <2>1. ASSUME NEW i \in 1..(e - s + 1) PROVE i \in Data(r) <=> i \in Data(q)
    <3>1. CASE i = e - s + 1
      <4>1. r[i] = e BY <3>1, <1>1, <1>5
      <4>2. i \notin DOMAIN q BY <3>1, <1>1, <1>6
      <4> QED BY <4>1, <4>2 DEF Blank
    <3>2. CASE i # e - s + 1
      <4>1. i \in 1..(e - s) BY <3>2, <1>1
      <4>2. r[i] = q[i] BY <4>1, <1>5, <1>6
      <4> QED BY <4>1, <4>2, <1>5, <1>6
    <3> QED BY <3>1, <3>2
  <2>2. \A i \in 1..(e - s) : i \in 1..(e - s + 1) BY <1>1
  <2> QED BY <2>1, <2>2, <1>5, <1>6
<1>8. Payload(r) <=> Payload(q)
  <2>1. Payload(r) <=> \/ \E i \in Data(r) : script.lines[r[i]].kind # "empty"
                       \/ \E i, k \in Data(r) : i # k BY DEF Payload
  <2>2. Payload(q) <=> \/ \E i \in Data(q) : script.lines[q[i]].kind # "empty"
                       \/ \E i, k \in Data(q) : i # k BY DEF Payload
  <2> HIDE DEF Data
  <2> QED BY <2>1, <2>2, <1>7
<1> QED BY <1>3, <1>4, <1>8

\* Once the record of an SSE stream that begins at line s is read, it is kept if it
\* carries data, and no other of its lines begins a record.
LEMMA RecordKept ==
    ASSUME ScriptOK, ~Ndjson, NEW s \in Lines, Starts(s), NEW e \in s..Len(script.lines),
           \A k \in s..(e - 1) : ~Blank(k), Blank(e) \/ e = Len(script.lines)
    PROVE  /\ RecordFrom(s) = Run(s, e)
           /\ Kept(Records, Places)[e] =
                IF Payload(Run(s, e)) THEN Append(Kept(Records, Places)[s - 1], Run(s, e))
                ELSE Kept(Records, Places)[s - 1]
<1>1. Len(script.lines) \in Nat /\ s \in 1..Len(script.lines) BY Lengths DEF Lines
<1>2. RecordFrom(s) = Run(s, e)
  <2>1. PICK f \in s..Len(script.lines) :
            /\ RecordFrom(s) = Run(s, f)
            /\ \A k \in s..(f - 1) : ~Blank(k)
            /\ Blank(f) \/ f = Len(script.lines)
      BY RecordGoes
  <2>2. f = e
    <3>1. CASE f < e
      <4>1. f \in s..(e - 1) /\ f # Len(script.lines) BY <3>1, <1>1
      <4> QED BY <4>1, <2>1
    <3>2. CASE e < f
      <4>1. e \in s..(f - 1) /\ e # Len(script.lines) BY <3>2, <1>1
      <4> QED BY <4>1, <2>1
    <3> QED BY <3>1, <3>2, <1>1
  <2> QED BY <2>1, <2>2
<1>3. s \in Places <=> Payload(Run(s, e)) BY <1>2 DEF Places, Carries, Done
<1>4. \A k \in (s + 1)..e : k \notin Places
  <2>1. ASSUME NEW k \in (s + 1)..e PROVE ~Starts(k)
    <3>1. k # 1 /\ k - 1 \in s..(e - 1) BY <1>1
    <3> QED BY <3>1 DEF Starts
  <2> QED BY <2>1 DEF Places
<1>5. PICK records \in Seq(Seq(Nat)) : records = Records BY RecordsAre
<1>6. PICK places : places = Places OBVIOUS
<1>7. Len(records) = Len(script.lines) BY <1>5, RecordsAre
<1>8. s \in 0..Len(records) /\ e \in s..Len(records) /\ s \in 1..Len(records) BY <1>1, <1>7
<1>9. Kept(records, places)[e] = Kept(records, places)[s] BY <1>4, <1>6, <1>8, KeptSame
<1>10. Kept(records, places)[s] = IF s \in places THEN Append(Kept(records, places)[s - 1], records[s])
                                  ELSE Kept(records, places)[s - 1]
  BY <1>8, KeptUnfolds
<1>11. records[s] = Run(s, e) BY <1>2, <1>5 DEF Records
<1> QED BY <1>2, <1>3, <1>5, <1>6, <1>9, <1>10, <1>11, Zenon

\* Of an NDJSON stream that is not done, a line is kept if it carries something, and
\* nothing after it if it says done.
LEMMA EventKept ==
    ASSUME ScriptOK, Ndjson, NEW l \in Lines,
           \A k \in 1..(l - 1) : script.lines[k].kind \notin {"last", "stop"}
    PROVE  /\ Kept(Records, Places)[l] =
                IF script.lines[l].kind \in {"data", "last", "stop"}
                THEN Append(Kept(Records, Places)[l - 1], <<l>>)
                ELSE Kept(Records, Places)[l - 1]
           /\ script.lines[l].kind \in {"last", "stop"} => Expected = Kept(Records, Places)[l]
<1>1. Len(script.lines) \in Nat /\ l \in 1..Len(script.lines) BY Lengths DEF Lines
<1>2. RecordFrom(l) = <<l>> BY RecordOfLine
<1>3. l \in Places <=> script.lines[l].kind \in {"data", "last", "stop"}
  <2>1. ~Done(l) /\ Starts(l) BY DEF Done, Starts
  <2>2. <<l>>[1] = l OBVIOUS
  <2>3. Carries(<<l>>) <=> script.lines[l].kind \in {"data", "last", "stop"} BY <2>2 DEF Carries
  <2> QED BY <1>2, <2>1, <2>3 DEF Places
<1>5. PICK records \in Seq(Seq(Nat)) : records = Records BY RecordsAre
<1>6. PICK places : places = Places OBVIOUS
<1>7. Len(records) = Len(script.lines) BY <1>5, RecordsAre
<1>8. Kept(records, places)[l] = IF l \in places THEN Append(Kept(records, places)[l - 1], records[l])
                                 ELSE Kept(records, places)[l - 1]
  BY <1>1, <1>7, KeptUnfolds
<1>9. records[l] = <<l>> BY <1>2, <1>5 DEF Records
<1>10. ASSUME script.lines[l].kind \in {"last", "stop"} PROVE Expected = Kept(Records, Places)[l]
  <2>1. \A k \in (l + 1)..Len(records) : k \notin places
    <3>1. ASSUME NEW k \in (l + 1)..Len(records) PROVE Done(k)
      <4>1. l \in 1..(k - 1) BY <1>1, <1>7
      <4> QED BY <4>1, <1>10 DEF Done
    <3> QED BY <3>1, <1>6 DEF Places
  <2>2. l \in 0..Len(records) /\ Len(records) \in l..Len(records) BY <1>1, <1>7
  <2>3. Kept(records, places)[Len(records)] = Kept(records, places)[l] BY <2>1, <2>2, KeptSame
  <2>4. Expected = Only(records, places) BY <1>5, <1>6 DEF Expected, Records, Places
  <2> QED BY <2>3, <2>4, <1>5, <1>6 DEF Only
<1> QED BY <1>3, <1>5, <1>6, <1>8, <1>9, <1>10, Zenon

----------------------------------------------------------------------------
(* The steps of a reader.                                                  *)

LEMMA LessHeld == \A h, r, most \in Nat : h + r <= most => 0 + r <= most
OBVIOUS

LEMMA NothingRead == <<>> \in Seq(Nat)
OBVIOUS

LEMMA NothingYet == <<>> \in Seq(Seq(Nat))
OBVIOUS

\* The facts of the invariant about an open stream.
LEMMA OpenFacts ==
    ASSUME RecordsInv, ~Closed
    PROVE  /\ ScriptOK /\ Len(script.lines) \in Nat /\ MaxRecord \in Nat
           /\ at.line \in 1..(Len(script.lines) + 1) /\ at.read \in Nat /\ frame.held \in Nat
           /\ ~AtEnd => at.line \in Lines
           /\ AtEnd => at.line = Len(script.lines) + 1 /\ at.read = 0
           /\ \E s \in 1..at.line : Reads(s, at.line, frame.lines, frame.held, relayed)
<1>1. RecordsTypeOK BY DEF RecordsInv
<1>2. ScriptOK BY <1>1 DEF RecordsTypeOK, ScriptOK
<1>3. Len(script.lines) \in Nat BY <1>2, Lengths
<1>4. at.line \in Nat \ {0} /\ at.read \in Nat /\ frame.held \in Nat /\ at.line <= Len(script.lines) + 1
  BY <1>1 DEF RecordsTypeOK
<1>5. AtEnd => at.read = 0 BY <1>1 DEF RecordsTypeOK
<1>6. at.line \in 1..(Len(script.lines) + 1) BY <1>3, <1>4
<1>7. ~AtEnd => at.line \in Lines BY <1>3, <1>4 DEF AtEnd, Lines
<1>8. AtEnd => at.line = Len(script.lines) + 1 BY <1>3, <1>4 DEF AtEnd
<1> QED BY <1>2, <1>3, <1>4, <1>5, <1>6, <1>7, <1>8, RecordsConstants DEF RecordsInv

\* What has been relayed of a stream being read begins what is expected.
LEMMA ReadsPrefix ==
    ASSUME ScriptOK, NEW s, NEW l \in Nat, NEW lines, NEW held, NEW returned, Reads(s, l, lines, held, returned)
    PROVE  /\ IsPrefix(returned, Expected)
           /\ s = Len(script.lines) + 1 => returned = Expected
           /\ lines \in Seq(Nat) /\ held \in Nat
<1>1. PICK records \in Seq(Seq(Nat)) : records = Records BY RecordsAre
<1>2. PICK places : places = Places OBVIOUS
<1>3. Len(records) = Len(script.lines) /\ Len(script.lines) \in Nat BY <1>1, RecordsAre, Lengths
<1>4. Expected = Only(records, places) BY <1>1, <1>2 DEF Expected, Records, Places
<1>5. s \in 1..l /\ l <= Len(script.lines) + 1 /\ returned = Kept(records, places)[s - 1]
  BY <1>1, <1>2 DEF Reads
<1>7. s - 1 \in 0..Len(records)
  BY <1>3, <1>5
<1>8. IsPrefix(returned, Expected) BY <1>4, <1>5, <1>7, KeptPrefix
<1>9. ASSUME s = Len(script.lines) + 1 PROVE returned = Expected
  <2>1. s - 1 = Len(records) BY <1>3, <1>9
  <2> QED BY <2>1, <1>4, <1>5 DEF Only
<1>10. lines \in Seq(Nat) /\ held \in Nat
  <2>1. s \in 1..(Len(script.lines) + 1) /\ l - 1 \in (s - 1)..Len(script.lines) BY <1>3, <1>5
  <2>2. Run(s, l - 1) \in Seq(Nat) BY <2>1, RunIs
  <2>3. l - 1 \in (s - 1)..(l - 1) BY <2>1, <1>3
  <2>4. Bytes(Run(s, l - 1)) \in Nat BY <2>1, <2>3, RunBytes
  <2> QED BY <2>2, <2>4 DEF Reads
<1> QED BY <1>8, <1>9, <1>10

\* What must hold of what is relayed, and of how the stream ends.
FramesSound(returned, stopped) ==
    /\ returned \in Seq(Seq(Nat))
    /\ \A i \in 1..Len(returned) : Bytes(returned[i]) <= MaxRecord
    /\ stopped => \E i \in 1..Len(returned) : HasStop(returned[i])

LEMMA FramesGrow ==
    ASSUME NEW returned, NEW stopped \in BOOLEAN, FramesSound(returned, stopped),
           NEW lines \in Seq(Nat), Bytes(lines) <= MaxRecord,
           NEW noted \in BOOLEAN, noted => stopped \/ HasStop(lines)
    PROVE  FramesSound(Append(returned, lines), noted)
<1>1. returned \in Seq(Seq(Nat)) BY DEF FramesSound
<1>2. PICK more : more = Append(returned, lines) OBVIOUS
<1>3. more \in Seq(Seq(Nat)) /\ Len(more) = Len(returned) + 1 BY <1>1, <1>2
<1>4. more[Len(returned) + 1] = lines /\ \A i \in 1..Len(returned) : more[i] = returned[i] BY <1>1, <1>2
<1>5. ASSUME NEW i \in 1..Len(more) PROVE Bytes(more[i]) <= MaxRecord
  <2>1. CASE i = Len(returned) + 1 BY <2>1, <1>4
  <2>2. CASE i # Len(returned) + 1
    <3>1. i \in 1..Len(returned) BY <2>2, <1>1, <1>3
    <3> QED BY <3>1, <1>4 DEF FramesSound
  <2> QED BY <2>1, <2>2
<1>6. ASSUME noted PROVE \E i \in 1..Len(more) : HasStop(more[i])
  <2>1. CASE HasStop(lines)
    <3>1. Len(returned) + 1 \in 1..Len(more) BY <1>1, <1>3
    <3> QED BY <3>1, <2>1, <1>4
  <2>2. CASE stopped
    <3>1. PICK i \in 1..Len(returned) : HasStop(returned[i]) BY <2>2 DEF FramesSound
    <3>2. i \in 1..Len(more) /\ more[i] = returned[i] BY <3>1, <1>1, <1>3, <1>4
    <3> QED BY <3>1, <3>2
  <2> QED BY <2>1, <2>2, <1>6
<1> QED BY <1>2, <1>3, <1>5, <1>6 DEF FramesSound

\* Every way to end an open stream.
LEMMA EndStep ==
    ASSUME RecordsInv, ~Closed, NEW how \in Endings \ {""},
           NEW permits \in {"none", "failover", "transient", "unusable"}, End(how, permits),
           how \in {"eof", "cut", "done", "nothing"} => relayed = Expected,
           how = "large" => TooLarge,
           stream.kind = "anthropic" /\ how = "eof" => stream.stopped
    PROVE  RecordsInv'
<1>1. RecordsTypeOK BY DEF RecordsInv
<1>2. PICK new : new = [stream EXCEPT !.end = how, !.permits = permits] OBVIOUS
<1>3. stream' = new /\ frame' = NoFrame /\ script' = script /\ at' = at /\ relayed' = relayed BY <1>2 DEF End
<1>4. stream \in [kind : StreamKinds, gone : BOOLEAN, stopped : BOOLEAN, emitted : BOOLEAN,
                  end : Endings, permits : {"none", "failover", "transient", "unusable"}]
  BY <1>1 DEF RecordsTypeOK
<1>5. /\ new \in [kind : StreamKinds, gone : BOOLEAN, stopped : BOOLEAN, emitted : BOOLEAN,
                  end : Endings, permits : {"none", "failover", "transient", "unusable"}]
      /\ new.kind = stream.kind /\ new.end = how /\ new.stopped = stream.stopped
  BY <1>2, <1>4
<1>6. stream'.kind = stream.kind BY <1>3, <1>5
<1>7. /\ \A l : LengthOf(l)' = LengthOf(l)
      /\ \A r : Bytes(r)' = Bytes(r)
      /\ \A r : HasStop(r)' <=> HasStop(r)
      /\ Expected' = Expected
      /\ TooLarge' <=> TooLarge
  BY <1>3, <1>6, Frozen, Zenon
<1>8. NoFrame.lines \in Seq(Nat) /\ NoFrame.held = 0 /\ NoFrame \in [lines : Seq(Nat), held : Nat]
  <2>1. <<>> \in Seq(Nat) BY NothingRead
  <2> QED BY <2>1 DEF NoFrame
<1>9. RecordsTypeOK'
  <2>1. AtEnd' <=> AtEnd BY <1>3 DEF AtEnd
  <2>2. (IF AtEnd THEN at.read = 0 ELSE at.read <= LengthOf(at.line))' BY <1>1, <1>3, <1>7, <2>1 DEF RecordsTypeOK
  <2>3. stream' \in [kind : StreamKinds, gone : BOOLEAN, stopped : BOOLEAN, emitted : BOOLEAN,
                     end : Endings, permits : {"none", "failover", "transient", "unusable"}]
    BY <1>3, <1>5
  <2> QED BY <2>2, <2>3, <1>1, <1>3, <1>8 DEF RecordsTypeOK
<1>10. (frame.held + at.read <= MaxRecord)'
  <2>1. at.read \in Nat /\ frame.held \in Nat /\ MaxRecord \in Nat BY OpenFacts
  <2>2. frame.held + at.read <= MaxRecord BY DEF RecordsInv
  <2>3. frame'.held = 0 /\ at'.read = at.read BY <1>3, <1>8
  <2> QED BY <2>1, <2>2, <2>3, LessHeld, Zenon
<1>11. (\A i \in 1..Len(relayed) : Bytes(relayed[i]) <= MaxRecord)' BY <1>3, <1>7 DEF RecordsInv
<1>12. (stream.stopped => \E i \in 1..Len(relayed) : HasStop(relayed[i]))'
  BY <1>3, <1>5, <1>7 DEF RecordsInv
<1>13. Closed' BY <1>3, <1>5 DEF Closed
<1>14. IsPrefix(relayed, Expected)' BY <1>3, <1>7 DEF RecordsInv
<1>15. (stream.end \in {"eof", "cut", "done", "nothing"} => relayed = Expected)' BY <1>3, <1>5, <1>7
<1>16. (stream.end = "large" => TooLarge)' BY <1>3, <1>5, <1>7
<1>17. (stream.kind = "anthropic" /\ stream.end = "eof" => stream.stopped)' BY <1>3, <1>5
<1> QED BY <1>9, <1>10, <1>11, <1>12, <1>13, <1>14, <1>15, <1>16, <1>17 DEF RecordsInv

LEMMA HangUpStep == ASSUME RecordsInv, HangUp PROVE RecordsInv'
<1>1. RecordsTypeOK BY DEF RecordsInv
<1>2. PICK new : new = [stream EXCEPT !.gone = TRUE] OBVIOUS
<1>3. stream' = new /\ frame' = frame /\ script' = script /\ at' = at /\ relayed' = relayed BY <1>2 DEF HangUp
<1>4. stream \in [kind : StreamKinds, gone : BOOLEAN, stopped : BOOLEAN, emitted : BOOLEAN,
                  end : Endings, permits : {"none", "failover", "transient", "unusable"}]
  BY <1>1 DEF RecordsTypeOK
<1>5. /\ new \in [kind : StreamKinds, gone : BOOLEAN, stopped : BOOLEAN, emitted : BOOLEAN,
                  end : Endings, permits : {"none", "failover", "transient", "unusable"}]
      /\ new.kind = stream.kind /\ new.end = stream.end /\ new.stopped = stream.stopped
  BY <1>2, <1>4
<1>6. stream'.kind = stream.kind BY <1>3, <1>5
<1>7. /\ \A l : LengthOf(l)' = LengthOf(l)
      /\ \A r : Bytes(r)' = Bytes(r)
      /\ \A r : HasStop(r)' <=> HasStop(r)
      /\ \A s, l, r, h, t : Reads(s, l, r, h, t)' <=> Reads(s, l, r, h, t)
      /\ Expected' = Expected
      /\ TooLarge' <=> TooLarge
  BY <1>3, <1>6, Frozen, Zenon
<1>8. RecordsTypeOK'
  <2>1. AtEnd' <=> AtEnd BY <1>3 DEF AtEnd
  <2>2. (IF AtEnd THEN at.read = 0 ELSE at.read <= LengthOf(at.line))' BY <1>1, <1>3, <1>7, <2>1 DEF RecordsTypeOK
  <2>3. stream' \in [kind : StreamKinds, gone : BOOLEAN, stopped : BOOLEAN, emitted : BOOLEAN,
                     end : Endings, permits : {"none", "failover", "transient", "unusable"}]
    BY <1>3, <1>5
  <2> QED BY <2>2, <2>3, <1>1, <1>3 DEF RecordsTypeOK
<1>9. (frame.held + at.read <= MaxRecord)' BY <1>3 DEF RecordsInv
<1>10. (\A i \in 1..Len(relayed) : Bytes(relayed[i]) <= MaxRecord)' BY <1>3, <1>7 DEF RecordsInv
<1>11. (stream.stopped => \E i \in 1..Len(relayed) : HasStop(relayed[i]))'
  BY <1>3, <1>5, <1>7 DEF RecordsInv
<1>12. (\E s \in 1..at.line : Reads(s, at.line, frame.lines, frame.held, relayed))'
  <2>1. \E s \in 1..at.line : Reads(s, at.line, frame.lines, frame.held, relayed) BY DEF RecordsInv, HangUp
  <2> QED BY <2>1, <1>3, <1>7
<1>13. IsPrefix(relayed, Expected)' BY <1>3, <1>7 DEF RecordsInv
<1>14. (stream.end \in {"eof", "cut", "done", "nothing"} => relayed = Expected)' BY <1>3, <1>5, <1>7 DEF RecordsInv
<1>15. (stream.end = "large" => TooLarge)' BY <1>3, <1>5, <1>7 DEF RecordsInv
<1>16. (stream.kind = "anthropic" /\ stream.end = "eof" => stream.stopped)' BY <1>3, <1>5 DEF RecordsInv
<1> QED BY <1>8, <1>9, <1>10, <1>11, <1>12, <1>13, <1>14, <1>15, <1>16 DEF RecordsInv

LEMMA NoRoom ==
    ASSUME NEW most \in Nat, NEW held \in Nat, NEW read \in Nat, NEW length \in Nat, NEW part \in Int,
           part <= length - read, part > most - held - read
    PROVE  held + length > most
OBVIOUS

\* A part of a line that has no room is of a record that is too large.
LEMMA OversizeIsTooLarge ==
    ASSUME RecordsInv, ~Closed, ~AtEnd, NEW part \in Int, part <= Rest, part > Room
    PROVE  TooLarge
<1> DEFINE L == at.line
<1>1. /\ ScriptOK /\ Len(script.lines) \in Nat /\ MaxRecord \in Nat /\ at.read \in Nat /\ frame.held \in Nat
      /\ L \in Lines
    BY OpenFacts
<1>2. PICK s \in 1..L : Reads(s, L, frame.lines, frame.held, relayed) BY OpenFacts
<1>3. L \in 1..Len(script.lines) /\ s \in Lines BY <1>1, <1>2 DEF Lines
<1>4. LengthOf(L) \in Nat BY <1>1, Lengths
<1>5. frame.held + LengthOf(L) > MaxRecord
  <2>1. part <= LengthOf(L) - at.read /\ part > MaxRecord - frame.held - at.read BY DEF Rest, Room, LineLength
  <2> QED BY <2>1, <1>1, <1>4, NoRoom
<1>6. ASSUME NEW e \in L..Len(script.lines) PROVE Bytes(Run(s, e)) > MaxRecord
  <2>1. frame.held = Bytes(Run(s, L - 1)) BY <1>2 DEF Reads
  <2>2. s \in 1..(Len(script.lines) + 1) /\ L \in (s - 1)..Len(script.lines) /\ L - 1 \in (s - 1)..L BY <1>1, <1>3
  <2>3. Bytes(Run(s, L)) = Bytes(Run(s, L - 1)) + LengthOf(L) BY <2>2, <1>1, RunBytes
  <2>4. e \in (s - 1)..Len(script.lines) /\ L \in (s - 1)..e BY <1>1, <1>3
  <2>5. Bytes(Run(s, e)) \in Nat /\ Bytes(Run(s, L)) <= Bytes(Run(s, e)) BY <2>4, <2>2, <1>1, RunBytes
  <2>6. PICK a \in Nat : a = frame.held + LengthOf(L) BY <1>1, <1>4
  <2>7. Bytes(Run(s, L)) = a /\ a > MaxRecord BY <2>1, <2>3, <2>6, <1>5
  <2> QED BY <2>5, <2>7, <1>1
<1>7. CASE Ndjson
  <2>1. s = L BY <1>2, <1>7 DEF Reads
  <2>2. RecordFrom(s) = Run(s, L) BY <2>1, <1>1, <1>7, RecordOfLine
  <2>3. Starts(s) BY <1>7 DEF Starts
  <2>4. L \in L..Len(script.lines) BY <1>1, <1>3
  <2> QED BY <2>2, <2>3, <2>4, <1>3, <1>6 DEF TooLarge
<1>8. CASE ~Ndjson
  <2>1. Starts(s) /\ \A k \in s..(L - 1) : ~Blank(k) BY <1>2, <1>3, <1>8 DEF Reads
  <2>2. PICK e \in s..Len(script.lines) : RecordFrom(s) = Run(s, e) /\ (Blank(e) \/ e = Len(script.lines))
    BY <1>1, <1>3, <1>8, RecordGoes
  <2>3. e \in L..Len(script.lines)
    <3>1. SUFFICES ASSUME e < L PROVE FALSE BY <1>1, <1>3, <2>2
    <3>2. e \in s..(L - 1) /\ e # Len(script.lines) BY <3>1, <1>1, <1>3
    <3> QED BY <3>2, <2>1, <2>2
  <2> QED BY <2>1, <2>2, <2>3, <1>3, <1>6 DEF TooLarge
<1> QED BY <1>7, <1>8

LEMMA FailureStep ==
    ASSUME RecordsInv, ~Closed, NEW how \in {"large", "broken"}, StreamFailure(how), how = "large" => TooLarge
    PROVE  RecordsInv'
<1>1. PICK permits \in {"none", "failover", "transient", "unusable"} : End(how, permits) BY DEF StreamFailure
<1>2. how \in Endings \ {""} /\ how \notin {"eof", "cut", "done", "nothing"} /\ how # "eof" BY DEF Endings
<1> QED BY <1>1, <1>2, EndStep

LEMMA AtMost ==
    ASSUME NEW length \in Int, NEW content \in Int, content <= length, NEW read \in Nat,
           NEW buffer \in Nat, NEW part \in 0..Min({content - read - 1, buffer})
    PROVE  part \in Int /\ part <= length - read
<1>1. PICK a \in Int : a = content - read - 1 OBVIOUS
<1>2. Min({a, buffer}) \in {a, buffer} /\ Min({a, buffer}) <= a BY MinOfTwo
<1>3. PICK m : m = Min({a, buffer}) OBVIOUS
<1>4. m \in Int /\ m <= a BY <1>2, <1>3
<1>5. part \in 0..m BY <1>1, <1>3
<1> QED BY <1>1, <1>4, <1>5

LEMMA BreakOffStep == ASSUME RecordsInv, BreakOff PROVE RecordsInv'
<1>1. ~Closed BY DEF BreakOff
<1>2. CASE AtEnd /\ StreamFailure("broken")
  <2>1. "broken" # "large" OBVIOUS
  <2> QED BY <1>1, <1>2, <2>1, FailureStep
<1>3. CASE ~AtEnd /\ \E part \in 0..Min({Content - at.read - 1, Buffer}) :
                StreamFailure(IF part > Room THEN "large" ELSE "broken")
  <2>1. PICK part \in 0..Min({Content - at.read - 1, Buffer}) :
                StreamFailure(IF part > Room THEN "large" ELSE "broken")
    BY <1>3
  <2>2. ScriptOK /\ at.read \in Nat /\ at.line \in Lines BY <1>1, <1>3, OpenFacts
  <2>3. LineLength \in Nat BY <2>2, Lengths DEF LineLength
  <2>4. Content \in Int /\ Content <= LineLength
    <3> HIDE DEF LineLength
    <3> QED BY <2>3 DEF Content
  <2>5. Buffer \in Nat BY RecordsConstants
  <2>6. part \in Int /\ part <= LineLength - at.read
    <3>1. LineLength \in Int BY <2>3
    <3> QED BY <3>1, <2>1, <2>2, <2>4, <2>5, AtMost, Zenon
  <2>7. part <= Rest BY <2>6 DEF Rest
  <2>8. CASE part > Room
    <3>1. TooLarge BY <1>1, <1>3, <2>6, <2>7, <2>8, OversizeIsTooLarge
    <3>2. StreamFailure("large") BY <2>1, <2>8
    <3> QED BY <1>1, <3>1, <3>2, FailureStep
  <2>9. CASE ~(part > Room)
    <3>1. StreamFailure("broken") BY <2>1, <2>9
    <3>2. "broken" # "large" OBVIOUS
    <3> QED BY <1>1, <3>1, <3>2, FailureStep
  <2> QED BY <2>8, <2>9
<1> QED BY <1>2, <1>3 DEF BreakOff

StreamTypes == [kind : StreamKinds, gone : BOOLEAN, stopped : BOOLEAN, emitted : BOOLEAN,
                end : Endings, permits : {"none", "failover", "transient", "unusable"}]

\* Every step that reads on: the stream stays open, or it is done.
LEMMA ReadOn ==
    ASSUME RecordsInv, ~Closed, script' = script,
           NEW new \in StreamTypes, stream' = new, new.kind = stream.kind,
           NEW there \in [line : Nat \ {0}, read : Nat], at' = there,
           there.line <= Len(script.lines) + 1,
           IF there.line > Len(script.lines) THEN there.read = 0 ELSE there.read <= LengthOf(there.line),
           NEW part \in [lines : Seq(Nat), held : Nat], frame' = part,
           part.held + there.read <= MaxRecord,
           NEW more, relayed' = more, FramesSound(more, new.stopped), IsPrefix(more, Expected),
           \/ new.end = "" /\ \E s \in 1..there.line : Reads(s, there.line, part.lines, part.held, more)
           \/ new.end = "done" /\ more = Expected
    PROVE  RecordsInv'
<1>1. /\ \A l : LengthOf(l)' = LengthOf(l)
      /\ \A r : Bytes(r)' = Bytes(r)
      /\ \A r : HasStop(r)' <=> HasStop(r)
      /\ \A s, l, r, h, t : Reads(s, l, r, h, t)' <=> Reads(s, l, r, h, t)
      /\ Expected' = Expected
      /\ TooLarge' <=> TooLarge
  <2>1. stream'.kind = stream.kind OBVIOUS
  <2> QED BY <2>1, Frozen, Zenon
<1>2. RecordsTypeOK'
  <2>1. script' \in [lines : Seq(Line), ended : BOOLEAN] BY DEF RecordsInv, RecordsTypeOK
  <2>2. at' \in [line : Nat \ {0}, read : Nat] /\ at'.line <= Len(script'.lines) + 1 OBVIOUS
  <2>3. AtEnd' <=> there.line > Len(script.lines) BY DEF AtEnd
  <2>4. (IF AtEnd THEN at.read = 0 ELSE at.read <= LengthOf(at.line))' BY <1>1, <2>3
  <2>5. frame' \in [lines : Seq(Nat), held : Nat] /\ relayed' \in Seq(Seq(Nat)) BY DEF FramesSound
  <2>6. stream' \in StreamTypes OBVIOUS
  <2> QED BY <2>1, <2>2, <2>4, <2>5, <2>6 DEF RecordsTypeOK, StreamTypes
<1>3. (frame.held + at.read <= MaxRecord)' OBVIOUS
<1>4. (\A i \in 1..Len(relayed) : Bytes(relayed[i]) <= MaxRecord)' BY <1>1 DEF FramesSound
<1>5. (stream.stopped => \E i \in 1..Len(relayed) : HasStop(relayed[i]))' BY <1>1 DEF FramesSound
<1>6. Closed' <=> new.end # "" BY DEF Closed
<1>7. (~Closed => \E s \in 1..at.line : Reads(s, at.line, frame.lines, frame.held, relayed))' BY <1>1, <1>6
<1>8. IsPrefix(relayed, Expected)' BY <1>1
<1>9. (stream.end \in {"eof", "cut", "done", "nothing"} => relayed = Expected)' BY <1>1
<1>10. (stream.end = "large" => TooLarge)' OBVIOUS
<1>11. (stream.kind = "anthropic" /\ stream.end = "eof" => stream.stopped)' OBVIOUS
<1> QED BY <1>2, <1>3, <1>4, <1>5, <1>7, <1>8, <1>9, <1>10, <1>11 DEF RecordsInv

\* The facts of the invariant that ReadOn asks for.
LEMMA OpenTypes ==
    ASSUME RecordsInv, ~Closed
    PROVE  /\ stream \in StreamTypes /\ stream.end = ""
           /\ at \in [line : Nat \ {0}, read : Nat] /\ frame \in [lines : Seq(Nat), held : Nat]
           /\ FramesSound(relayed, stream.stopped) /\ IsPrefix(relayed, Expected)
           /\ frame.held + at.read <= MaxRecord
BY DEF RecordsInv, RecordsTypeOK, StreamTypes, FramesSound, Closed

LEMMA Grows ==
    ASSUME NEW read \in Nat, NEW length \in Nat, NEW part \in Int, NEW held \in Nat, NEW most \in Nat,
           part <= length - read, 0 <= part, ~(part > most - held - read)
    PROVE  read + part \in Nat /\ read + part <= length /\ held + (read + part) <= most
OBVIOUS

LEMMA ReadSliceStep == ASSUME RecordsInv, ReadSlice PROVE RecordsInv'
<1>1. ~Closed /\ ~AtEnd /\ Rest > 0 BY DEF ReadSlice
<1>2. /\ ScriptOK /\ at.read \in Nat /\ at.line \in Lines /\ frame.held \in Nat /\ MaxRecord \in Nat
      /\ \E s \in 1..at.line : Reads(s, at.line, frame.lines, frame.held, relayed)
  BY <1>1, OpenFacts
<1>3. LengthOf(at.line) \in Nat /\ Rest = LengthOf(at.line) - at.read BY <1>2, Lengths DEF Rest, LineLength
<1>4. Rest \in Int /\ Buffer \in Nat
  <2>1. Buffer \in Nat BY RecordsConstants
  <2> QED BY <2>1, <1>2, <1>3
<1>5. PICK part : part = Min({Rest, Buffer}) OBVIOUS
<1>6. part \in Int /\ part <= Rest /\ 0 <= part
  <2>1. part \in {Rest, Buffer} /\ part <= Rest BY <1>4, <1>5, MinOfTwo
  <2> QED BY <2>1, <1>1, <1>4
<1>7. CASE part > Room
  <2>1. TooLarge BY <1>1, <1>6, <1>7, OversizeIsTooLarge
  <2>2. StreamFailure("large") BY <1>5, <1>7 DEF ReadSlice
  <2> QED BY <1>1, <2>1, <2>2, FailureStep
<1>8. CASE ~(part > Room)
  <2>1. at' = [at EXCEPT !.read = @ + part] /\ script' = script /\ frame' = frame /\ stream' = stream /\ relayed' = relayed
    BY <1>5, <1>8 DEF ReadSlice
  <2>2. PICK there : there = [line |-> at.line, read |-> at.read + part] OBVIOUS
  <2>3. at \in [line : Nat \ {0}, read : Nat] BY <1>1, OpenTypes
  <2>4. at' = there BY <2>1, <2>2, <2>3
  <2>5. /\ at.read + part \in Nat /\ at.read + part <= LengthOf(at.line)
        /\ frame.held + (at.read + part) <= MaxRecord
    <3>1. part <= LengthOf(at.line) - at.read BY <1>3, <1>6
    <3>2. ~(part > MaxRecord - frame.held - at.read) BY <1>8 DEF Room
    <3> QED BY <3>1, <3>2, <1>2, <1>3, <1>6, Grows
  <2>6. there \in [line : Nat \ {0}, read : Nat] /\ there.line = at.line /\ there.read = at.read + part
    BY <2>2, <2>3, <2>5
  <2>7. at.line <= Len(script.lines) /\ ~(at.line > Len(script.lines)) BY <1>2, Lengths DEF Lines
  <2>8. there.line <= Len(script.lines) + 1 BY <2>6, <2>7, <1>2, Lengths
  <2>9. IF there.line > Len(script.lines) THEN there.read = 0 ELSE there.read <= LengthOf(there.line)
    BY <2>5, <2>6, <2>7
  <2>10. /\ stream \in StreamTypes /\ stream.end = "" /\ frame \in [lines : Seq(Nat), held : Nat]
         /\ FramesSound(relayed, stream.stopped) /\ IsPrefix(relayed, Expected)
    BY <1>1, OpenTypes
  <2>11. \E s \in 1..there.line : Reads(s, there.line, frame.lines, frame.held, relayed) BY <1>2, <2>6
  <2>12. frame.held + there.read <= MaxRecord BY <2>5, <2>6
  <2> QED BY <1>1, <2>1, <2>4, <2>6, <2>8, <2>9, <2>10, <2>11, <2>12, ReadOn, Zenon
<1> QED BY <1>7, <1>8

\* The next line, from its start.
LEMMA NextLineIs ==
    ASSUME RecordsInv, LineRead, NextLine
    PROVE  \E there \in [line : Nat \ {0}, read : Nat] :
            /\ at' = there /\ there.line = at.line + 1 /\ there.read = 0
            /\ there.line <= Len(script.lines) + 1
            /\ IF there.line > Len(script.lines) THEN there.read = 0 ELSE there.read <= LengthOf(there.line)
<1>1. ~Closed /\ ~AtEnd BY DEF LineRead
<1>2. ScriptOK /\ at.line \in Lines /\ Len(script.lines) \in Nat BY <1>1, OpenFacts
<1>3. PICK there : there = [line |-> at.line + 1, read |-> 0] OBVIOUS
<1>4. at.line \in Nat /\ at.line <= Len(script.lines) BY <1>2 DEF Lines
<1>5. there \in [line : Nat \ {0}, read : Nat] /\ there.line = at.line + 1 /\ there.read = 0 BY <1>3, <1>4
<1>6. there.line <= Len(script.lines) + 1 BY <1>2, <1>4, <1>5
<1>7. IF there.line > Len(script.lines) THEN there.read = 0 ELSE there.read <= LengthOf(there.line)
  <2>1. ASSUME ~(there.line > Len(script.lines)) PROVE there.read <= LengthOf(there.line)
    <3>1. there.line \in Lines BY <2>1, <1>2, <1>4, <1>5 DEF Lines
    <3>2. LengthOf(there.line) \in Nat BY <3>1, <1>2, Lengths
    <3> QED BY <3>2, <1>5
  <2> QED BY <2>1, <1>5
<1>8. at' = there BY <1>3 DEF NextLine
<1> QED BY <1>5, <1>6, <1>7, <1>8

\* What a line that is read adds to its record.
LEMMA LineJoins ==
    ASSUME RecordsInv, LineRead, NEW s \in 1..at.line, Reads(s, at.line, frame.lines, frame.held, relayed)
    PROVE  /\ at.line \in Lines /\ s \in Lines /\ at.line \in s..Len(script.lines)
           /\ Append(frame.lines, at.line) = Run(s, at.line) /\ Run(s, at.line) \in Seq(Nat)
           /\ Bytes(Run(s, at.line)) = frame.held + at.read
           /\ Bytes(Run(s, at.line)) \in Nat /\ Bytes(Run(s, at.line)) <= MaxRecord
<1> DEFINE L == at.line
<1>1. ~Closed /\ ~AtEnd /\ Rest = 0 BY DEF LineRead
<1>2. ScriptOK /\ L \in Lines /\ Len(script.lines) \in Nat /\ at.read \in Nat BY <1>1, OpenFacts
<1>3. at.read = LengthOf(L)
  <2>1. LengthOf(L) \in Nat BY <1>2, Lengths
  <2>2. LengthOf(L) - at.read = 0 BY <1>1 DEF Rest, LineLength
  <2> QED BY <2>1, <2>2, <1>2
<1>4. s \in Lines /\ L \in s..Len(script.lines) BY <1>2 DEF Lines
<1>5. frame.lines = Run(s, L - 1) /\ frame.held = Bytes(Run(s, L - 1)) BY DEF Reads
<1>6. /\ s \in 1..(Len(script.lines) + 1) /\ L \in (s - 1)..Len(script.lines) /\ L >= s
      /\ L - 1 \in (s - 1)..L
  BY <1>2, <1>4 DEF Lines
<1>7. Append(frame.lines, L) = Run(s, L) /\ Run(s, L) \in Seq(Nat) BY <1>2, <1>5, <1>6, RunIs
<1>8. Bytes(Run(s, L)) = frame.held + at.read /\ Bytes(Run(s, L)) \in Nat BY <1>2, <1>3, <1>5, <1>6, RunBytes
<1>9. frame.held + at.read <= MaxRecord BY DEF RecordsInv
<1> QED BY <1>2, <1>4, <1>7, <1>8, <1>9

\* At the start of a record nothing of it is held.
LEMMA Fresh ==
    ASSUME ScriptOK, NEW l \in 1..(Len(script.lines) + 1), NEW returned, returned = Kept(Records, Places)[l - 1],
           IF Ndjson THEN \A k \in 1..(l - 1) : script.lines[k].kind \notin {"last", "stop"}
           ELSE l \in Lines => Starts(l)
    PROVE  /\ NoFrame \in [lines : Seq(Nat), held : Nat] /\ NoFrame.held = 0
           /\ \E s \in 1..l : Reads(s, l, NoFrame.lines, NoFrame.held, returned)
<1>1. Len(script.lines) \in Nat BY Lengths
<1>2. <<>> \in Seq(Nat) BY NothingRead
<1>3. NoFrame.lines = <<>> /\ NoFrame.held = 0 BY DEF NoFrame
<1>4. NoFrame \in [lines : Seq(Nat), held : Nat] BY <1>2 DEF NoFrame
<1>5. l \in 1..l /\ l <= Len(script.lines) + 1 /\ l - 1 \in (l - 1)..Len(script.lines)
      /\ l - 1 \in (l - 1)..(l - 1) /\ l = (l - 1) + 1
  BY <1>1
<1>6. Run(l, l - 1) = <<>> BY <1>1, <1>5, RunIs
<1>7. Bytes(<<>>) = 0 BY <1>1, <1>5, RunBytes
<1>8. \A k \in l..(l - 1) : ~Blank(k) BY <1>1
<1>9. Reads(l, l, NoFrame.lines, NoFrame.held, returned) BY <1>3, <1>5, <1>6, <1>7, <1>8 DEF Reads
<1> QED BY <1>3, <1>4, <1>5, <1>9

LEMMA PrefixOfReads ==
    ASSUME ScriptOK, NEW l \in 1..(Len(script.lines) + 1), NEW lines, NEW held, NEW returned,
           \E s \in 1..l : Reads(s, l, lines, held, returned)
    PROVE  IsPrefix(returned, Expected)
<1>1. l \in Nat BY Lengths
<1> QED BY <1>1, ReadsPrefix

\* A record is returned: it is one more, within the bound, and a stop in it is noted.
LEMMA ReturnFacts ==
    ASSUME RecordsInv, ~Closed, NEW lines \in Seq(Nat), Bytes(lines) <= MaxRecord, ReturnFrame(lines)
    PROVE  \E new \in StreamTypes :
            /\ stream' = new /\ new.kind = stream.kind /\ new.end = ""
            /\ FramesSound(Append(relayed, lines), new.stopped)
<1>1. stream \in StreamTypes /\ stream.end = "" /\ FramesSound(relayed, stream.stopped) BY OpenTypes
<1>2. PICK stopped \in BOOLEAN : stopped <=> stream.stopped \/ HasStop(lines) OBVIOUS
<1>3. PICK new : new = [stream EXCEPT !.stopped = stopped] OBVIOUS
<1>4. new \in StreamTypes /\ new.kind = stream.kind /\ new.end = "" /\ new.stopped = stopped
  BY <1>1, <1>3 DEF StreamTypes
<1>5. stream' = new
  <2>1. stream.stopped \in BOOLEAN BY <1>1 DEF StreamTypes
  <2>2. (stream.stopped \/ \E l \in ToSet(lines) : script.lines[l].kind = "stop") = stopped
    BY <1>2, <2>1 DEF HasStop
  <2>3. stream' = [stream EXCEPT !.stopped = @ \/ \E l \in ToSet(lines) : script.lines[l].kind = "stop"]
    BY DEF ReturnFrame
  <2> QED BY <2>2, <2>3, <1>3
<1>6. FramesSound(Append(relayed, lines), stopped)
  <2>1. stream.stopped \in BOOLEAN BY <1>1 DEF StreamTypes
  <2> QED BY <2>1, <1>1, <1>2, FramesGrow
<1> QED BY <1>4, <1>5, <1>6

LEMMA ReadLineStep == ASSUME RecordsInv, ReadLine PROVE RecordsInv'
<1> DEFINE L == at.line
           n == Len(script.lines)
<1>1. LineRead /\ NextLine /\ ~Ndjson /\ ~Closed /\ ~AtEnd BY DEF ReadLine, LineRead
<1>2. ScriptOK /\ n \in Nat /\ MaxRecord \in Nat /\ L \in 1..(n + 1) /\ at.read \in Nat /\ frame.held \in Nat BY <1>1, OpenFacts
<1>3. PICK s \in 1..L : Reads(s, L, frame.lines, frame.held, relayed) BY <1>1, OpenFacts
<1>4. /\ L \in Lines /\ s \in Lines /\ L \in s..n
      /\ Append(frame.lines, L) = Run(s, L) /\ Run(s, L) \in Seq(Nat)
      /\ Bytes(Run(s, L)) = frame.held + at.read /\ Bytes(Run(s, L)) \in Nat /\ Bytes(Run(s, L)) <= MaxRecord
  BY <1>1, <1>3, LineJoins
<1>5. PICK there \in [line : Nat \ {0}, read : Nat] :
            /\ at' = there /\ there.line = L + 1 /\ there.read = 0
            /\ there.line <= n + 1
            /\ IF there.line > n THEN there.read = 0 ELSE there.read <= LengthOf(there.line)
  BY <1>1, NextLineIs
<1>6. /\ stream \in StreamTypes /\ stream.end = "" /\ FramesSound(relayed, stream.stopped)
  BY <1>1, OpenTypes
<1>7. there.line \in 1..(n + 1) /\ there.line - 1 = L BY <1>2, <1>4, <1>5
<1>8. Starts(s) /\ (\A k \in s..(L - 1) : ~Blank(k)) /\ relayed = Kept(Records, Places)[s - 1]
      /\ frame.lines = Run(s, L - 1)
  BY <1>1, <1>3, <1>4 DEF Reads
<1>9. CASE ThisLine.kind # "blank"
  <2>1. PICK part : part = [lines |-> Run(s, L), held |-> Bytes(Run(s, L))] OBVIOUS
  <2>2. part \in [lines : Seq(Nat), held : Nat] /\ part.lines = Run(s, L) /\ part.held = Bytes(Run(s, L))
    BY <2>1, <1>4
  <2>3. frame' = part /\ script' = script /\ stream' = stream /\ relayed' = relayed
    BY <1>4, <1>9, <2>1 DEF ReadLine
  <2>4. part.held + there.read <= MaxRecord BY <1>4, <1>5, <2>2
  <2>5. Reads(s, there.line, part.lines, part.held, relayed)
    <3>1. s \in 1..there.line BY <1>2, <1>3, <1>5
    <3>2. \A k \in s..(there.line - 1) : ~Blank(k)
      <4>1. ASSUME NEW k \in s..L PROVE ~Blank(k)
        <5>1. CASE k = L BY <5>1, <1>9 DEF Blank, ThisLine
        <5>2. CASE k # L
          <6>1. k \in s..(L - 1) BY <5>2, <1>2
          <6> QED BY <6>1, <1>8
        <5> QED BY <5>1, <5>2
      <4> QED BY <4>1, <1>7
    <3> QED BY <3>1, <3>2, <1>1, <1>5, <1>7, <1>8, <2>2 DEF Reads
  <2>6. \E x \in 1..there.line : Reads(x, there.line, part.lines, part.held, relayed)
    <3>1. s \in 1..there.line BY <1>2, <1>3, <1>5
    <3> QED BY <2>5, <3>1
  <2>7. IsPrefix(relayed, Expected) BY <2>6, <1>2, <1>7, PrefixOfReads
  <2> QED BY <1>1, <1>5, <1>6, <2>2, <2>3, <2>4, <2>6, <2>7, ReadOn, Zenon
<1>10. CASE ThisLine.kind = "blank"
  <2>1. Blank(L) BY <1>10 DEF Blank, ThisLine
  <2>2. Payload(Run(s, L)) <=> Payload(frame.lines)
    <3>1. PICK e : e = L OBVIOUS
    <3>2. s \in Lines /\ e \in s..Len(script.lines) /\ Blank(e) BY <1>4, <2>1, <3>1
    <3>3. Payload(Run(s, e)) <=> Payload(Run(s, e - 1)) BY <1>2, <3>2, BlankIsNoData
    <3> QED BY <1>8, <3>1, <3>3
  <2>3. Kept(Records, Places)[L] = IF Payload(frame.lines) THEN Append(relayed, Run(s, L)) ELSE relayed
    BY <1>1, <1>2, <1>4, <1>8, <2>1, <2>2, RecordKept
  <2>4. there.line \in Lines => Starts(there.line) BY <1>7, <2>1 DEF Starts
  <2>5. script' = script /\ frame' = NoFrame BY <1>10 DEF ReadLine, ReturnFrame
  <2>6. ASSUME NEW more, more = Kept(Records, Places)[L]
        PROVE  /\ NoFrame \in [lines : Seq(Nat), held : Nat] /\ NoFrame.held + there.read <= MaxRecord
               /\ \E x \in 1..there.line : Reads(x, there.line, NoFrame.lines, NoFrame.held, more)
               /\ IsPrefix(more, Expected)
    <3>1. /\ NoFrame \in [lines : Seq(Nat), held : Nat] /\ NoFrame.held = 0
          /\ \E x \in 1..there.line : Reads(x, there.line, NoFrame.lines, NoFrame.held, more)
      BY <1>1, <1>2, <1>7, <2>4, <2>6, Fresh
    <3>2. IsPrefix(more, Expected) BY <3>1, <1>2, <1>7, PrefixOfReads
    <3> QED BY <3>1, <3>2, <1>2, <1>5
  <2>7. CASE Payload(frame.lines)
    <3>1. ReturnFrame(Run(s, L)) BY <1>4, <1>10, <2>7 DEF ReadLine, WholeRecord
    <3>2. PICK new \in StreamTypes :
            /\ stream' = new /\ new.kind = stream.kind /\ new.end = ""
            /\ FramesSound(Append(relayed, Run(s, L)), new.stopped)
      BY <3>1, <1>1, <1>4, ReturnFacts
    <3>3. PICK more : more = Append(relayed, Run(s, L)) OBVIOUS
    <3>4. more = Kept(Records, Places)[L] /\ relayed' = more /\ FramesSound(more, new.stopped)
      BY <2>3, <2>7, <3>1, <3>2, <3>3 DEF ReturnFrame
    <3> QED BY <1>1, <1>5, <2>5, <2>6, <3>2, <3>4, ReadOn, Zenon
  <2>8. CASE ~Payload(frame.lines)
    <3>1. stream' = stream /\ relayed' = relayed BY <1>10, <2>8 DEF ReadLine
    <3>2. relayed = Kept(Records, Places)[L] BY <2>3, <2>8
    <3> QED BY <1>1, <1>5, <1>6, <2>5, <2>6, <3>1, <3>2, ReadOn, Zenon
  <2> QED BY <2>7, <2>8
<1> QED BY <1>9, <1>10

LEMMA ReadEventStep == ASSUME RecordsInv, ReadEvent PROVE RecordsInv'
<1> DEFINE L == at.line
           n == Len(script.lines)
           kind == script.lines[L].kind
<1>1. LineRead /\ NextLine /\ Ndjson /\ ~Closed /\ ~AtEnd BY DEF ReadEvent, LineRead
<1>2. ScriptOK /\ n \in Nat /\ MaxRecord \in Nat /\ L \in 1..(n + 1) /\ at.read \in Nat /\ frame.held \in Nat BY <1>1, OpenFacts
<1>3. PICK s \in 1..L : Reads(s, L, frame.lines, frame.held, relayed) BY <1>1, OpenFacts
<1>4. /\ L \in Lines /\ L \in s..n /\ Run(s, L) \in Seq(Nat)
      /\ Bytes(Run(s, L)) \in Nat /\ Bytes(Run(s, L)) <= MaxRecord
  BY <1>1, <1>3, LineJoins
<1>5. /\ s = L /\ relayed = Kept(Records, Places)[L - 1] /\ frame.lines = Run(L, L - 1)
      /\ frame.held = Bytes(frame.lines)
      /\ \A k \in 1..(L - 1) : script.lines[k].kind \notin {"last", "stop"}
  BY <1>1, <1>3 DEF Reads
<1>6. Run(s, L) = <<L>> BY <1>1, <1>2, <1>4, <1>5, RecordOfLine
<1>7. frame.held = 0
  <2>0. L \in 1..n BY <1>2, <1>4 DEF Lines
  <2>1. L \in 1..(n + 1) /\ L - 1 \in (L - 1)..n /\ L - 1 \in (L - 1)..(L - 1) /\ L = (L - 1) + 1 BY <1>2, <2>0
  <2>2. Run(L, L - 1) = <<>> BY <2>1, <1>2, RunIs
  <2>3. Bytes(<<>>) = 0 BY <2>1, <1>2, RunBytes
  <2> QED BY <2>2, <2>3, <1>5
<1>8. PICK there \in [line : Nat \ {0}, read : Nat] :
            /\ at' = there /\ there.line = L + 1 /\ there.read = 0
            /\ there.line <= n + 1
            /\ IF there.line > n THEN there.read = 0 ELSE there.read <= LengthOf(there.line)
  BY <1>1, NextLineIs
<1>9. /\ stream \in StreamTypes /\ stream.end = "" /\ FramesSound(relayed, stream.stopped)
      /\ frame \in [lines : Seq(Nat), held : Nat]
  BY <1>1, OpenTypes
<1>10. there.line \in 1..(n + 1) /\ there.line - 1 = L BY <1>2, <1>4, <1>8
<1>11. PICK more : more = IF kind \in {"data", "last", "stop"} THEN Append(relayed, <<L>>) ELSE relayed OBVIOUS
<1>12. more = Kept(Records, Places)[L] /\ (kind \in {"last", "stop"} => more = Expected)
  BY <1>1, <1>2, <1>4, <1>5, <1>11, EventKept
<1>13. script' = script /\ frame' = frame /\ relayed' = more
  BY <1>11 DEF ReadEvent, ThisLine
<1>14. PICK new : /\ new = [stream EXCEPT !.emitted = @ \/ kind \in {"data", "last"},
                                         !.end = IF kind \in {"last", "stop"} THEN "done" ELSE ""]
                  /\ stream' = new
  BY DEF ReadEvent, ThisLine
<1>15. /\ new \in StreamTypes /\ new.kind = stream.kind /\ new.stopped = stream.stopped
       /\ new.end = IF kind \in {"last", "stop"} THEN "done" ELSE ""
  <2>1. PICK emitted \in BOOLEAN : emitted = (stream.emitted \/ kind \in {"data", "last"}) OBVIOUS
  <2>2. PICK end \in Endings : end = IF kind \in {"last", "stop"} THEN "done" ELSE "" BY DEF Endings
  <2>3. new = [stream EXCEPT !.emitted = emitted, !.end = end] BY <1>14, <2>1, <2>2
  <2> QED BY <1>9, <2>2, <2>3 DEF StreamTypes
<1>16. FramesSound(more, new.stopped)
  <2>1. CASE kind \in {"data", "last", "stop"}
    <3>1. stream.stopped \in BOOLEAN BY <1>9 DEF StreamTypes
    <3>2. PICK stopped \in BOOLEAN : stopped = stream.stopped BY <3>1
    <3>3. PICK record \in Seq(Nat) : record = Run(s, L) BY <1>4
    <3>4. Bytes(record) <= MaxRecord /\ FramesSound(relayed, stopped) BY <1>4, <1>9, <3>2, <3>3
    <3>5. FramesSound(Append(relayed, record), stopped) BY <3>4, FramesGrow
    <3> QED BY <3>2, <3>3, <3>5, <2>1, <1>6, <1>11, <1>15
  <2>2. CASE kind \notin {"data", "last", "stop"} BY <2>2, <1>9, <1>11, <1>15
  <2> QED BY <2>1, <2>2
<1>17. frame.held + there.read <= MaxRecord BY <1>2, <1>7, <1>8
<1>18. CASE kind \in {"last", "stop"}
  <2>1. new.end = "done" /\ more = Expected BY <1>12, <1>15, <1>18
  <2>2. IsPrefix(more, Expected)
    <3>1. more \in Seq(Seq(Nat)) BY <1>16 DEF FramesSound
    <3>2. IsPrefix(more, more) BY <3>1 DEF IsPrefix
    <3> QED BY <2>1, <3>2
  <2> QED BY <1>1, <1>8, <1>9, <1>13, <1>14, <1>15, <1>16, <1>17, <2>1, <2>2, ReadOn, Zenon
<1>19. CASE kind \notin {"last", "stop"}
  <2>1. new.end = "" BY <1>15, <1>19
  <2>2. \A k \in 1..(there.line - 1) : script.lines[k].kind \notin {"last", "stop"}
    <3>1. ASSUME NEW k \in 1..L PROVE script.lines[k].kind \notin {"last", "stop"}
      <4>1. CASE k = L BY <4>1, <1>19
      <4>2. CASE k # L
        <5>1. k \in 1..(L - 1) BY <4>2, <1>2
        <5> QED BY <5>1, <1>5
      <4> QED BY <4>1, <4>2
    <3> QED BY <3>1, <1>10
  <2>3. /\ NoFrame.held = 0
        /\ \E x \in 1..there.line : Reads(x, there.line, NoFrame.lines, NoFrame.held, more)
    BY <1>1, <1>2, <1>10, <1>12, <2>2, Fresh
  <2>4. frame = NoFrame
    <3>1. L \in 1..(n + 1) /\ L - 1 \in (L - 1)..n /\ L = (L - 1) + 1 BY <1>2, <1>4
    <3>2. frame.lines = <<>> BY <3>1, <1>2, <1>5, RunIs
    <3> QED BY <3>2, <1>7, <1>9 DEF NoFrame
  <2>5. \E x \in 1..there.line : Reads(x, there.line, frame.lines, frame.held, more) BY <2>3, <2>4
  <2>6. IsPrefix(more, Expected) BY <2>3, <1>2, <1>10, PrefixOfReads
  <2> QED BY <1>1, <1>8, <1>9, <1>13, <1>14, <1>15, <1>16, <1>17, <2>1, <2>5, <2>6, ReadOn, Zenon
<1> QED BY <1>18, <1>19

LEMMA ReadEndStep == ASSUME RecordsInv, ReadEnd PROVE RecordsInv'
<1> DEFINE n == Len(script.lines)
<1>1. ~Closed /\ AtEnd BY DEF ReadEnd
<1>2. ScriptOK /\ n \in Nat /\ MaxRecord \in Nat /\ at.line = n + 1 /\ at.line \in 1..(n + 1) /\ at.read = 0 BY <1>1, OpenFacts
<1>3. PICK s \in 1..at.line : Reads(s, at.line, frame.lines, frame.held, relayed) BY <1>1, OpenFacts
<1>4. (n + 1) - 1 = n BY <1>2
<1>5. frame.lines = Run(s, n) /\ frame.held = Bytes(frame.lines) /\ relayed = Kept(Records, Places)[s - 1]
  BY <1>2, <1>3, <1>4 DEF Reads
<1>6. s = n + 1 => relayed = Expected
  <2>1. at.line \in Nat BY <1>2
  <2> QED BY <2>1, <1>2, <1>3, ReadsPrefix
<1>7. PICK records \in Seq(Seq(Nat)) : records = Records BY RecordsAre, <1>2
<1>8. PICK places : places = Places OBVIOUS
<1>9. Len(records) = n /\ Expected = Only(records, places)
  BY <1>2, <1>7, <1>8, RecordsAre DEF Expected, Records, Places
<1>10. ASSUME ~Ndjson, s # n + 1
       PROVE  /\ s \in Lines /\ n \in s..n /\ Starts(s) /\ \A k \in s..(n - 1) : ~Blank(k)
              /\ Expected = IF Payload(frame.lines) THEN Append(relayed, frame.lines) ELSE relayed
              /\ Kept(Records, Places)[n] = Expected
  <2>1. s \in Lines /\ n \in s..n
    <3>1. s \in 1..(n + 1) BY <1>2, <1>3
    <3>2. s \in 1..n BY <3>1, <1>2, <1>10
    <3> QED BY <3>2, <1>2 DEF Lines
  <2>2. Starts(s) /\ \A k \in s..(at.line - 1) : ~Blank(k) BY <1>3, <1>10, <2>1 DEF Reads
  <2>3. \A k \in s..(n - 1) : ~Blank(k)
    <3>1. \A k \in s..(n - 1) : k \in s..(at.line - 1) BY <1>2, <2>1
    <3> QED BY <3>1, <2>2
  <2>4. Kept(Records, Places)[n] = IF Payload(Run(s, n)) THEN Append(Kept(Records, Places)[s - 1], Run(s, n))
                                   ELSE Kept(Records, Places)[s - 1]
    BY <1>2, <1>10, <2>1, <2>2, <2>3, RecordKept
  <2>5. Kept(Records, Places)[n] = Expected BY <1>7, <1>8, <1>9 DEF Only
  <2> QED BY <2>1, <2>2, <2>3, <2>4, <2>5, <1>5
<1>11. ASSUME ~Ndjson, s = n + 1 PROVE ~Payload(frame.lines)
  <2>1. s \in 1..(n + 1) /\ n \in (s - 1)..n BY <1>2, <1>11
  <2>2. frame.lines = <<>> BY <2>1, <1>2, <1>5, <1>11, RunIs
  <2> QED BY <2>2 DEF Payload
<1>12. CASE ~Ndjson /\ Payload(frame.lines)
  <2>1. ReturnFrame(frame.lines) /\ at' = at BY <1>12 DEF ReadEnd, WholeRecord
  <2>2. s # n + 1 BY <1>11, <1>12
  <2>3. frame \in [lines : Seq(Nat), held : Nat] /\ at \in [line : Nat \ {0}, read : Nat] BY <1>1, OpenTypes
  <2>4. frame.lines \in Seq(Nat) /\ Bytes(frame.lines) <= MaxRecord
    <3>1. frame.held + at.read <= MaxRecord BY <1>1, OpenTypes
    <3>2. frame.held \in Nat BY <2>3
    <3> QED BY <3>1, <3>2, <2>3, <1>2, <1>5
  <2>5. PICK new \in StreamTypes :
            /\ stream' = new /\ new.kind = stream.kind /\ new.end = ""
            /\ FramesSound(Append(relayed, frame.lines), new.stopped)
    BY <1>1, <2>1, <2>4, ReturnFacts
  <2>6. PICK more : more = Append(relayed, frame.lines) OBVIOUS
  <2>7. more = Kept(Records, Places)[n] BY <1>10, <1>12, <2>2, <2>6
  <2>8. script' = script /\ relayed' = more /\ frame' = NoFrame BY <2>1, <2>6 DEF ReturnFrame
  <2>9. at.line \notin Lines BY <1>2 DEF Lines
  <2>10. more = Kept(Records, Places)[at.line - 1] BY <2>7, <1>2, <1>4
  <2>11. /\ NoFrame \in [lines : Seq(Nat), held : Nat] /\ NoFrame.held = 0
         /\ \E x \in 1..at.line : Reads(x, at.line, NoFrame.lines, NoFrame.held, more)
    BY <1>2, <1>12, <2>9, <2>10, Fresh
  <2>12. IsPrefix(more, Expected) BY <2>11, <1>2, PrefixOfReads
  <2>13. /\ at.line <= n + 1 /\ NoFrame.held + at.read <= MaxRecord
         /\ IF at.line > n THEN at.read = 0 ELSE at.read <= LengthOf(at.line)
    BY <1>2, <2>11
  <2>14. FramesSound(more, new.stopped) BY <2>5, <2>6
  <2> QED BY <1>1, <2>1, <2>3, <2>5, <2>8, <2>11, <2>12, <2>13, <2>14, ReadOn, Zenon
<1>13. CASE ~(~Ndjson /\ Payload(frame.lines))
  <2>1. StreamEnds BY <1>13 DEF ReadEnd
  <2>2. relayed = Expected
    <3>1. CASE Ndjson
      <4>1. s = at.line BY <3>1, <1>3 DEF Reads
      <4> QED BY <4>1, <1>2, <1>6
    <3>2. CASE ~Ndjson
      <4>1. ~Payload(frame.lines) BY <3>2, <1>13
      <4> QED BY <4>1, <3>2, <1>6, <1>10
    <3> QED BY <3>1, <3>2
  <2>3. ASSUME NEW how \in {"eof", "cut", "done", "nothing"},
               NEW permits \in {"none", "failover", "transient", "unusable"}, End(how, permits),
               stream.kind = "anthropic" /\ how = "eof" => stream.stopped
        PROVE  RecordsInv'
    <3>1. how \in Endings \ {""} /\ how # "large" BY DEF Endings
    <3> QED BY <1>1, <2>2, <2>3, <3>1, EndStep
  <2>4. CASE stream.kind = "anthropic" /\ ~stream.stopped
    <3>1. End("cut", "unusable") BY <2>1, <2>4 DEF StreamEnds, Ndjson
    <3> QED BY <3>1, <2>3
  <2>5. CASE ~(stream.kind = "anthropic" /\ ~stream.stopped)
    <3>1. \/ End("nothing", "failover") \/ End("done", "none") \/ End("eof", "none")
      BY <2>1, <2>5 DEF StreamEnds
    <3> QED BY <3>1, <2>3, <2>5
  <2> QED BY <2>4, <2>5
<1> QED BY <1>12, <1>13

LEMMA RecordsStart == ASSUME RecordsInit PROVE RecordsInv
<1>1. /\ script \in [lines : Scripts, ended : BOOLEAN] /\ at = [line |-> 1, read |-> 0] /\ frame = NoFrame
      /\ relayed = <<>>
  BY DEF RecordsInit
<1>2. script \in [lines : Seq(Line), ended : BOOLEAN] BY <1>1, RecordsConstants
<1>3. ScriptOK BY <1>2 DEF ScriptOK
<1>4. PICK n \in Nat : n = Len(script.lines) BY <1>3, Lengths
<1>5. stream \in StreamTypes /\ stream.end = "" /\ stream.stopped = FALSE
  BY DEF RecordsInit, StreamTypes, StreamKinds, Endings
<1>6. at \in [line : Nat \ {0}, read : Nat] /\ at.line = 1 /\ at.read = 0 BY <1>1
<1>7. at.line \in 1..(n + 1) /\ at.line - 1 = 0 BY <1>4, <1>6
<1>8. relayed = Kept(Records, Places)[0]
  <2>1. PICK records \in Seq(Seq(Nat)) : records = Records BY <1>3, RecordsAre
  <2>2. PICK places : places = Places OBVIOUS
  <2>3. Kept(records, places)[0] = <<>> BY KeptUnfolds
  <2> QED BY <2>1, <2>2, <2>3, <1>1
<1>9. IF Ndjson THEN \A k \in 1..(at.line - 1) : script.lines[k].kind \notin {"last", "stop"}
      ELSE at.line \in Lines => Starts(at.line)
  BY <1>6, <1>7 DEF Starts
<1>10. /\ NoFrame \in [lines : Seq(Nat), held : Nat] /\ NoFrame.held = 0
       /\ \E s \in 1..at.line : Reads(s, at.line, NoFrame.lines, NoFrame.held, relayed)
  BY <1>3, <1>4, <1>7, <1>8, <1>9, Fresh
<1>11. IsPrefix(relayed, Expected) BY <1>3, <1>4, <1>7, <1>10, PrefixOfReads
<1>12. FramesSound(relayed, stream.stopped)
  <2>1. relayed \in Seq(Seq(Nat)) /\ Len(relayed) = 0 BY <1>1, NothingYet
  <2>2. \A i \in 1..Len(relayed) : Bytes(relayed[i]) <= MaxRecord BY <2>1
  <2>3. ~stream.stopped BY <1>5
  <2> QED BY <2>1, <2>2, <2>3 DEF FramesSound
<1>13. IF AtEnd THEN at.read = 0 ELSE at.read <= LengthOf(at.line)
  <2>1. ASSUME ~AtEnd PROVE at.read <= LengthOf(at.line)
    <3>1. at.line \in Lines BY <2>1, <1>4, <1>7 DEF AtEnd, Lines
    <3>2. LengthOf(at.line) \in Nat BY <3>1, <1>3, Lengths
    <3> QED BY <3>2, <1>6
  <2> QED BY <2>1, <1>6
<1>14. RecordsTypeOK
  <2>1. at.line <= Len(script.lines) + 1 BY <1>4, <1>7
  <2> QED BY <2>1, <1>1, <1>2, <1>5, <1>6, <1>10, <1>12, <1>13 DEF RecordsTypeOK, StreamTypes, FramesSound
<1>15. frame.held + at.read <= MaxRecord
  <2>1. MaxRecord \in Nat BY RecordsConstants
  <2> QED BY <2>1, <1>1, <1>6, <1>10
<1> QED BY <1>1, <1>5, <1>10, <1>11, <1>12, <1>14, <1>15 DEF RecordsInv, FramesSound, Closed

LEMMA RecordsStep == ASSUME RecordsInv, [RecordsNext]_recordVars PROVE RecordsInv'
<1>1. CASE HangUp BY <1>1, HangUpStep
<1>2. CASE BreakOff BY <1>2, BreakOffStep
<1>3. CASE ReadSlice BY <1>3, ReadSliceStep
<1>4. CASE ReadLine BY <1>4, ReadLineStep
<1>5. CASE ReadEvent BY <1>5, ReadEventStep
<1>6. CASE ReadEnd BY <1>6, ReadEndStep
<1>7. CASE UNCHANGED recordVars
  <2>1. /\ script' = script /\ at' = at /\ frame' = frame /\ stream' = stream /\ relayed' = relayed
    BY <1>7 DEF recordVars
  <2>2. /\ \A l : LengthOf(l)' = LengthOf(l)
        /\ \A r : Bytes(r)' = Bytes(r)
        /\ \A r : HasStop(r)' <=> HasStop(r)
        /\ \A s, l, r, h, t : Reads(s, l, r, h, t)' <=> Reads(s, l, r, h, t)
        /\ Expected' = Expected
        /\ TooLarge' <=> TooLarge
    BY <2>1, Frozen, Zenon
  <2>3. RecordsTypeOK'
    <3>1. RecordsTypeOK BY DEF RecordsInv
    <3> QED BY <3>1, <2>1, <2>2 DEF RecordsTypeOK, AtEnd
  <2>4. Closed' <=> Closed BY <2>1 DEF Closed
  <2> QED BY <2>1, <2>2, <2>3, <2>4 DEF RecordsInv
<1> QED BY <1>1, <1>2, <1>3, <1>4, <1>5, <1>6, <1>7 DEF RecordsNext

\* The inductive invariant of a stream's reader.
THEOREM RecordsSound == RecordsSpec => []RecordsInv
<1> QED BY RecordsStart, RecordsStep, PTL DEF RecordsSpec

\* However the bytes of a stream are split over reads, and wherever it breaks off or
\* its caller goes away, the frames relayed are its records that carry data, whole and
\* in order; one is refused as too large exactly when it is; and a Messages stream that
\* ends without an error has relayed its message_stop (sseRecordReader.Next,
\* readBoundedLine, ollamaStream.Next, anthropicStream.Next, extension stream.Next).
THEOREM RecordsAreRelayed == RecordsSpec => []RecordsRelayed
<1>1. ASSUME RecordsInv PROVE RecordsRelayed
  <2>1. relayed \in Seq(Seq(Nat)) BY <1>1 DEF RecordsInv, RecordsTypeOK
  <2>2. DOMAIN relayed = 1..Len(relayed) BY <2>1
  <2>3. RecordsExact BY <1>1 DEF RecordsInv, RecordsExact
  <2>4. BoundExact
    <3>1. \A i \in DOMAIN relayed : Bytes(relayed[i]) <= MaxRecord BY <1>1, <2>2 DEF RecordsInv
    <3>2. stream.end = "large" => TooLarge BY <1>1 DEF RecordsInv
    <3>3. frame.held + at.read <= MaxRecord BY <1>1 DEF RecordsInv
    <3> QED BY <3>1, <3>2, <3>3 DEF BoundExact, TooLarge
  <2>5. CutIsNotComplete
    <3>1. stream.stopped => \E i \in DOMAIN relayed : HasStop(relayed[i]) BY <1>1, <2>2 DEF RecordsInv
    <3>2. stream.kind = "anthropic" /\ stream.end = "eof" => stream.stopped BY <1>1 DEF RecordsInv
    <3> QED BY <3>1, <3>2 DEF CutIsNotComplete, HasStop
  <2> QED BY <2>3, <2>4, <2>5 DEF RecordsRelayed
<1> QED BY <1>1, RecordsSound, PTL

----------------------------------------------------------------------------
(* What a policy decides.                                                  *)

\* What the pattern's segment i takes of the path, from one place to the next.
Takes(segment, from, to, path) ==
    \/ segment = "**" /\ from <= to
    \/ segment = "*" /\ to = from + 1
    \/ to = from + 1 /\ segment = path[to]

\* The path from its (j+1)th segment fits the pattern from its (i+1)th.
FitsFrom(pattern, path, i, j) ==
    \E cut \in [0..Len(pattern) -> 0..Len(path)] :
        /\ cut[i] = j /\ cut[Len(pattern)] = Len(path)
        /\ \A l \in (i + 1)..Len(pattern) : Takes(pattern[l], cut[l - 1], cut[l], path)

\* Where the path may go on, one segment of the pattern earlier.
Earlier(pattern, path, i, next) ==
    {j \in 0..Len(path) :
        IF pattern[i + 1] = "**"
        THEN Skips(pattern[i + 1], i, j, Len(path)) \cap next # {}
        ELSE /\ j < Len(path)
             /\ pattern[i + 1] \in {"*", path[j + 1]}
             /\ j + 1 \in next}

\* matchLossPath's recursion has an answer.
LEMMA MatchUnfolds ==
    ASSUME NEW pattern \in Seq(STRING), NEW path \in Seq(STRING)
    PROVE  \E match :
            /\ MatchLossPath(pattern, path) <=> 0 \in match[0]
            /\ match[Len(pattern)] = {Len(path)}
            /\ \A i \in 0..(Len(pattern) - 1) : match[i] = Earlier(pattern, path, i, match[i + 1])
<1> DEFINE n == Len(pattern)
           m == Len(path)
           Def(f) == [i \in 0..n |-> IF i = n THEN {m}
                        ELSE {j \in 0..m :
                                IF pattern[i + 1] = "**" THEN Skips(pattern[i + 1], i, j, m) \cap f[i + 1] # {}
                                ELSE /\ j < m /\ pattern[i + 1] \in {"*", path[j + 1]} /\ j + 1 \in f[i + 1]}]
           step == [p \in (1..n) \X SUBSET (0..m) |-> Earlier(pattern, path, n - p[1], p[2])]
<1>1. n \in Nat /\ m \in Nat /\ {m} \in SUBSET (0..m) OBVIOUS
<1>2. step \in [(1..n) \X SUBSET (0..m) -> SUBSET (0..m)]
  <2>1. \A p \in (1..n) \X SUBSET (0..m) : Earlier(pattern, path, n - p[1], p[2]) \in SUBSET (0..m)
    BY DEF Earlier
  <2> QED BY <2>1
<1>3. PICK rows \in [0..n -> SUBSET (0..m)] : Solves(rows, n, {m}, step)
  <2> HIDE DEF step, n, m
  <2> QED BY <1>1, <1>2, Recursion, Zenon
<1>4. PICK f : f = [i \in 0..n |-> rows[n - i]] OBVIOUS
<1>5. f[n] = {m} /\ \A i \in 0..(n - 1) : f[i] = Earlier(pattern, path, i, f[i + 1])
  <2>1. f[n] = {m} BY <1>1, <1>3, <1>4 DEF Solves
  <2>2. ASSUME NEW i \in 0..(n - 1) PROVE f[i] = Earlier(pattern, path, i, f[i + 1])
    <3>1. n - i \in 1..n /\ n - (n - i) = i /\ (n - i) - 1 = n - (i + 1) /\ i + 1 \in 0..n BY <1>1
    <3>2. rows[n - i] = step[<<n - i, rows[(n - i) - 1]>>] BY <3>1, <1>3 DEF Solves
    <3>3. rows[(n - i) - 1] \in SUBSET (0..m)
      <4>1. (n - i) - 1 \in 0..n BY <3>1, <1>1
      <4> HIDE DEF n, m
      <4> QED BY <4>1, <1>3
    <3>4. step[<<n - i, rows[(n - i) - 1]>>] = Earlier(pattern, path, n - (n - i), rows[(n - i) - 1])
      BY <3>1, <3>3
    <3>5. f[i] = rows[n - i] /\ f[i + 1] = rows[n - (i + 1)] BY <1>1, <1>4, <3>1
    <3> HIDE DEF step
    <3> QED BY <3>1, <3>2, <3>4, <3>5
  <2> QED BY <2>1, <2>2
<1>6. f = Def(f)
  <2>1. ASSUME NEW i \in 0..n PROVE f[i] = Def(f)[i]
    <3>1. CASE i = n BY <3>1, <1>5
    <3>2. CASE i # n
      <4>1. i \in 0..(n - 1) BY <3>2, <1>1
      <4>2. f[i] = Earlier(pattern, path, i, f[i + 1]) BY <4>1, <1>5
      <4> QED BY <3>2, <4>2 DEF Earlier
    <3> QED BY <3>1, <3>2
  <2>2. f = [i \in 0..n |-> f[i]] BY <1>4
  <2>3. Def(f) = [i \in 0..n |-> Def(f)[i]] OBVIOUS
  <2> QED BY <2>1, <2>2, <2>3
<1>7. PICK g : g = CHOOSE h : h = Def(h) OBVIOUS
<1>8. g = Def(g) BY <1>6, <1>7
<1>9. MatchLossPath(pattern, path) <=> 0 \in g[0] BY <1>7 DEF MatchLossPath
<1>10. g[n] = {m} BY <1>1, <1>8
<1>11. ASSUME NEW i \in 0..(n - 1) PROVE g[i] = Earlier(pattern, path, i, g[i + 1])
  <2>1. i \in 0..n /\ i # n BY <1>1
  <2>2. g[i] = Def(g)[i] BY <1>8
  <2> HIDE <1>8
  <2> QED BY <2>1, <2>2 DEF Earlier
<1> QED BY <1>9, <1>10, <1>11

\* A path matches a pattern as its wildcards mean.
LEMMA MatchIsFit ==
    ASSUME NEW pattern \in Seq(STRING), NEW path \in Seq(STRING)
    PROVE  MatchLossPath(pattern, path) <=> Fits(pattern, path)
<1> DEFINE n == Len(pattern)
           m == Len(path)
<1>1. n \in Nat /\ m \in Nat OBVIOUS
<1>2. PICK match :
        /\ MatchLossPath(pattern, path) <=> 0 \in match[0]
        /\ match[n] = {m}
        /\ \A i \in 0..(n - 1) : match[i] = Earlier(pattern, path, i, match[i + 1])
  BY MatchUnfolds
<1> DEFINE T == {k \in 0..n : \A j \in 0..m : j \in match[n - k] <=> FitsFrom(pattern, path, n - k, j)}
<1>3. 0 \in T
  <2>1. ASSUME NEW j \in 0..m PROVE j \in match[n] <=> FitsFrom(pattern, path, n, j)
    <3>1. ASSUME j = m PROVE FitsFrom(pattern, path, n, j)
      <4>1. PICK cut : cut = [l \in 0..n |-> m] OBVIOUS
      <4>2. cut \in [0..n -> 0..m] /\ cut[n] = m BY <1>1, <4>1
      <4>3. (n + 1)..n = {} BY <1>1
      <4> QED BY <3>1, <4>2, <4>3 DEF FitsFrom
    <3>2. FitsFrom(pattern, path, n, j) => j = m BY DEF FitsFrom
    <3> QED BY <1>2, <3>1, <3>2
  <2> QED BY <1>1, <2>1
<1>4. ASSUME NEW k \in 1..n, k - 1 \in T PROVE k \in T
  <2>1. PICK i \in 0..(n - 1) : i = n - k BY <1>1
  <2>2. n - (k - 1) = i + 1 /\ i + 1 \in 1..n BY <1>1, <2>1
  <2>3. \A j \in 0..m : j \in match[i + 1] <=> FitsFrom(pattern, path, i + 1, j) BY <1>4, <2>2
  <2>4. match[i] = Earlier(pattern, path, i, match[i + 1]) BY <1>2
  <2>5. match[i + 1] \subseteq 0..m
    <3>1. CASE i + 1 = n BY <3>1, <1>1, <1>2
    <3>2. CASE i + 1 # n
      <4>1. i + 1 \in 0..(n - 1) BY <1>1, <2>2, <3>2
      <4> QED BY <4>1, <1>2 DEF Earlier
    <3> QED BY <3>1, <3>2
  <2>6. ASSUME NEW j \in 0..m
        PROVE  j \in match[i] <=>
                 \E next \in 0..m : next \in match[i + 1] /\ Takes(pattern[i + 1], j, next, path)
    <3>1. pattern[i + 1] \in STRING BY <2>2
    <3>2. CASE pattern[i + 1] = "**"
      <4>1. j \in match[i] <=> (j..m) \cap match[i + 1] # {} BY <2>4, <3>2 DEF Earlier, Skips
      <4>2. \A next \in 0..m : Takes(pattern[i + 1], j, next, path) <=> j <= next
        <5>1. ASSUME NEW next \in 0..m PROVE Takes(pattern[i + 1], j, next, path) <=> j <= next
          <6>1. next = j + 1 => j <= next BY <1>1
          <6> QED BY <3>2, <6>1 DEF Takes
        <5> QED BY <5>1
      <4>3. \A next \in 0..m : j <= next <=> next \in j..m BY <1>1
      <4> QED BY <4>1, <4>2, <4>3, <2>5
    <3>3. CASE pattern[i + 1] # "**"
      <4>1. j \in match[i] <=> j < m /\ pattern[i + 1] \in {"*", path[j + 1]} /\ j + 1 \in match[i + 1]
        BY <2>4, <3>3 DEF Earlier
      <4>2. \A next \in 0..m : Takes(pattern[i + 1], j, next, path) <=>
                next = j + 1 /\ pattern[i + 1] \in {"*", path[j + 1]}
        BY <3>3 DEF Takes
      <4>3. j + 1 \in 0..m <=> j < m BY <1>1
      <4> QED BY <4>1, <4>2, <4>3
    <3> QED BY <3>2, <3>3
  <2>7. ASSUME NEW j \in 0..m, NEW next \in 0..m, FitsFrom(pattern, path, i + 1, next),
               Takes(pattern[i + 1], j, next, path)
        PROVE  FitsFrom(pattern, path, i, j)
    <3>1. PICK cut \in [0..n -> 0..m] :
            /\ cut[i + 1] = next /\ cut[n] = m
            /\ \A l \in (i + 2)..n : Takes(pattern[l], cut[l - 1], cut[l], path)
      <4>1. (i + 1) + 1 = i + 2 BY <1>1
      <4> QED BY <4>1, <2>7 DEF FitsFrom
    <3>2. PICK new : new = [cut EXCEPT ![i] = j] OBVIOUS
    <3>3. i \in 0..n /\ i # n BY <1>1
    <3>4. new \in [0..n -> 0..m] /\ new[i] = j /\ \A l \in 0..n : l # i => new[l] = cut[l] BY <3>2, <3>3
    <3>5. new[n] = m BY <1>1, <3>1, <3>3, <3>4
    <3>6. ASSUME NEW l \in (i + 1)..n PROVE Takes(pattern[l], new[l - 1], new[l], path)
      <4>1. CASE l = i + 1
        <5>1. l - 1 = i /\ l # i /\ l \in 0..n BY <4>1, <1>1, <2>2
        <5>2. new[l] = next BY <3>1, <3>4, <4>1, <5>1
        <5> QED BY <2>7, <3>4, <4>1, <5>1, <5>2
      <4>2. CASE l # i + 1
        <5>1. l \in (i + 2)..n /\ l - 1 # i /\ l # i /\ l \in 0..n /\ l - 1 \in 0..n BY <4>2, <1>1, <2>2
        <5> QED BY <3>1, <3>4, <5>1
      <4> QED BY <4>1, <4>2
    <3> QED BY <3>4, <3>5, <3>6 DEF FitsFrom
  <2>8. ASSUME NEW j \in 0..m, FitsFrom(pattern, path, i, j)
        PROVE  \E next \in 0..m : FitsFrom(pattern, path, i + 1, next) /\ Takes(pattern[i + 1], j, next, path)
    <3>1. PICK cut \in [0..n -> 0..m] :
            /\ cut[i] = j /\ cut[n] = m
            /\ \A l \in (i + 1)..n : Takes(pattern[l], cut[l - 1], cut[l], path)
      BY <2>8 DEF FitsFrom
    <3>2. i + 1 \in (i + 1)..n /\ (i + 1) - 1 = i /\ i + 1 \in 0..n BY <1>1, <2>2
    <3>3. Takes(pattern[i + 1], j, cut[i + 1], path) /\ cut[i + 1] \in 0..m BY <3>1, <3>2
    <3>4. \A l \in ((i + 1) + 1)..n : l \in (i + 1)..n BY <1>1
    <3>5. FitsFrom(pattern, path, i + 1, cut[i + 1]) BY <3>1, <3>4 DEF FitsFrom
    <3> QED BY <3>3, <3>5
  <2>9. \A j \in 0..m : j \in match[i] <=> FitsFrom(pattern, path, i, j) BY <2>3, <2>6, <2>7, <2>8
  <2> QED BY <1>1, <2>1, <2>9
<1>5. 0..n \subseteq T
  <2> HIDE DEF T, n
  <2>1. \A k \in 1..n : k - 1 \in T => k \in T BY <1>4
  <2> QED BY <1>1, <1>3, <2>1, UpTo, Zenon
<1>6. 0 \in match[0] <=> FitsFrom(pattern, path, 0, 0)
  <2>1. n \in T
    <3> HIDE DEF T, n
    <3> QED BY <1>1, <1>5
  <2>2. n - n = 0 /\ 0 \in 0..m BY <1>1
  <2> QED BY <2>1, <2>2
<1>7. FitsFrom(pattern, path, 0, 0) <=> Fits(pattern, path)
  <2>1. DOMAIN pattern = 1..n /\ 0 + 1 = 1 OBVIOUS
  <2> QED BY <2>1 DEF FitsFrom, Fits, Takes
<1> QED BY <1>2, <1>6, <1>7

\* LossPolicy.Decide is the first rule that fits, for every list of rules.
LEMMA DecideIsAllowed ==
    ASSUME NEW rules \in Seq(LossRule), ValidPolicy(rules), NEW loss \in Losses
    PROVE  Decide(rules, loss) = "reject" <=> ~Allowed(rules, loss)
<1> DEFINE fit == {i \in DOMAIN rules :
                    /\ rules[i].class \in {"", loss.class} /\ rules[i].severity \in {"", loss.severity}
                    /\ rules[i].path = <<>> \/ Fits(rules[i].path, loss.path)}
<1>0. DOMAIN rules = 1..Len(rules) OBVIOUS
<1>1. PICK places : places = {i \in DOMAIN rules : RuleMatches(rules[i], loss)} OBVIOUS
<1>2. places = fit
  <2>1. ASSUME NEW i \in DOMAIN rules
        PROVE  RuleMatches(rules[i], loss) <=>
                /\ rules[i].class \in {"", loss.class} /\ rules[i].severity \in {"", loss.severity}
                /\ rules[i].path = <<>> \/ Fits(rules[i].path, loss.path)
    <3>1. rules[i] \in LossRule OBVIOUS
    <3>2. rules[i].path \in Seq(STRING) /\ loss.path \in Seq(STRING) BY <3>1 DEF LossRule, Losses
    <3>3. MatchLossPath(rules[i].path, loss.path) <=> Fits(rules[i].path, loss.path) BY <3>2, MatchIsFit
    <3> QED BY <3>3 DEF RuleMatches
  <2> QED BY <1>1, <2>1
<1>3. PICK only : only = Only(rules, places) OBVIOUS
<1>4. only \in Seq(LossRule) /\ Keeps(only, rules, places) BY <1>3, OnlyKeeps
<1>5. Decide(rules, loss) = IF only # <<>> THEN Head(only).action
                            ELSE IF loss.severity = "advisory" THEN "allow" ELSE "reject"
  BY <1>1, <1>3 DEF Decide
<1>6. Allowed(rules, loss) <=> IF fit = {} THEN loss.severity = "advisory"
                               ELSE \E i \in fit : (\A k \in fit : i <= k) /\ rules[i].action = "allow"
  BY DEF Allowed
<1>9. fit \subseteq 1..Len(rules) BY <1>0
<1> HIDE DEF fit
<1>7. CASE only = <<>>
  <2>1. fit = {}
    <3>1. ASSUME NEW p \in fit PROVE FALSE
      <4>1. p \in 1..Len(rules) /\ p \in places BY <1>2, <1>9, <3>1
      <4>2. \E i \in 1..Len(only) : only[i] = rules[p] BY <4>1, <1>4 DEF Keeps
      <4> QED BY <4>2, <1>7
    <3> QED BY <3>1
  <2> QED BY <1>5, <1>6, <1>7, <2>1
<1>8. CASE only # <<>>
  <2>1. PICK p \in 1..Len(rules) : /\ p \in places /\ only[1] = rules[p]
                                   /\ \A q \in 1..Len(rules) : q \in places => p <= q
    BY <1>4, <1>8 DEF Keeps
  <2>2. p \in fit /\ \A k \in fit : p <= k BY <1>2, <1>9, <2>1
  <2>3. \A i \in fit : (\A k \in fit : i <= k) => i = p
    <3>1. \A i \in fit : i \in Nat BY <1>9
    <3> QED BY <2>2, <3>1
  <2>4. Decide(rules, loss) = rules[p].action BY <1>4, <1>5, <1>8, <2>1
  <2>5. rules[p].action \in {"allow", "reject"} BY <1>0, <2>1 DEF ValidPolicy
  <2>6. Allowed(rules, loss) <=> rules[p].action = "allow" BY <1>6, <2>2, <2>3
  <2> QED BY <2>4, <2>5, <2>6
<1> QED BY <1>7, <1>8

\* What a policy rejects of a list of losses is what it does not allow.
LEMMA RejectedAreNotAllowed ==
    ASSUME NEW rules \in Seq(LossRule), ValidPolicy(rules), NEW losses \in Seq(Losses)
    PROVE  /\ Rejected(rules, losses) = <<>> => \A loss \in ToSet(losses) : Allowed(rules, loss)
           /\ Rejected(rules, losses) # <<>> => \E loss \in ToSet(losses) : ~Allowed(rules, loss)
<1>1. PICK places : places = {i \in DOMAIN losses : Decide(rules, losses[i]) = "reject"} OBVIOUS
<1>2. PICK only : only = Only(losses, places) OBVIOUS
<1>3. only = Rejected(rules, losses) BY <1>1, <1>2 DEF Rejected
<1>4. only \in Seq(Losses) /\ Keeps(only, losses, places) BY <1>2, OnlyKeeps
<1>5. \A i \in 1..Len(losses) : i \in places <=> ~Allowed(rules, losses[i])
  <2>1. ASSUME NEW i \in 1..Len(losses) PROVE i \in places <=> ~Allowed(rules, losses[i])
    <3>1. losses[i] \in Losses OBVIOUS
    <3> QED BY <3>1, <1>1, DecideIsAllowed
  <2> QED BY <2>1
<1>6. ToSet(losses) = {losses[i] : i \in 1..Len(losses)} BY DEF ToSet
<1>7. CASE only = <<>>
  <2>1. \A i \in 1..Len(losses) : i \notin places
    <3>1. \A i \in 1..Len(losses) : i \in places => \E k \in 1..Len(only) : only[k] = losses[i]
      BY <1>4 DEF Keeps
    <3> QED BY <3>1, <1>7
  <2> QED BY <1>3, <1>5, <1>6, <1>7, <2>1
<1>8. CASE only # <<>>
  <2>1. PICK p \in 1..Len(losses) : p \in places BY <1>4, <1>8 DEF Keeps
  <2> QED BY <1>3, <1>5, <1>6, <1>8, <2>1
<1> QED BY <1>7, <1>8

\* A surface is routed as the table of routes says.
Routed(surface, native, streaming) ==
    \E r \in ToSet(AdapterRoutes) : r.from = surface /\ r.target \in native /\ (streaming => r.streams)

LEMMA RoutesKept ==
    ASSUME NEW surface, NEW native, NEW streaming \in BOOLEAN
    PROVE  /\ RouteFor(surface, native, streaming) # <<>> <=> Routed(surface, native, streaming)
           /\ RouteFor(surface, native, streaming) # <<>> =>
                Head(RouteFor(surface, native, streaming)).target \in native
<1> DEFINE Routes == [from : Surfaces, target : Surfaces, streams : BOOLEAN]
<1>1. PICK table \in Seq(Routes) : table = AdapterRoutes
  <2>1. AdapterRoutes \in Seq(Routes) BY DEF AdapterRoutes, Route, Surfaces
  <2> QED BY <2>1
<1>2. PICK places : places = {i \in DOMAIN table :
            /\ table[i].from = surface /\ table[i].target \in native
            /\ streaming => table[i].streams} OBVIOUS
<1>3. PICK only : only = Only(table, places) OBVIOUS
<1>4. only = RouteFor(surface, native, streaming) BY <1>1, <1>2, <1>3 DEF RouteFor
<1>5. only \in Seq(Routes) /\ Keeps(only, table, places)
  <2> HIDE DEF Routes
  <2> QED BY <1>3, OnlyKeeps
<1>6. Routed(surface, native, streaming) <=> \E i \in 1..Len(table) : i \in places
  <2>1. ToSet(table) = {table[i] : i \in 1..Len(table)} BY DEF ToSet
  <2> QED BY <1>1, <1>2, <2>1 DEF Routed
<1>7. only # <<>> => Routed(surface, native, streaming) /\ Head(only).target \in native
  <2>1. SUFFICES ASSUME only # <<>> PROVE Routed(surface, native, streaming) /\ Head(only).target \in native
    OBVIOUS
  <2>2. PICK p \in 1..Len(table) : p \in places /\ only[1] = table[p] BY <1>5, <2>1 DEF Keeps
  <2>3. Head(only) = table[p] BY <1>5, <2>1, <2>2
  <2> QED BY <1>2, <1>6, <2>2, <2>3
<1>8. Routed(surface, native, streaming) => only # <<>>
  <2>1. SUFFICES ASSUME Routed(surface, native, streaming) PROVE only # <<>> OBVIOUS
  <2>2. PICK p \in 1..Len(table) : p \in places BY <1>6, <2>1
  <2>3. \E i \in 1..Len(only) : only[i] = table[p] BY <1>5, <2>2 DEF Keeps
  <2> QED BY <2>3
<1> QED BY <1>4, <1>7, <1>8

----------------------------------------------------------------------------
(* The adapter serving a request.                                          *)

Accepted(t, losses) == \A loss \in ToSet(losses) : Allowed(t.case.rules, loss)

\* What decides: the request's losses, or the answer's once the provider has answered.
Deciding(t) == IF t.called = "" THEN t.asked ELSE t.answered
AllLosses(t) == t.asked \o t.provided \o t.answered
Routable(c) == c.surface \in c.native \/ Routed(c.surface, c.native, c.stream)

Trip == [case : Cases, pc : {"begin", "request", "call", "response", "done"},
         called : {""} \cup Surfaces, asked : Seq(Losses), provided : Seq(Losses),
         answered : Seq(Losses), losses : Seq(Losses),
         result : {"", "surface", "invalid_request", "policy", "provider", "upstream", "ok"}]

\* Where a request is says what is known of its losses, and that it has a route.
TripSound(t) ==
    /\ t \in Trip
    /\ t.pc # "done" => t.losses = AllLosses(t) /\ t.answered = <<>> /\ t.result = ""
    /\ t.pc \in {"begin", "request"} => t.called = "" /\ t.asked = <<>>
    /\ t.pc # "response" /\ t.pc # "done" => t.provided = <<>>
    /\ t.pc = "request" => RouteFor(t.case.surface, t.case.native, t.case.stream) # <<>>
    /\ t.pc \in {"call", "response"} => t.called # ""
    /\ t.called # "" => t.called \in t.case.native /\ Accepted(t, t.asked)
    /\ t.pc \notin {"begin", "done"} => Routable(t.case)
    /\ t.pc = "done" =>
        /\ t.result = "surface" <=> ~Routable(t.case)
        /\ (t.case.stream => t.result = "ok") => t.losses = AllLosses(t)
    /\ t.result = "ok" => Accepted(t, t.answered)
    /\ t.result = "policy" => ~Accepted(t, Deciding(t))

AdapterInv == TripSound(trip)

LEMMA CaseFacts ==
    ASSUME NEW c \in Cases
    PROVE  /\ c.rules \in Seq(LossRule) /\ ValidPolicy(c.rules) /\ c.stream \in BOOLEAN
           /\ c.native \subseteq Surfaces /\ c.surface \in Surfaces /\ "" \notin Surfaces
BY AdapterConstants DEF Surfaces

LEMMA NoLosses ==
    /\ <<>> \in Seq(Losses) /\ \A t : Accepted(t, <<>>)
    /\ \A losses \in Seq(Losses) : losses \o <<>> = losses /\ <<>> \o losses = losses
<1>1. <<>> \in Seq(Losses) OBVIOUS
<1>2. ToSet(<<>>) = {} BY DEF ToSet
<1>3. \A t : Accepted(t, <<>>) BY <1>2 DEF Accepted
<1>4. \A losses \in Seq(Losses) : losses \o <<>> = losses /\ <<>> \o losses = losses OBVIOUS
<1> QED BY <1>1, <1>3, <1>4

\* A request ends: with a surface's refusal where it has no route, or with
\* another verdict on its way.
LEMMA FinishSound ==
    ASSUME NEW t \in Trip, t.losses = AllLosses(t),
           t.called # "" => t.called \in t.case.native /\ Accepted(t, t.asked),
           NEW verdict \in {"surface", "invalid_request", "policy", "provider", "upstream", "ok"},
           Finish(t, verdict), verdict = "surface" <=> ~Routable(t.case),
           verdict = "ok" => Accepted(t, t.answered), verdict = "policy" => ~Accepted(t, Deciding(t))
    PROVE  TripSound(trip')
<1>1. PICK losses \in Seq(Losses) :
        losses = IF t.case.stream /\ verdict # "ok" THEN <<>> ELSE t.losses
  <2>0. <<>> \in Seq(Losses) BY NoLosses
  <2>1. t.losses \in Seq(Losses) BY DEF Trip
  <2>2. (IF t.case.stream /\ verdict # "ok" THEN <<>> ELSE t.losses) \in Seq(Losses) BY <2>0, <2>1
  <2> QED BY <2>2
<1>2. trip' = [t EXCEPT !.pc = "done", !.result = verdict, !.losses = losses]
  BY <1>1 DEF Finish, Trip
<1>3. PICK new : new = trip' OBVIOUS
<1>4. /\ new \in Trip /\ new.pc = "done" /\ new.result = verdict /\ new.losses = losses
      /\ new.case = t.case /\ new.called = t.called /\ new.asked = t.asked
      /\ new.provided = t.provided /\ new.answered = t.answered
  BY <1>2, <1>3 DEF Trip
<1>5. AllLosses(new) = AllLosses(t) /\ Deciding(new) = Deciding(t) BY <1>4 DEF AllLosses, Deciding
<1>6. \A lost : Accepted(new, lost) <=> Accepted(t, lost) BY <1>4 DEF Accepted
<1>7. (t.case.stream => verdict = "ok") => new.losses = AllLosses(new) BY <1>1, <1>4, <1>5
<1> QED BY <1>3, <1>4, <1>5, <1>6, <1>7 DEF TripSound

LEMMA AdapterStart == ASSUME AdapterInit PROVE AdapterInv
<1>1. PICK c \in Cases : trip = [case |-> c, pc |-> "begin", called |-> "", asked |-> <<>>,
                                 provided |-> <<>>, answered |-> <<>>, losses |-> <<>>, result |-> ""]
  BY DEF AdapterInit
<1>2. <<>> \in Seq(Losses) BY NoLosses
<1>3. PICK t : t = trip OBVIOUS
<1>4. t \in Trip BY <1>1, <1>2, <1>3 DEF Trip
<1>5. /\ t.pc = "begin" /\ t.called = "" /\ t.asked = <<>> /\ t.provided = <<>> /\ t.answered = <<>>
      /\ t.losses = <<>> /\ t.result = ""
  BY <1>1, <1>3
<1>6. AllLosses(t) = <<>> BY <1>5, NoLosses DEF AllLosses
<1> QED BY <1>3, <1>4, <1>5, <1>6 DEF AdapterInv, TripSound

LEMMA SelectRouteStep == ASSUME AdapterInv, SelectRoute PROVE AdapterInv'
<1>1. PICK t \in Trip : t = trip BY DEF AdapterInv, TripSound
<1>2. TripSound(t) /\ t.pc = "begin" BY <1>1 DEF AdapterInv, SelectRoute
<1>3. /\ t.losses = AllLosses(t) /\ t.called = "" /\ t.result = "" /\ t.asked = <<>> /\ t.provided = <<>>
      /\ t.answered = <<>>
  BY <1>2 DEF TripSound
<1>4. PICK c \in Cases : c = t.case BY DEF Trip
<1>5. /\ c.rules \in Seq(LossRule) /\ c.stream \in BOOLEAN /\ c.native \subseteq Surfaces
      /\ c.surface \in Surfaces /\ "" \notin Surfaces
  BY CaseFacts
<1>6. RouteFor(c.surface, c.native, c.stream) # <<>> <=> Routed(c.surface, c.native, c.stream)
  BY <1>5, RoutesKept
<1>7. CASE c.surface \in c.native /\ trip' = [t EXCEPT !.pc = "call", !.called = c.surface]
  <2>1. PICK new : new = trip' OBVIOUS
  <2>2. /\ new \in Trip /\ new.pc = "call" /\ new.called = c.surface /\ new.case = c
        /\ new.asked = <<>> /\ new.provided = <<>> /\ new.answered = <<>>
        /\ new.losses = t.losses /\ new.result = ""
    BY <1>3, <1>4, <1>5, <1>7, <2>1 DEF Trip
  <2>3. Accepted(new, new.asked) /\ AllLosses(new) = AllLosses(t) BY <1>3, <2>2, NoLosses DEF AllLosses
  <2>4. Routable(c) BY <1>7 DEF Routable
  <2>5. new.losses = AllLosses(new) BY <1>3, <2>2, <2>3
  <2>6. new.called # "" BY <1>5, <2>2
  <2>7. TripSound(new) BY <1>7, <2>2, <2>3, <2>4, <2>5, <2>6 DEF TripSound
  <2> QED BY <2>1, <2>7 DEF AdapterInv
<1>8. CASE c.surface \notin c.native /\ RouteFor(c.surface, c.native, c.stream) = <<>> /\ Finish(t, "surface")
  <2>1. ~Routable(t.case) BY <1>4, <1>6, <1>8 DEF Routable
  <2>2. TripSound(trip') BY <1>3, <1>8, <2>1, FinishSound
  <2> QED BY <2>2 DEF AdapterInv
<1>9. CASE RouteFor(c.surface, c.native, c.stream) # <<>> /\ trip' = [t EXCEPT !.pc = "request"]
  <2>1. PICK new : new = trip' OBVIOUS
  <2>2. /\ new \in Trip /\ new.pc = "request" /\ new.called = "" /\ new.case = c
        /\ new.asked = <<>> /\ new.provided = <<>> /\ new.answered = <<>>
        /\ new.losses = t.losses /\ new.result = ""
    BY <1>3, <1>4, <1>9, <2>1 DEF Trip
  <2>3. Routable(c) /\ AllLosses(new) = AllLosses(t) BY <1>3, <1>6, <1>9, <2>2 DEF Routable, AllLosses
  <2> QED BY <1>3, <1>9, <2>1, <2>2, <2>3 DEF AdapterInv, TripSound
<1> QED BY <1>1, <1>4, <1>7, <1>8, <1>9 DEF SelectRoute

LEMMA TranslateRequestStep == ASSUME AdapterInv, TranslateRequest PROVE AdapterInv'
<1>1. PICK t \in Trip : t = trip BY DEF AdapterInv, TripSound
<1>2. TripSound(t) /\ t.pc = "request" BY <1>1 DEF AdapterInv, TranslateRequest
<1>3. PICK c \in Cases : c = t.case BY DEF Trip
<1>4. /\ c.rules \in Seq(LossRule) /\ ValidPolicy(c.rules) /\ c.stream \in BOOLEAN
      /\ c.native \subseteq Surfaces /\ c.surface \in Surfaces /\ "" \notin Surfaces
  BY CaseFacts
<1>5. PICK target : target = Head(RouteFor(c.surface, c.native, c.stream)).target OBVIOUS
<1>6. /\ t.losses = AllLosses(t) /\ t.called = "" /\ t.result = "" /\ t.provided = <<>> /\ t.answered = <<>>
      /\ RouteFor(c.surface, c.native, c.stream) # <<>> /\ Routable(c)
  BY <1>2, <1>3 DEF TripSound
<1>7. target \in c.native BY <1>4, <1>5, <1>6, RoutesKept
<1>8. CASE Finish(t, "invalid_request")
  <2>1. TripSound(trip') BY <1>3, <1>6, <1>8, FinishSound
  <2> QED BY <2>1 DEF AdapterInv
<1> DEFINE Having(losses) == [t EXCEPT !.asked = losses, !.losses = losses]
<1>9. ASSUME NEW losses \in RequestLosses
      PROVE  /\ losses \in Seq(Losses) /\ Having(losses) \in Trip /\ Having(losses).case = c
             /\ Having(losses).called = "" /\ Having(losses).asked = losses
             /\ Having(losses).provided = <<>> /\ Having(losses).answered = <<>>
             /\ Having(losses).losses = losses /\ Having(losses).result = ""
             /\ AllLosses(Having(losses)) = losses
  <2>1. losses \in Seq(Losses) BY AdapterConstants
  <2>2. PICK h : h = Having(losses) OBVIOUS
  <2>3. /\ h \in Trip /\ h.case = c /\ h.called = "" /\ h.asked = losses /\ h.provided = <<>>
        /\ h.answered = <<>> /\ h.losses = losses /\ h.result = ""
    BY <1>3, <1>6, <2>1, <2>2 DEF Trip
  <2>4. AllLosses(h) = losses BY <2>1, <2>3, NoLosses DEF AllLosses
  <2> QED BY <2>1, <2>2, <2>3, <2>4
<1>10. CASE \E losses \in RequestLosses :
            LET h == [t EXCEPT !.asked = losses, !.losses = losses]
            IN  \/ Finish(h, "invalid_request")
                \/ Rejected(c.rules, losses) # <<>> /\ Finish(h, "policy")
  <2>1. PICK losses \in RequestLosses :
            LET h == [t EXCEPT !.asked = losses, !.losses = losses]
            IN  \/ Finish(h, "invalid_request")
                \/ Rejected(c.rules, losses) # <<>> /\ Finish(h, "policy")
    BY <1>10
  <2>2. PICK h : h = [t EXCEPT !.asked = losses, !.losses = losses] OBVIOUS
  <2>3. /\ losses \in Seq(Losses) /\ h \in Trip /\ h.case = c /\ h.called = "" /\ h.asked = losses
        /\ h.losses = AllLosses(h)
    <3>1. h = Having(losses) BY <2>2
    <3> HIDE DEF Having
    <3> QED BY <1>9, <3>1
  <2>4. CASE Finish(h, "invalid_request")
    <3>1. TripSound(trip') BY <1>6, <2>3, <2>4, FinishSound
    <3> QED BY <3>1 DEF AdapterInv
  <2>5. CASE Rejected(c.rules, losses) # <<>> /\ Finish(h, "policy")
    <3>1. ~Accepted(h, Deciding(h)) BY <1>4, <2>3, <2>5, RejectedAreNotAllowed DEF Accepted, Deciding
    <3>2. TripSound(trip') BY <1>6, <2>3, <2>5, <3>1, FinishSound
    <3> QED BY <3>2 DEF AdapterInv
  <2> QED BY <2>1, <2>2, <2>4, <2>5
<1>11. CASE \E losses \in RequestLosses :
            /\ Rejected(c.rules, losses) = <<>>
            /\ trip' = [[t EXCEPT !.asked = losses, !.losses = losses] EXCEPT !.pc = "call", !.called = target]
  <2>1. PICK losses \in RequestLosses :
            /\ Rejected(c.rules, losses) = <<>>
            /\ trip' = [[t EXCEPT !.asked = losses, !.losses = losses] EXCEPT !.pc = "call", !.called = target]
    BY <1>11
  <2>2. PICK h : h = [t EXCEPT !.asked = losses, !.losses = losses] OBVIOUS
  <2>3. /\ losses \in Seq(Losses) /\ h \in Trip /\ h.case = c /\ h.asked = losses /\ h.losses = losses
        /\ h.provided = <<>> /\ h.answered = <<>> /\ h.result = "" /\ AllLosses(h) = losses
    <3>1. h = Having(losses) BY <2>2
    <3> HIDE DEF Having
    <3> QED BY <1>9, <3>1
  <2>4. PICK new : new = trip' OBVIOUS
  <2>5. /\ new \in Trip /\ new.pc = "call" /\ new.called = target /\ new.case = c
        /\ new.asked = losses /\ new.provided = <<>> /\ new.answered = <<>>
        /\ new.losses = losses /\ new.result = ""
    BY <1>4, <1>7, <2>1, <2>2, <2>3, <2>4 DEF Trip
  <2>6. Accepted(new, losses) /\ AllLosses(new) = losses
    <3>1. Accepted(new, losses) BY <1>4, <2>1, <2>3, <2>5, RejectedAreNotAllowed DEF Accepted
    <3>2. AllLosses(new) = losses BY <2>3, <2>5, NoLosses DEF AllLosses
    <3> QED BY <3>1, <3>2
  <2>7. new.losses = AllLosses(new) /\ target \in new.case.native /\ Routable(new.case)
    BY <1>6, <1>7, <2>5, <2>6
  <2>8. target # "" BY <1>4, <1>7
  <2>9. TripSound(new) BY <2>5, <2>6, <2>7, <2>8 DEF TripSound
  <2> QED BY <2>4, <2>9 DEF AdapterInv
<1> QED BY <1>1, <1>3, <1>5, <1>8, <1>10, <1>11 DEF TranslateRequest

LEMMA JoinedLosses ==
    ASSUME NEW old \in Seq(Losses), NEW losses \in Seq(Losses) PROVE old \o losses \in Seq(Losses)
OBVIOUS

\* The losses there were, with the provider's, and with the answer's.
WithProvided(t, losses, ok) == [Merged(t, losses, ok) EXCEPT !.provided = losses]
WithAnswered(t, losses, ok) == [Merged(t, losses, ok) EXCEPT !.answered = losses]

\* The provider's losses join those there were.
LEMMA ProvidedFacts ==
    ASSUME NEW t \in Trip, t.losses = AllLosses(t), t.provided = <<>>, t.answered = <<>>,
           NEW losses \in OtherLosses, NEW ok \in BOOLEAN,
           NEW m, m = WithProvided(t, losses, ok)
    PROVE  /\ m \in Trip /\ m.losses = AllLosses(m) /\ m.pc = t.pc /\ m.case = t.case
           /\ m.called = t.called /\ m.result = t.result /\ m.asked = t.asked /\ m.answered = <<>>
<1>1. losses \in Seq(Losses) BY AdapterConstants
<1>2. PICK old \in Seq(Losses) : old = t.asked BY DEF Trip
<1>3. PICK all \in Seq(Losses) : all = old \o losses BY <1>1, JoinedLosses
<1>4. t.losses = old BY <1>2, NoLosses DEF AllLosses
<1>5. m = [t EXCEPT !.losses = all, !.provided = losses] BY <1>3, <1>4 DEF WithProvided, Merged, Trip
<1>6. /\ m \in Trip /\ m.losses = all /\ m.pc = t.pc /\ m.case = t.case /\ m.called = t.called
      /\ m.result = t.result /\ m.asked = old /\ m.provided = losses /\ m.answered = <<>>
  BY <1>1, <1>2, <1>5 DEF Trip
<1>7. AllLosses(m) = all BY <1>3, <1>6, NoLosses DEF AllLosses
<1> QED BY <1>2, <1>6, <1>7

\* The losses of the answer's conversion join those there were.
LEMMA AnsweredFacts ==
    ASSUME NEW t \in Trip, t.losses = AllLosses(t), t.answered = <<>>,
           NEW losses \in OtherLosses, NEW ok \in BOOLEAN,
           NEW m, m = WithAnswered(t, losses, ok)
    PROVE  /\ losses \in Seq(Losses) /\ m \in Trip /\ m.losses = AllLosses(m) /\ m.case = t.case
           /\ m.called = t.called /\ m.asked = t.asked /\ m.answered = losses
<1>1. losses \in Seq(Losses) BY AdapterConstants
<1>2. PICK old \in Seq(Losses) : old = t.asked \o t.provided BY JoinedLosses DEF Trip
<1>3. PICK all \in Seq(Losses) : all = old \o losses BY <1>1, JoinedLosses
<1>4. t.losses = old BY <1>2, NoLosses DEF AllLosses
<1>5. m = [t EXCEPT !.losses = all, !.answered = losses] BY <1>3, <1>4 DEF WithAnswered, Merged, Trip
<1>6. /\ m \in Trip /\ m.losses = all /\ m.case = t.case /\ m.called = t.called
      /\ m.asked = t.asked /\ m.provided = t.provided /\ m.answered = losses
  BY <1>1, <1>5 DEF Trip
<1>7. AllLosses(m) = all BY <1>2, <1>3, <1>6 DEF AllLosses
<1> QED BY <1>1, <1>6, <1>7

LEMMA CallProviderStep == ASSUME AdapterInv, CallProvider PROVE AdapterInv'
<1>1. PICK t \in Trip : t = trip BY DEF AdapterInv, TripSound
<1>2. TripSound(t) /\ t.pc = "call" BY <1>1 DEF AdapterInv, CallProvider
<1>3. /\ t.losses = AllLosses(t) /\ t.result = "" /\ t.provided = <<>> /\ t.answered = <<>>
      /\ Routable(t.case) /\ t.called # "" /\ t.called \in t.case.native /\ Accepted(t, t.asked)
  BY <1>2 DEF TripSound
<1>4. PICK losses \in OtherLosses, ok \in BOOLEAN :
        LET m == WithProvided(t, losses, ok)
        IN \/ Finish(m, "provider") \/ Finish(m, "ok")
           \/ trip' = [m EXCEPT !.pc = "response"]
  BY <1>1 DEF CallProvider, WithProvided
<1>5. PICK m : m = WithProvided(t, losses, ok) OBVIOUS
<1>6. /\ m \in Trip /\ m.losses = AllLosses(m) /\ m.pc = "call" /\ m.case = t.case
      /\ m.called = t.called /\ m.result = "" /\ m.asked = t.asked /\ m.answered = <<>>
  <2>1. /\ m \in Trip /\ m.losses = AllLosses(m) /\ m.pc = t.pc /\ m.case = t.case
        /\ m.called = t.called /\ m.result = t.result /\ m.asked = t.asked /\ m.answered = <<>>
    <3>1. PICK yes \in BOOLEAN : yes = ok OBVIOUS
    <3>2. m = WithProvided(t, losses, yes) BY <1>5, <3>1
    <3>3. t.losses = AllLosses(t) /\ t.provided = <<>> /\ t.answered = <<>> BY <1>3
    <3> HIDE <3>1
    <3> QED BY <3>2, <3>3, ProvidedFacts
  <2> QED BY <2>1, <1>2, <1>3
<1>7. Accepted(m, m.asked) /\ Accepted(m, m.answered)
  <2>1. Accepted(m, m.asked) BY <1>3, <1>6 DEF Accepted
  <2> QED BY <1>6, <2>1, NoLosses
<1>8. CASE Finish(m, "provider") \/ Finish(m, "ok")
  <2>1. TripSound(trip') BY <1>3, <1>6, <1>7, <1>8, FinishSound
  <2> QED BY <2>1 DEF AdapterInv
<1>9. CASE trip' = [m EXCEPT !.pc = "response"]
  <2>1. PICK new : new = trip' OBVIOUS
  <2>2. /\ new \in Trip /\ new.pc = "response" /\ new.called = t.called /\ new.case = t.case
        /\ new.asked = m.asked /\ new.provided = m.provided /\ new.answered = <<>>
        /\ new.losses = m.losses /\ new.result = ""
    BY <1>6, <1>9, <2>1 DEF Trip
  <2>3. AllLosses(new) = AllLosses(m) /\ Accepted(new, new.asked)
    BY <1>6, <1>7, <2>2 DEF AllLosses, Accepted
  <2> QED BY <1>3, <1>6, <2>1, <2>2, <2>3 DEF AdapterInv, TripSound
<1> QED BY <1>4, <1>5, <1>8, <1>9

LEMMA TranslateResponseStep == ASSUME AdapterInv, TranslateResponse PROVE AdapterInv'
<1>1. PICK t \in Trip : t = trip BY DEF AdapterInv, TripSound
<1>2. TripSound(t) /\ t.pc = "response" BY <1>1 DEF AdapterInv, TranslateResponse
<1>3. /\ t.losses = AllLosses(t) /\ t.result = "" /\ t.answered = <<>>
      /\ Routable(t.case) /\ t.called # "" /\ t.called \in t.case.native /\ Accepted(t, t.asked)
  BY <1>2 DEF TripSound
<1>4. PICK c \in Cases : c = t.case BY DEF Trip
<1>5. c.rules \in Seq(LossRule) /\ ValidPolicy(c.rules) BY CaseFacts
<1>6. CASE Finish(t, "upstream")
  <2>1. TripSound(trip') BY <1>3, <1>6, FinishSound
  <2> QED BY <2>1 DEF AdapterInv
<1>7. ASSUME NEW losses \in OtherLosses,
             Finish(WithAnswered(t, losses, TRUE), AnswerChecked(c.rules, losses))
      PROVE  AdapterInv'
  <2>1. PICK m : m = WithAnswered(t, losses, TRUE) OBVIOUS
  <2>2. /\ losses \in Seq(Losses) /\ m \in Trip /\ m.losses = AllLosses(m) /\ m.case = c
        /\ m.called = t.called /\ m.asked = t.asked /\ m.answered = losses
    <3>1. PICK yes \in BOOLEAN : yes = TRUE OBVIOUS
    <3>2. m = WithAnswered(t, losses, yes) BY <2>1, <3>1
    <3>3. t.losses = AllLosses(t) /\ t.answered = <<>> BY <1>3
    <3> HIDE <3>1
    <3>4. /\ losses \in Seq(Losses) /\ m \in Trip /\ m.losses = AllLosses(m) /\ m.case = t.case
          /\ m.called = t.called /\ m.asked = t.asked /\ m.answered = losses
      BY <3>2, <3>3, AnsweredFacts
    <3> QED BY <1>4, <3>4
  <2>3. PICK verdict \in {"policy", "ok"} : verdict = AnswerChecked(c.rules, losses)
    BY DEF AnswerChecked
  <2>4. verdict = "policy" => ~Accepted(m, Deciding(m))
    BY <1>3, <1>5, <2>2, <2>3, RejectedAreNotAllowed DEF Accepted, Deciding, AnswerChecked
  <2>5. verdict = "ok" => Accepted(m, m.answered)
    BY <1>5, <2>2, <2>3, RejectedAreNotAllowed DEF Accepted, AnswerChecked
  <2>6. Finish(m, verdict) BY <1>7, <2>1, <2>3
  <2>7. Accepted(m, m.asked) BY <1>3, <1>4, <2>2 DEF Accepted
  <2>8. TripSound(trip') BY <1>3, <1>4, <2>2, <2>4, <2>5, <2>6, <2>7, FinishSound
  <2> QED BY <2>8 DEF AdapterInv
<1> QED BY <1>1, <1>4, <1>6, <1>7 DEF TranslateResponse, WithAnswered

\* The inductive invariant of the adapter: at each step the losses so far were allowed,
\* or exactly one refusal ended the request.
THEOREM AdapterSound == AdapterSpec => []AdapterInv
<1>1. AdapterInit => AdapterInv BY AdapterStart
<1>2. AdapterInv /\ [AdapterNext]_adapterVars => AdapterInv'
  <2>1. ASSUME AdapterInv, AdapterNext PROVE AdapterInv'
    BY <2>1, SelectRouteStep, TranslateRequestStep, CallProviderStep, TranslateResponseStep DEF AdapterNext
  <2>2. ASSUME AdapterInv, UNCHANGED adapterVars PROVE AdapterInv'
    BY <2>2 DEF adapterVars, AdapterInv
  <2> QED BY <2>1, <2>2
<1> QED BY <1>1, <1>2, PTL DEF AdapterSpec

\* A request is served where the adapter promises; the losses of converting it, and of
\* converting an answer that is no stream, are ones the product allows; and every loss
\* of an invocation or a stream that opened, the provider's unchecked ones too, is
\* reported (Adapter.Invoke, Adapter.Stream).
THEOREM LossesAreDecided == AdapterSpec => []LossesDecided
<1>1. AdapterInv => LossesDecided
  <2>1. SUFFICES ASSUME AdapterInv PROVE LossesDecided OBVIOUS
  <2>2. PICK t \in Trip : t = trip BY <2>1 DEF AdapterInv, TripSound
  <2>3. TripSound(t) BY <2>1, <2>2 DEF AdapterInv
  <2>4. PICK c \in Cases : c = t.case BY DEF Trip
  <2>5. PolicyDecides BY <2>2, <2>3 DEF PolicyDecides, TripSound, Accepted, Deciding
  <2>6. LossesReported BY <2>2, <2>3 DEF LossesReported, TripSound, AllLosses
  <2>7. ServedAsPromised
    <3>1. c.stream \in BOOLEAN BY CaseFacts
    <3>2. \A streaming \in BOOLEAN :
            RouteFor(c.surface, c.native, streaming) # <<>> <=> Routed(c.surface, c.native, streaming)
      BY RoutesKept
    <3>3. Serves(c.surface, c.native) <=> c.surface \in c.native \/ Routed(c.surface, c.native, FALSE)
      BY <3>2 DEF Serves
    <3>4. ServesStream(c.surface, c.native) <=> c.surface \in c.native \/ Routed(c.surface, c.native, TRUE)
      BY <3>2 DEF ServesStream
    <3>5. t.pc = "done" => (t.result = "surface" <=> ~Routable(c)) BY <2>3, <2>4 DEF TripSound
    <3>6. t.called # "" => t.called \in c.native BY <2>3, <2>4 DEF TripSound
    <3> QED BY <2>2, <2>4, <3>3, <3>4, <3>5, <3>6 DEF ServedAsPromised, Routable, Routed
  <2> QED BY <2>5, <2>6, <2>7 DEF LossesDecided
<1> QED BY <1>1, AdapterSound, PTL
=============================================================================
