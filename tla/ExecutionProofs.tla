-------------------------- MODULE ExecutionProofs --------------------------
(***************************************************************************)
(* execution.Execute and ExecuteStream, proved for any number of           *)
(* executions and candidates, any lists, policies, errors and attempts.    *)
(***************************************************************************)
EXTENDS Execution, SharedProofs, SequenceTheorems

----------------------------------------------------------------------------
(* The inductive invariant.                                                *)

\* An execution at a candidate of its list.
AtCandidate(e) == e.list \in Lists /\ e.at \in 1..Len(e.list)

\* Health has heard of every candidate tried but the one the execution is at.
Trying(e) == AtCandidate(e) /\ e.tried = e.recorded \cup {e.at}

\* Health has heard of every candidate tried, and the last error is that of one.
Walking(e) == e.tried = e.recorded /\ (e.last # None <=> e.tried # {})

\* What the last try left: when it failed its stream is closed, its caller had
\* not given up, and an error after output ends the execution.
Judged(e) ==
    /\ Trying(e)
    /\ e.streams # {} => e.kind = "stream"
    /\ e.err # None =>
          e.streams = {} /\ ~e.late /\ (e.output # {} => Disposition(e.err) = "terminal")

\* What the locals of an execution at a label are, with the outcome it has left.
Locals(e, at, how) ==
    /\ at # "idle" => how = "none"
    /\ at = "next" => e.list \in Lists /\ e.at \in Nat \ {0} /\ Walking(e)
    /\ at = "admit" => AtCandidate(e) /\ Walking(e)
    /\ at \in {"run", "held", "wait"} => Trying(e)
    /\ at \in {"next", "admit", "run", "held", "wait"} => e.output = {}
    /\ at = "held" => e.kind = "stream"
    /\ at \in {"observe", "record"} => Judged(e)
    /\ at = "record" => e.policy \in Policy
    /\ at = "serving" => e.tried = e.recorded /\ e.tried # {}
    /\ e.streams \subseteq IF at \in {"held", "observe", "record", "serving"} THEN {e.at} ELSE {}
    /\ e.recorded \subseteq e.tried
    /\ how \in {"served", "failed"} => e.recorded = e.tried /\ e.tried # {}
    /\ how = "canceled" => e.tried \ e.recorded \subseteq {e.at}
    /\ how = "unavailable" => e.tried = {}

LocalsOK == \A t \in Thread : Locals(exec[t], pc[t], outcome[t])

IInv == TypeOK /\ LocalsOK

----------------------------------------------------------------------------
(* The operators.                                                          *)

\* AfterOutputError classifies as nothing, and ends an execution.
LEMMA AfterOutputEnds ==
    AfterOutput \in Classification /\ Disposition(AfterOutput) = "terminal" /\ AfterOutput # None
<1>1. (CHOOSE c \in Class : TRUE) \in Class BY ExecutionConstants
<1>2. AfterOutput \in Classification BY <1>1 DEF AfterOutput, Classification
<1> QED BY <1>2, ExecutionConstants DEF AfterOutput, Disposition

\* What an execution records is an observation.
LEMMA ObservedHeard ==
    ASSUME NEW t \in Thread, exec[t] \in Exec
    PROVE  Heard(Observed(t))
<1>1. CASE exec[t].err = None BY <1>1 DEF Observed, Heard, Effects
<1>2. CASE exec[t].err # None
  <2>1. exec[t].err \in Classification BY <1>2 DEF Exec
  <2> QED BY <1>2, <2>1 DEF Observed, Heard, Observe, Effects, Classification
<1> QED BY <1>1, <1>2

\* A candidate is a key.
LEMMA CandidateKey ==
    ASSUME NEW t \in Thread, AtCandidate(exec[t])
    PROVE  Candidate(t) \in Key
<1>1. exec[t].list \in Seq(Key) BY ExecutionConstants DEF AtCandidate
<1> QED BY <1>1, ElementOfSeq DEF AtCandidate, Candidate

\* A new execution.
LEMMA NewExecs ==
    ASSUME NEW kind \in Kinds, NEW list \in Lists \cup {<<>>}
    PROVE  NewExec(kind, list) \in Exec
BY DEF NewExec, Exec

\* No execution has begun, and the tracker knows no key.
LEMMA InitIInv == Init => IInv
<1> SUFFICES ASSUME Init PROVE IInv OBVIOUS
<1>1. HealthTypeOK BY NoHealthState DEF Init, HealthInit, HealthTypeOK
<1>2. TypeOK
  <2>1. exec \in [Thread -> Exec] BY NewExecs DEF Init, NoExec, Kinds
  <2>2. begun \in 0..MaxRuns BY ExecutionConstants DEF Init
  <2>3. pc \in [Thread -> Labels] /\ outcome \in [Thread -> Outcomes] BY DEF Init, Labels, Outcomes
  <2>4. ended \in [Thread -> BOOLEAN] BY DEF Init
  <2> QED BY <1>1, <2>1, <2>2, <2>3, <2>4 DEF TypeOK
<1>3. LocalsOK BY DEF Init, LocalsOK, Locals, NoExec, NewExec
<1> QED BY <1>2, <1>3 DEF IInv

----------------------------------------------------------------------------
(* An execution's steps.                                                   *)

\* Thread t has moved: its locals, label and outcome are now these.
Moved(t, e, at, how) ==
    /\ e \in Exec /\ at \in Labels /\ how \in Outcomes
    /\ exec' = [exec EXCEPT ![t] = e]
    /\ pc' = [pc EXCEPT ![t] = at]
    /\ outcome' = [outcome EXCEPT ![t] = how]
    /\ Locals(e, at, how)

Moves(t) == \E e, at, how : Moved(t, e, at, how)

\* The caller gave up: the candidate it was at may be left unrecorded.
LEMMA StoppedMoves ==
    ASSUME IInv, NEW t \in Thread, NEW e \in Exec, Trying(e), e.streams = {}, Stopped(t, e)
    PROVE  Moves(t)
<1>1. Locals(e, "idle", "canceled") BY DEF Locals, Trying
<1>2. Moved(t, e, "idle", "canceled") BY <1>1 DEF Moved, Stopped, Set, Done, Goto, Labels, Outcomes
<1> QED BY <1>2 DEF Moves

\* A try that failed, its stream closed; after output its error is terminal.
LEMMA TryFailsMoves ==
    ASSUME IInv, NEW t \in Thread, NEW e \in Exec, NEW err \in Classification,
           TryFails(t, e, err), pc[t] # "idle", Trying(e), e.streams = {},
           e.output # {} => Disposition(err) = "terminal"
    PROVE  Moves(t)
<1>1. CASE Stopped(t, e) BY <1>1, StoppedMoves
<1>2. CASE ~Stopped(t, e)
  <2> DEFINE g == [e EXCEPT !.err = err, !.late = ended[t]]
  <2>1. ~ended[t] /\ exec' = [exec EXCEPT ![t] = g] /\ UNCHANGED outcome
        /\ pc' = [pc EXCEPT ![t] = IF MayRepeat(t, err) THEN "wait" ELSE "observe"]
      BY <1>2 DEF TryFails, Set, Goto
  <2>2. ended[t] \in BOOLEAN /\ outcome[t] = "none" /\ outcome = [outcome EXCEPT ![t] = outcome[t]]
      BY DEF IInv, TypeOK, LocalsOK, Locals
  <2>3. g \in Exec BY <2>2 DEF Exec
  <2>4. /\ g.list = e.list /\ g.at = e.at /\ g.tried = e.tried /\ g.recorded = e.recorded
        /\ g.streams = {} /\ g.output = e.output /\ g.err = err /\ g.late = ended[t]
      BY DEF Exec
  <2> HIDE DEF g
  <2>5. Trying(g) BY <2>4 DEF Trying, AtCandidate
  <2>6. Judged(g) BY <2>1, <2>2, <2>4, <2>5 DEF Judged
  <2>7. Locals(g, "observe", "none") BY <2>4, <2>5, <2>6 DEF Locals, Trying
  <2>8. MayRepeat(t, err) => Locals(g, "wait", "none")
      BY <2>4, <2>5 DEF Locals, Trying, MayRepeat
  <2>9. Moved(t, g, IF MayRepeat(t, err) THEN "wait" ELSE "observe", "none")
      BY <2>1, <2>2, <2>3, <2>7, <2>8 DEF Moved, Labels, Outcomes
  <2> QED BY <2>9 DEF Moves
<1> QED BY <1>1, <1>2

\* A try that served.
LEMMA TrySucceedsMoves ==
    ASSUME IInv, NEW t \in Thread, NEW e \in Exec, TrySucceeds(t, e), pc[t] # "idle", Trying(e),
           e.streams # {} => e.kind = "stream", e.streams \subseteq {e.at}
    PROVE  Moves(t)
<1> DEFINE g == [e EXCEPT !.err = None, !.late = ended[t]]
<1>1. exec' = [exec EXCEPT ![t] = g] /\ UNCHANGED outcome /\ pc' = [pc EXCEPT ![t] = "observe"]
    BY DEF TrySucceeds, Set, Goto
<1>2. ended[t] \in BOOLEAN /\ outcome[t] = "none" /\ outcome = [outcome EXCEPT ![t] = outcome[t]]
    BY DEF IInv, TypeOK, LocalsOK, Locals
<1>3. g \in Exec BY <1>2 DEF Exec
<1>4. /\ g.list = e.list /\ g.at = e.at /\ g.tried = e.tried /\ g.recorded = e.recorded
      /\ g.streams = e.streams /\ g.kind = e.kind /\ g.err = None
    BY DEF Exec
<1> HIDE DEF g
<1>5. Trying(g) BY <1>4 DEF Trying, AtCandidate
<1>6. Judged(g) BY <1>4, <1>5 DEF Judged
<1>7. Locals(g, "observe", "none") BY <1>4, <1>5, <1>6 DEF Locals, Trying
<1>8. Moved(t, g, "observe", "none") BY <1>1, <1>2, <1>3, <1>7 DEF Moved, Labels, Outcomes
<1> QED BY <1>8 DEF Moves

\* Every step of an execution moves it and only it.
LEMMA StepMoves ==
    ASSUME IInv, NEW t \in Thread,
           \/ \E kind \in Kinds, list \in Lists : Begin(t, kind, list)
           \/ Cancel(t)
           \/ Step(t)
    PROVE  Moves(t)
<1> DEFINE e == exec[t]
<1>0. /\ e \in Exec /\ Locals(e, pc[t], outcome[t])
      /\ exec = [exec EXCEPT ![t] = e] /\ pc = [pc EXCEPT ![t] = pc[t]]
      /\ outcome = [outcome EXCEPT ![t] = outcome[t]]
      /\ pc[t] \in Labels /\ outcome[t] \in Outcomes
    BY DEF IInv, TypeOK, LocalsOK
<1>a. pc[t] # "idle" => outcome[t] = "none" BY <1>0 DEF Locals
<1>b. /\ e.at \in Nat /\ e.tries \in Nat /\ e.list \in Lists \cup {<<>>} /\ e.kind \in Kinds
      /\ e.tried \subseteq Nat /\ e.recorded \subseteq Nat /\ e.streams \subseteq Nat
      /\ e.output \subseteq Nat
    BY <1>0 DEF Exec
<1> USE DEF Goto, Set, Done
<1>1. ASSUME NEW kind \in Kinds, NEW list \in Lists, Begin(t, kind, list) PROVE Moves(t)
  <2> DEFINE g == NewExec(kind, list)
  <2>1. g \in Exec BY NewExecs
  <2>2. Locals(g, "next", "none") BY DEF Locals, NewExec, Walking
  <2>3. Moved(t, g, "next", "none") BY <1>1, <2>1, <2>2 DEF Begin, Moved, Labels, Outcomes
  <2> QED BY <2>3 DEF Moves
<1>2. CASE Cancel(t)
  <2>1. Moved(t, e, pc[t], outcome[t]) BY <1>0, <1>2 DEF Cancel, Moved
  <2> QED BY <2>1 DEF Moves
<1>3. CASE NextCandidate(t)
  <2>0. /\ pc[t] = "next" /\ outcome[t] = "none" /\ e.list \in Lists /\ e.at \in Nat \ {0}
        /\ Walking(e) /\ e.output = {} /\ e.streams = {}
      BY <1>0, <1>3 DEF NextCandidate, Locals
  <2>1. CASE e.at > Len(e.list)
    <3> DEFINE how == IF e.last # None THEN "failed" ELSE "unavailable"
    <3>1. Locals(e, "idle", how) BY <1>0, <2>0 DEF Locals, Walking
    <3>2. exec' = [exec EXCEPT ![t] = e] /\ pc' = [pc EXCEPT ![t] = "idle"]
          /\ outcome' = [outcome EXCEPT ![t] = how]
      <4>1. Len(e.list) \in Nat BY <2>0, ExecutionConstants
      <4> QED BY <1>0, <1>3, <2>0, <2>1, <4>1 DEF NextCandidate
    <3>3. Moved(t, e, "idle", how) BY <1>0, <3>1, <3>2 DEF Moved, Labels, Outcomes
    <3> QED BY <3>3 DEF Moves
  <2>2. CASE e.at <= Len(e.list) /\ ended[t]
    <3>1. Locals(e, "idle", "canceled") BY <1>0, <2>0 DEF Locals, Walking
    <3>2. exec' = [exec EXCEPT ![t] = e] /\ pc' = [pc EXCEPT ![t] = "idle"]
          /\ outcome' = [outcome EXCEPT ![t] = "canceled"]
      <4>1. Len(e.list) \in Nat BY <2>0, ExecutionConstants
      <4> QED BY <1>0, <1>3, <2>0, <2>2, <4>1 DEF NextCandidate
    <3>3. Moved(t, e, "idle", "canceled") BY <1>0, <3>1, <3>2 DEF Moved, Labels, Outcomes
    <3> QED BY <3>3 DEF Moves
  <2>3. CASE e.at <= Len(e.list) /\ ~ended[t]
    <3>0. AtCandidate(e)
      <4>1. Len(e.list) \in Nat BY <2>0, ExecutionConstants
      <4> QED BY <2>0, <2>3, <4>1 DEF AtCandidate
    <3> DEFINE h == health[Candidate(t)]
               g == [e EXCEPT !.open = h.open, !.cool = h.cool, !.clock = now]
    <3>1. h.open \in Nat /\ h.cool \in Nat /\ now \in Nat
        BY <3>0, CandidateKey, HealthFields DEF IInv, TypeOK, HealthTypeOK
    <3>2. g \in Exec BY <1>0, <3>1 DEF Exec
    <3>3. exec' = [exec EXCEPT ![t] = g] /\ pc' = [pc EXCEPT ![t] = "admit"] /\ UNCHANGED outcome
      <4>1. Len(e.list) \in Nat BY <2>0, ExecutionConstants
      <4> QED BY <1>0, <1>3, <2>0, <2>3, <4>1 DEF NextCandidate
    <3>4. /\ g.list = e.list /\ g.at = e.at /\ g.tried = e.tried /\ g.recorded = e.recorded
          /\ g.streams = e.streams /\ g.output = e.output /\ g.last = e.last
        BY <1>0 DEF Exec
    <3> HIDE DEF g
    <3>5. Locals(g, "admit", "none") BY <2>0, <3>0, <3>4 DEF Locals, Walking, AtCandidate
    <3>6. Moved(t, g, "admit", "none") BY <1>0, <2>0, <3>2, <3>3, <3>5 DEF Moved, Labels, Outcomes
    <3> QED BY <3>6 DEF Moves
  <2>4. e.at > Len(e.list) \/ e.at <= Len(e.list)
    <3>1. Len(e.list) \in Nat BY <2>0, ExecutionConstants
    <3> QED BY <2>0, <3>1
  <2> QED BY <2>1, <2>2, <2>3, <2>4
<1>4. CASE Admit(t)
  <2>0. /\ pc[t] = "admit" /\ outcome[t] = "none" /\ AtCandidate(e) /\ Walking(e)
        /\ e.output = {} /\ e.streams = {}
      BY <1>0, <1>4 DEF Admit, Locals
  <2> DEFINE f == [e EXCEPT !.at = @ + 1, !.open = 0, !.cool = 0, !.clock = 0]
             g == [e EXCEPT !.tries = 1, !.open = 0, !.cool = 0, !.clock = 0, !.tried = @ \cup {e.at}]
  <2>1. f \in Exec
    <3>1. e.at + 1 \in Nat BY <1>b
    <3> QED BY <1>0, <3>1 DEF Exec
  <2>2. g \in Exec
    <3>1. e.tried \cup {e.at} \in SUBSET Nat BY <1>b
    <3> QED BY <1>0, <3>1 DEF Exec
  <2>3. Locals(f, "next", "none")
    <3>1. /\ f.list = e.list /\ f.at = e.at + 1 /\ f.tried = e.tried /\ f.recorded = e.recorded
          /\ f.streams = e.streams /\ f.output = e.output /\ f.last = e.last
        BY <1>0 DEF Exec
    <3>2. f.at \in Nat \ {0} BY <1>b, <3>1
    <3> HIDE DEF f
    <3> QED BY <2>0, <3>1, <3>2 DEF Locals, Walking, AtCandidate
  <2>4. Locals(g, "run", "none")
    <3>1. /\ g.list = e.list /\ g.at = e.at /\ g.tried = e.tried \cup {e.at}
          /\ g.recorded = e.recorded /\ g.streams = e.streams /\ g.output = e.output
        BY <1>0 DEF Exec
    <3> HIDE DEF g
    <3> QED BY <2>0, <3>1 DEF Locals, Walking, Trying, AtCandidate
  <2>5. \/ exec' = [exec EXCEPT ![t] = f] /\ pc' = [pc EXCEPT ![t] = "next"]
        \/ exec' = [exec EXCEPT ![t] = g] /\ pc' = [pc EXCEPT ![t] = "run"]
      BY <1>4 DEF Admit
  <2>6. outcome' = [outcome EXCEPT ![t] = "none"] BY <1>0, <1>4, <2>0 DEF Admit
  <2> HIDE DEF f, g
  <2>7. Moved(t, f, "next", "none") \/ Moved(t, g, "run", "none")
      BY <2>1, <2>2, <2>3, <2>4, <2>5, <2>6 DEF Moved, Labels, Outcomes
  <2> QED BY <2>7 DEF Moves
<1>5. CASE pc[t] = "run" /\ (Invoked(t) \/ Pushed(t))
  <2>0. pc[t] # "idle" /\ Trying(e) /\ e.output = {} /\ e.streams = {} BY <1>0, <1>5 DEF Locals
  <2> DEFINE g == [e EXCEPT !.output = @ \cup {e.at}]
  <2>1. g \in Exec
    <3>1. e.output \cup {e.at} \in SUBSET Nat BY <1>b
    <3> QED BY <1>0, <3>1 DEF Exec
  <2>2. Trying(g) /\ g.streams = {}
    <3>1. /\ g.list = e.list /\ g.at = e.at /\ g.tried = e.tried /\ g.recorded = e.recorded
          /\ g.streams = e.streams
        BY <1>0 DEF Exec
    <3> HIDE DEF g
    <3> QED BY <2>0, <3>1 DEF Trying, AtCandidate
  <2>3. CASE TrySucceeds(t, g)
    <3> HIDE DEF g
    <3> QED BY <2>0, <2>1, <2>2, <2>3, TrySucceedsMoves
  <2>4. CASE TryFails(t, g, AfterOutput)
    <3> HIDE DEF g
    <3> QED BY <2>0, <2>1, <2>2, <2>4, AfterOutputEnds, TryFailsMoves
  <2>5. ASSUME NEW err \in Errors, TryFails(t, e, err) PROVE Moves(t)
      BY <1>0, <2>0, <2>5, ExecutionConstants, TryFailsMoves
  <2> QED BY <1>5, <2>3, <2>4, <2>5 DEF Invoked, Pushed
<1>6. CASE Repeat(t)
  <2>0. pc[t] = "wait" /\ outcome[t] = "none" /\ Trying(e) /\ e.output = {} /\ e.streams = {}
      BY <1>0, <1>6 DEF Locals, Repeat
  <2>1. CASE Stopped(t, e) BY <1>0, <2>0, <2>1, StoppedMoves
  <2>2. CASE ~Stopped(t, e)
    <3> DEFINE g == [e EXCEPT !.tries = @ + 1, !.err = None]
    <3>1. g \in Exec
      <4>1. e.tries + 1 \in Nat BY <1>b
      <4> QED BY <1>0, <4>1 DEF Exec
    <3>2. exec' = [exec EXCEPT ![t] = g] /\ pc' = [pc EXCEPT ![t] = "run"] /\ UNCHANGED outcome
        BY <1>6, <2>2 DEF Repeat
    <3>3. /\ g.list = e.list /\ g.at = e.at /\ g.tried = e.tried /\ g.recorded = e.recorded
          /\ g.streams = e.streams /\ g.output = e.output
        BY <1>0 DEF Exec
    <3> HIDE DEF g
    <3>4. Locals(g, "run", "none") BY <2>0, <3>3 DEF Locals, Trying, AtCandidate
    <3>5. Moved(t, g, "run", "none") BY <1>0, <2>0, <3>1, <3>2, <3>4 DEF Moved, Labels, Outcomes
    <3> QED BY <3>5 DEF Moves
  <2> QED BY <2>1, <2>2
<1>7. CASE Opened(t)
  <2>0. pc[t] = "run" /\ outcome[t] = "none" /\ e.kind = "stream" /\ Trying(e) /\ e.output = {}
        /\ e.streams = {}
      BY <1>0, <1>7 DEF Locals, Opened
  <2> DEFINE g == [e EXCEPT !.streams = @ \cup {e.at}]
  <2>1. CASE exec' = [exec EXCEPT ![t] = g] /\ pc' = [pc EXCEPT ![t] = "held"] /\ UNCHANGED outcome
    <3>1. g \in Exec
      <4>1. e.streams \cup {e.at} \in SUBSET Nat BY <1>b
      <4> QED BY <1>0, <4>1 DEF Exec
    <3>2. /\ g.list = e.list /\ g.at = e.at /\ g.tried = e.tried /\ g.recorded = e.recorded
          /\ g.streams = e.streams \cup {e.at} /\ g.output = e.output /\ g.kind = e.kind
        BY <1>0 DEF Exec
    <3> HIDE DEF g
    <3>3. Locals(g, "held", "none") BY <2>0, <3>2 DEF Locals, Trying, AtCandidate
    <3>4. Moved(t, g, "held", "none") BY <1>0, <2>0, <2>1, <3>1, <3>3 DEF Moved, Labels, Outcomes
    <3> QED BY <3>4 DEF Moves
  <2>2. ASSUME NEW err \in Errors, TryFails(t, e, err) PROVE Moves(t)
      BY <1>0, <2>0, <2>2, ExecutionConstants, TryFailsMoves
  <2> QED BY <1>7, <2>1, <2>2 DEF Opened
<1>8. CASE Commit(t)
  <2>0. pc[t] = "held" /\ e.kind = "stream" /\ Trying(e) /\ e.output = {} /\ e.streams \subseteq {e.at}
      BY <1>0, <1>8 DEF Locals, Commit
  <2> DEFINE g == Closed(e)
  <2>1. g \in Exec
    <3>1. e.streams \ {e.at} \in SUBSET Nat BY <1>b
    <3> QED BY <1>0, <3>1 DEF Exec, Closed
  <2>2. Trying(g) /\ g.streams = {} /\ g.output = {}
    <3>1. /\ g.list = e.list /\ g.at = e.at /\ g.tried = e.tried /\ g.recorded = e.recorded
          /\ g.streams = e.streams \ {e.at} /\ g.output = e.output
        BY <1>0 DEF Exec, Closed
    <3> HIDE DEF g
    <3> QED BY <2>0, <3>1 DEF Trying, AtCandidate
  <2> HIDE DEF g
  <2>3. CASE Stopped(t, g) BY <2>1, <2>2, <2>3, StoppedMoves
  <2>4. CASE TrySucceeds(t, e) BY <1>0, <2>0, <2>4, TrySucceedsMoves
  <2>5. ASSUME NEW err \in Errors, TryFails(t, g, err) PROVE Moves(t)
      BY <2>0, <2>1, <2>2, <2>5, ExecutionConstants, TryFailsMoves
  <2> QED BY <1>8, <2>3, <2>4, <2>5 DEF Commit, g
<1>9. CASE Serve(t)
  <2>0. /\ pc[t] = "serving" /\ outcome[t] = "none" /\ e.tried = e.recorded /\ e.tried # {}
        /\ e.streams \subseteq {e.at}
      BY <1>0, <1>9 DEF Locals, Serve
  <2> DEFINE f == [e EXCEPT !.output = @ \cup {e.at}]
             g == Closed(e)
  <2>1. f \in Exec
    <3>1. e.output \cup {e.at} \in SUBSET Nat BY <1>b
    <3> QED BY <1>0, <3>1 DEF Exec
  <2>2. g \in Exec
    <3>1. e.streams \ {e.at} \in SUBSET Nat BY <1>b
    <3> QED BY <1>0, <3>1 DEF Exec, Closed
  <2>3. Locals(f, "serving", "none")
    <3>1. f.at = e.at /\ f.tried = e.tried /\ f.recorded = e.recorded /\ f.streams = e.streams
        BY <1>0 DEF Exec
    <3> HIDE DEF f
    <3> QED BY <2>0, <3>1 DEF Locals
  <2>4. Locals(g, "idle", "served")
    <3>1. g.at = e.at /\ g.tried = e.tried /\ g.recorded = e.recorded /\ g.streams = e.streams \ {e.at}
        BY <1>0 DEF Exec, Closed
    <3> HIDE DEF g
    <3> QED BY <2>0, <3>1 DEF Locals
  <2>5. \/ exec' = [exec EXCEPT ![t] = f] /\ UNCHANGED <<pc, outcome>>
        \/ /\ exec' = [exec EXCEPT ![t] = g] /\ pc' = [pc EXCEPT ![t] = "idle"]
           /\ outcome' = [outcome EXCEPT ![t] = "served"]
      BY <1>9 DEF Serve
  <2> HIDE DEF f, g
  <2>6. Moved(t, f, "serving", "none") \/ Moved(t, g, "idle", "served")
      BY <1>0, <2>0, <2>1, <2>2, <2>3, <2>4, <2>5 DEF Moved, Labels, Outcomes
  <2> QED BY <2>6 DEF Moves
<1>10. CASE ReadPolicy(t)
  <2>0. pc[t] = "observe" /\ outcome[t] = "none" /\ Judged(e) /\ e.streams \subseteq {e.at}
        /\ e.recorded \subseteq e.tried
      BY <1>0, <1>10 DEF Locals, ReadPolicy
  <2> DEFINE g == [e EXCEPT !.policy = policy[Candidate(t)]]
  <2>1. policy[Candidate(t)] \in Policy
      BY <2>0, CandidateKey DEF Judged, Trying, IInv, TypeOK, HealthTypeOK
  <2>2. g \in Exec BY <1>0, <2>1 DEF Exec
  <2>3. exec' = [exec EXCEPT ![t] = g] /\ pc' = [pc EXCEPT ![t] = "record"] /\ UNCHANGED outcome
      BY <1>10 DEF ReadPolicy
  <2>4. /\ g.list = e.list /\ g.at = e.at /\ g.tried = e.tried /\ g.recorded = e.recorded
        /\ g.streams = e.streams /\ g.output = e.output /\ g.kind = e.kind /\ g.err = e.err
        /\ (g.late <=> e.late) /\ g.policy \in Policy
      BY <1>0, <2>1 DEF Exec
  <2> HIDE DEF g
  <2>5. Judged(g) BY <2>0, <2>4 DEF Judged, Trying, AtCandidate
  <2>6. Locals(g, "record", "none") BY <2>0, <2>4, <2>5 DEF Locals
  <2>7. Moved(t, g, "record", "none") BY <1>0, <2>0, <2>2, <2>3, <2>6 DEF Moved, Labels, Outcomes
  <2> QED BY <2>7 DEF Moves
<1>11. CASE Record(t)
  <2>0. pc[t] = "record" /\ outcome[t] = "none" /\ Judged(e) /\ e.streams \subseteq {e.at}
      BY <1>0, <1>11 DEF Locals, Record
  <2> DEFINE g == [e EXCEPT !.recorded = @ \cup {e.at}, !.policy = None]
             f == [g EXCEPT !.at = @ + 1, !.tries = 0, !.last = e.err, !.err = None]
  <2>1. g \in Exec
    <3>1. e.recorded \cup {e.at} \in SUBSET Nat BY <1>b
    <3> QED BY <1>0, <3>1 DEF Exec
  <2>2. /\ g.list = e.list /\ g.at = e.at /\ g.tried = e.tried /\ g.recorded = e.recorded \cup {e.at}
        /\ g.streams = e.streams /\ g.output = e.output /\ g.kind = e.kind
      BY <1>0 DEF Exec
  <2>3. f \in Exec
    <3>1. g.at + 1 \in Nat BY <1>b, <2>2
    <3>2. e.err \in Classification \cup {None} BY <1>0 DEF Exec
    <3> HIDE DEF g
    <3> QED BY <2>1, <3>1, <3>2 DEF Exec
  <2>4. /\ f.list = g.list /\ f.at = g.at + 1 /\ f.tried = g.tried /\ f.recorded = g.recorded
        /\ f.streams = g.streams /\ f.output = g.output /\ f.last = e.err
    <3> HIDE DEF g
    <3> QED BY <2>1 DEF Exec
  <2>5. g.tried = g.recorded /\ g.tried # {} BY <2>0, <2>2 DEF Judged, Trying
  <2>6. Locals(g, "serving", "none")
    <3> HIDE DEF g
    <3> QED BY <2>0, <2>2, <2>5 DEF Locals
  <2>7. g.streams = {} => Locals(g, "idle", "served") /\ Locals(g, "idle", "failed")
    <3> HIDE DEF g
    <3> QED BY <2>5 DEF Locals
  <2>8. e.err # None /\ Disposition(e.err) # "terminal" => Locals(f, "next", "none")
    <3>1. f.at \in Nat \ {0} BY <1>b, <2>2, <2>4
    <3> HIDE DEF f, g
    <3> QED BY <2>0, <2>2, <2>4, <2>5, <3>1 DEF Locals, Judged, Trying, AtCandidate, Walking
  <2>9. \/ /\ e.err = None /\ exec' = [exec EXCEPT ![t] = g]
           /\ \/ pc' = [pc EXCEPT ![t] = "serving"] /\ UNCHANGED outcome
              \/ /\ g.kind # "stream" /\ pc' = [pc EXCEPT ![t] = "idle"]
                 /\ outcome' = [outcome EXCEPT ![t] = "served"]
        \/ /\ e.err # None /\ exec' = [exec EXCEPT ![t] = g] /\ pc' = [pc EXCEPT ![t] = "idle"]
           /\ outcome' = [outcome EXCEPT ![t] = "failed"]
        \/ /\ e.err # None /\ Disposition(e.err) # "terminal" /\ exec' = [exec EXCEPT ![t] = f]
           /\ pc' = [pc EXCEPT ![t] = "next"] /\ UNCHANGED outcome
      BY <1>11 DEF Record
  <2> HIDE DEF f, g
  <2>10. e.err # None \/ g.kind # "stream" => g.streams = {} BY <2>0, <2>2 DEF Judged
  <2>11. \/ Moved(t, g, "serving", "none") \/ Moved(t, g, "idle", "served")
         \/ Moved(t, g, "idle", "failed") \/ Moved(t, f, "next", "none")
      BY <1>0, <2>0, <2>1, <2>3, <2>6, <2>7, <2>8, <2>9, <2>10 DEF Moved, Labels, Outcomes
  <2> QED BY <2>11 DEF Moves
<1> QED BY <1>1, <1>2, <1>3, <1>4, <1>5, <1>6, <1>7, <1>8, <1>9, <1>10, <1>11
        DEF Step, Invoked, Pushed

----------------------------------------------------------------------------
(* Every step.                                                             *)

\* What a step does to the tracker: nothing, a Reset of a key, or a record.
LEMMA TrackerStep ==
    ASSUME IInv, [Next]_vars
    PROVE  health' \in [Key -> HealthState]
<1>0. health \in [Key -> HealthState] /\ now \in Nat BY DEF IInv, TypeOK, HealthTypeOK
<1>1. ASSUME NEW t \in Thread, Record(t) PROVE health' \in [Key -> HealthState]
  <2>1. AtCandidate(exec[t]) /\ exec[t].policy \in Policy /\ exec[t] \in Exec
      BY <1>1 DEF Record, IInv, TypeOK, LocalsOK, Locals, Judged, Trying
  <2>2. Heard(Observed(t)) BY <2>1, ObservedHeard
  <2>3. Candidate(t) \in Key BY <2>1, CandidateKey
  <2>4. Recorded(health[Candidate(t)], exec[t].policy, Observed(t)) \in HealthState
      BY <1>0, <2>1, <2>2, <2>3, RecordedState
  <2> QED BY <1>0, <1>1, <2>3, <2>4 DEF Record
<1>2. ASSUME NEW t \in Thread, Step(t), ~Record(t) PROVE UNCHANGED health
    BY <1>2 DEF Step, NextCandidate, Admit, Invoked, Pushed, Repeat, Opened, Commit, Serve, ReadPolicy
<1>3. ASSUME NEW t \in Thread,
             \/ \E kind \in Kinds, list \in Lists : Begin(t, kind, list)
             \/ Cancel(t)
      PROVE  UNCHANGED health
    BY <1>3 DEF Begin, Cancel
<1>4. CASE Tick \/ Quiescent \/ UNCHANGED vars BY <1>0, <1>4 DEF Tick, Quiescent, vars
<1>5. CASE Settings BY <1>0, <1>5, NoHealthState DEF Settings, SetPolicy, Reset
<1> QED BY <1>0, <1>1, <1>2, <1>3, <1>4, <1>5 DEF Next

\* The invariant is inductive.
LEMMA StepIInv == IInv /\ [Next]_vars => IInv'
<1> SUFFICES ASSUME IInv, [Next]_vars PROVE IInv' OBVIOUS
<1>1. health' \in [Key -> HealthState] BY TrackerStep
<1>2. now' \in Nat /\ policy' \in [Key -> Policy] /\ ended' \in [Thread -> BOOLEAN]
      /\ begun' \in 0..MaxRuns
  <2>0. now \in Nat /\ policy \in [Key -> Policy] /\ ended \in [Thread -> BOOLEAN]
        /\ begun \in 0..MaxRuns /\ MaxRuns \in Nat
      BY ExecutionConstants DEF IInv, TypeOK, HealthTypeOK
  <2>1. CASE Tick \/ Quiescent \/ UNCHANGED vars
      BY <2>0, <2>1 DEF Tick, Quiescent, vars, threadVars
  <2>2. CASE Settings BY <2>0, <2>2 DEF Settings, SetPolicy, Reset, threadVars
  <2>3. ASSUME NEW t \in Thread, NEW kind, NEW list, Begin(t, kind, list)
        PROVE  now' \in Nat /\ policy' \in [Key -> Policy] /\ ended' \in [Thread -> BOOLEAN]
               /\ begun' \in 0..MaxRuns
      BY <2>0, <2>3 DEF Begin
  <2>4. ASSUME NEW t \in Thread, Cancel(t)
        PROVE  now' \in Nat /\ policy' \in [Key -> Policy] /\ ended' \in [Thread -> BOOLEAN]
               /\ begun' \in 0..MaxRuns
      BY <2>0, <2>4 DEF Cancel
  <2>5. ASSUME NEW t \in Thread, Step(t) PROVE UNCHANGED <<now, policy, ended, begun>>
      BY <2>5 DEF Step, NextCandidate, Admit, Invoked, Pushed, Repeat, Opened, Commit, Serve,
                  ReadPolicy, Record
  <2> QED BY <2>0, <2>1, <2>2, <2>3, <2>4, <2>5 DEF Next
<1>3. exec' \in [Thread -> Exec] /\ pc' \in [Thread -> Labels] /\ outcome' \in [Thread -> Outcomes]
      /\ LocalsOK'
  <2>1. CASE UNCHANGED <<pc, exec, outcome>> BY <2>1 DEF IInv, TypeOK, LocalsOK
  <2>2. ASSUME NEW t \in Thread, NEW e, NEW at, NEW how, Moved(t, e, at, how)
        PROVE  exec' \in [Thread -> Exec] /\ pc' \in [Thread -> Labels]
               /\ outcome' \in [Thread -> Outcomes] /\ LocalsOK'
      BY <2>2 DEF Moved, IInv, TypeOK, LocalsOK
  <2>3. CASE Tick \/ Settings \/ Quiescent \/ UNCHANGED vars
      BY <2>1, <2>3 DEF Tick, Settings, Quiescent, vars, threadVars
  <2> QED BY <2>2, <2>3, StepMoves DEF Next, Moves
<1> QED BY <1>1, <1>2, <1>3 DEF IInv, TypeOK, HealthTypeOK

----------------------------------------------------------------------------
(* The theorems.                                                           *)

\* The inductive invariant holds throughout.
LEMMA ExecutionInvariant == Spec => []IInv
BY InitIInv, StepIInv, PTL DEF Spec

\* Nothing follows output (Execute, ExecuteStream, AfterOutputError): once a
\* candidate's output reached the caller, no candidate is tried again, whatever
\* the error that follows would permit.
THEOREM NothingFollowsOutput == Spec => []OutputIsFinal
<1>1. IInv => OutputIsFinal BY DEF IInv, TypeOK, LocalsOK, Locals, OutputIsFinal, Labels
<1> QED BY ExecutionInvariant, <1>1, PTL

\* ExecuteStream leaves no stream open: it holds at most that of the candidate
\* it is at, and none when it ends.
THEOREM StreamsClosed == Spec => []NoStreamLeaks
<1>1. IInv => NoStreamLeaks BY DEF IInv, LocalsOK, Locals, NoStreamLeaks
<1> QED BY ExecutionInvariant, <1>1, PTL

\* Health hears of every try and of nothing else (Execute, try): of each
\* candidate that failed or served, and never of one that failed after its
\* caller gave up.
THEOREM EveryTryHeard == Spec => []TriesAccounted
<1>1. IInv => EveryTryAccounted BY DEF IInv, LocalsOK, Locals, EveryTryAccounted
<1>2. IInv => GivenUpNotBlamed BY DEF IInv, LocalsOK, Locals, Judged, GivenUpNotBlamed
<1> QED BY ExecutionInvariant, <1>1, <1>2, PTL DEF TriesAccounted, IInv
=============================================================================
