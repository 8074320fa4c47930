----------------------------- MODULE Execution -----------------------------
(***************************************************************************)
(* execution.Execute and ExecuteStream: executions that walk a list of     *)
(* candidates, repeat and fail over as a failure permits, and share a      *)
(* HealthTracker.  A stream fails over until a frame carries output.       *)
(*                                                                         *)
(* Executions (Thread) interleave with each other, with the end of their   *)
(* callers' contexts, and with changes of the health policies.  A          *)
(* candidate is its health key.                                            *)
(***************************************************************************)
EXTENDS Health, Sequences

CONSTANTS
    Thread,         \* executions
    Lists,          \* candidate lists a product may give
    Errors,         \* errors a candidate's run may return
    Attempts,       \* Retry.Attempts
    Changes,        \* the product changes policies and resets keys
    MaxRuns,        \* bound on the executions begun
    None            \* no error

ASSUME ExecutionConstants ==
    /\ Lists \subseteq Seq(Key) \ {<<>>}
    /\ Errors \subseteq Classification
    /\ None \notin Classification
    /\ Class # {}
    /\ Attempts \in Nat
    /\ Changes \in BOOLEAN
    /\ MaxRuns \in Nat

VARIABLES
    pc,         \* where each execution is
    exec,       \* the locals of each execution
    ended,      \* the caller's context of each execution has ended
    outcome,    \* how each thread's last execution ended
    begun       \* executions begun

threadVars == <<pc, exec, ended, outcome, begun>>
vars == <<health, policy, now, threadVars>>

----------------------------------------------------------------------------
Labels == {"idle", "next", "admit", "run", "held", "wait", "observe", "record", "serving"}

Kinds == {"invoke", "push", "stream"}

\* The locals of an execution: its list and position, the tries of the
\* candidate, the last try's error, the error of the last candidate that
\* failed, the deadlines, clock and policy last read.  As history: the
\* positions tried, recorded, with a stream open and whose output reached the
\* caller, and whether the context had ended when the last try returned.
Exec == [kind : Kinds, list : Lists \cup {<<>>}, at : Nat, tries : Nat,
         err : Classification \cup {None}, last : Classification \cup {None},
         open : Nat, cool : Nat, clock : Nat, policy : Policy \cup {None},
         tried : SUBSET Nat, recorded : SUBSET Nat, streams : SUBSET Nat,
         output : SUBSET Nat, late : BOOLEAN]

NewExec(kind, list) ==
    [kind |-> kind, list |-> list, at |-> 1, tries |-> 0, err |-> None, last |-> None,
     open |-> 0, cool |-> 0, clock |-> 0, policy |-> None,
     tried |-> {}, recorded |-> {}, streams |-> {}, output |-> {}, late |-> FALSE]

NoExec == NewExec("invoke", <<>>)

Outcomes == {"none", "served", "failed", "unavailable", "canceled"}

\* AfterOutputError classifies as nothing, whatever error it wraps.
AfterOutput == [retryable |-> FALSE, failover |-> FALSE, circuit |-> FALSE,
                answered |-> FALSE, retryAfter |-> 0, class |-> CHOOSE c \in Class : TRUE]

Disposition(e) ==
    IF e.retryable THEN "retryable" ELSE IF e.failover THEN "failover" ELSE "terminal"

Init ==
    /\ HealthInit
    /\ pc = [t \in Thread |-> "idle"]
    /\ exec = [t \in Thread |-> NoExec]
    /\ ended = [t \in Thread |-> FALSE]
    /\ outcome = [t \in Thread |-> "none"]
    /\ begun = 0

Goto(t, label) == pc' = [pc EXCEPT ![t] = label]

Set(t, e) == exec' = [exec EXCEPT ![t] = e]

Candidate(t) == exec[t].list[exec[t].at]

Begin(t, kind, list) ==
    /\ pc[t] = "idle" /\ begun < MaxRuns
    /\ begun' = begun + 1
    /\ Set(t, NewExec(kind, list))
    /\ ended' = [ended EXCEPT ![t] = FALSE]
    /\ outcome' = [outcome EXCEPT ![t] = "none"]
    /\ Goto(t, "next")
    /\ UNCHANGED <<health, policy, now>>

\* The caller gives up.
Cancel(t) ==
    /\ pc[t] # "idle" /\ ~ended[t]
    /\ ended' = [ended EXCEPT ![t] = TRUE]
    /\ UNCHANGED <<health, policy, now, pc, exec, outcome, begun>>

\* The execution ends.
Done(t, how) ==
    /\ outcome' = [outcome EXCEPT ![t] = how]
    /\ Goto(t, "idle")

----------------------------------------------------------------------------
(* The walk over the candidates.                                           *)

\* The head of the loop, and the critical section of Health.Available.
NextCandidate(t) ==
    /\ pc[t] = "next"
    /\ \/ /\ exec[t].at > Len(exec[t].list)
          /\ Done(t, IF exec[t].last # None THEN "failed" ELSE "unavailable")
          /\ UNCHANGED exec
       \/ /\ exec[t].at <= Len(exec[t].list) /\ ended[t]
          /\ Done(t, "canceled")
          /\ UNCHANGED exec
       \/ /\ exec[t].at <= Len(exec[t].list) /\ ~ended[t]
          /\ Set(t, [exec[t] EXCEPT !.open = health[Candidate(t)].open,
                                    !.cool = health[Candidate(t)].cool, !.clock = now])
          /\ Goto(t, "admit")
          /\ UNCHANGED outcome
    /\ UNCHANGED <<health, policy, now, ended, begun>>

\* The rest of Available: skip the candidate, or try it.
Admit(t) ==
    LET e == exec[t]
        refused == e.clock < Until(e.open, e.cool, policy[Candidate(t)])
    IN  /\ pc[t] = "admit"
        /\ \/ /\ refused
              /\ Set(t, [e EXCEPT !.at = @ + 1, !.open = 0, !.cool = 0, !.clock = 0])
              /\ Goto(t, "next")
           \/ /\ ~refused
              /\ Set(t, [e EXCEPT !.tries = 1, !.open = 0, !.cool = 0, !.clock = 0,
                                  !.tried = @ \cup {e.at}])
              /\ Goto(t, "run")
        /\ UNCHANGED <<health, policy, now, ended, outcome, begun>>

\* Mutant: the candidate is repeated whatever its disposition.
MayRepeatAnything(t, err) == exec[t].tries < Attempts

\* A retryable candidate may be tried again.
MayRepeat(t, err) == Disposition(err) = "retryable" /\ exec[t].tries < Attempts

\* Mutant: an execution the caller gave up on ends as nothing a Result names.
StoppedUnnamed(t, e) == ended[t] /\ Set(t, e) /\ Done(t, "ended")

\* The caller gave up, which says nothing about the candidate.
Stopped(t, e) == ended[t] /\ Set(t, e) /\ Done(t, "canceled")

\* Mutant: a failure another candidate may make up for is not recorded.
TryFailsUnrecorded(t, e, err) ==
    \/ Stopped(t, e)
    \/ /\ ~ended[t] /\ Disposition(err) = "failover"
       /\ Set(t, [e EXCEPT !.at = @ + 1, !.last = err])
       /\ Goto(t, "next")
       /\ UNCHANGED outcome

\* Mutant: a failure counts whether or not the caller still waits.
TryFailsRegardless(t, e, err) ==
    /\ Set(t, [e EXCEPT !.err = err, !.late = ended[t]])
    /\ Goto(t, IF MayRepeat(t, err) THEN "wait" ELSE "observe")
    /\ UNCHANGED outcome

\* A try failed with err: stop when the caller gave up, repeat or record it.
TryFails(t, e, err) ==
    \/ Stopped(t, e)
    \/ /\ ~ended[t]
       /\ Set(t, [e EXCEPT !.err = err, !.late = ended[t]])
       /\ Goto(t, IF MayRepeat(t, err) THEN "wait" ELSE "observe")
       /\ UNCHANGED outcome

\* A try served, whether or not the caller gave up meanwhile.
TrySucceeds(t, e) ==
    /\ Set(t, [e EXCEPT !.err = None, !.late = ended[t]])
    /\ Goto(t, "observe")
    /\ UNCHANGED outcome

\* run of an operation that returns a value.
Invoked(t) ==
    /\ pc[t] = "run" /\ exec[t].kind = "invoke"
    /\ \/ TrySucceeds(t, [exec[t] EXCEPT !.output = @ \cup {exec[t].at}])
       \/ \E err \in Errors : TryFails(t, exec[t], err)
    /\ UNCHANGED <<health, policy, now, ended, begun>>

\* run of a product that pushes output itself and reports a failure after it
\* as an AfterOutputError.
Pushed(t) ==
    LET shown == [exec[t] EXCEPT !.output = @ \cup {exec[t].at}]
    IN  /\ pc[t] = "run" /\ exec[t].kind = "push"
        /\ \/ TrySucceeds(t, shown)
           \/ TryFails(t, shown, AfterOutput)
           \/ \E err \in Errors : TryFails(t, exec[t], err)
        /\ UNCHANGED <<health, policy, now, ended, begun>>

\* Mutant: repeats are not counted.
RepeatUncounted(t) ==
    /\ pc[t] = "wait"
    /\ Set(t, [exec[t] EXCEPT !.err = None])
    /\ Goto(t, "run")
    /\ UNCHANGED <<health, policy, now, ended, outcome, begun>>

\* The wait before a repeat ends, or the caller gives up during it.  When both
\* happen, select may see either.
Repeat(t) ==
    /\ pc[t] = "wait"
    /\ \/ Stopped(t, exec[t])
       \/ /\ Set(t, [exec[t] EXCEPT !.tries = @ + 1, !.err = None])
          /\ Goto(t, "run")
          /\ UNCHANGED outcome
    /\ UNCHANGED <<health, policy, now, ended, begun>>

----------------------------------------------------------------------------
(* Streams: open and commit.                                               *)

\* open fails, or gives a stream whose frames are held.
Opened(t) ==
    /\ pc[t] = "run" /\ exec[t].kind = "stream"
    /\ \/ /\ Set(t, [exec[t] EXCEPT !.streams = @ \cup {exec[t].at}])
          /\ Goto(t, "held")
          /\ UNCHANGED outcome
       \/ \E err \in Errors : TryFails(t, exec[t], err)
    /\ UNCHANGED <<health, policy, now, ended, begun>>

\* Mutant: a stream that fails before output is left open.
ClosedLeaks(e) == e

\* The stream of the candidate is closed.
Closed(e) == [e EXCEPT !.streams = @ \ {e.at}]

\* commit reads a frame that carries output, or the stream's end; or the
\* stream fails while its frames are held, and is closed.
Commit(t) ==
    /\ pc[t] = "held"
    /\ \/ Stopped(t, Closed(exec[t]))
       \/ TrySucceeds(t, exec[t])
       \/ \E err \in Errors : TryFails(t, Closed(exec[t]), err)
    /\ UNCHANGED <<health, policy, now, ended, begun>>

\* The caller reads the committed stream: the held frames, then the rest,
\* until it ends, fails after output or is closed.
Serve(t) ==
    /\ pc[t] = "serving"
    /\ \/ /\ exec[t].at \notin exec[t].output
          /\ Set(t, [exec[t] EXCEPT !.output = @ \cup {exec[t].at}])
          /\ UNCHANGED <<pc, outcome>>
       \/ /\ Set(t, Closed(exec[t]))
          /\ Done(t, "served")
    /\ UNCHANGED <<health, policy, now, ended, begun>>

----------------------------------------------------------------------------
(* Health.Record, and what follows it.                                     *)

ReadPolicy(t) ==
    /\ pc[t] = "observe"
    /\ Set(t, [exec[t] EXCEPT !.policy = policy[Candidate(t)]])
    /\ Goto(t, "record")
    /\ UNCHANGED <<health, policy, now, ended, outcome, begun>>

Observed(t) ==
    IF exec[t].err = None
    THEN [effect |-> "success", class |-> AfterOutput.class, retryAfter |-> 0]
    ELSE Observe(exec[t].err)

Record(t) ==
    LET k == Candidate(t)
        e == [exec[t] EXCEPT !.recorded = @ \cup {exec[t].at}, !.policy = None]
        err == exec[t].err
    IN  /\ pc[t] = "record"
        /\ health' = [health EXCEPT ![k] = Recorded(@, exec[t].policy, Observed(t))]
        /\ \/ /\ err = None
              /\ Set(t, e)
              /\ \/ e.kind = "stream" /\ Goto(t, "serving") /\ UNCHANGED outcome
                 \/ e.kind # "stream" /\ Done(t, "served")
           \/ /\ err # None /\ Disposition(err) = "terminal"
              /\ Set(t, e)
              /\ Done(t, "failed")
           \/ /\ err # None /\ Disposition(err) # "terminal"
              /\ Set(t, [e EXCEPT !.at = @ + 1, !.tries = 0, !.last = err, !.err = None])
              /\ Goto(t, "next")
              /\ UNCHANGED outcome
        /\ UNCHANGED <<policy, now, ended, begun>>

----------------------------------------------------------------------------
Tick == now < MaxTime /\ now' = now + 1 /\ UNCHANGED <<health, policy, threadVars>>

Settings ==
    /\ Changes
    /\ \/ \E k \in Key, p \in Policy : SetPolicy(k, p)
       \/ \E k \in Key : Reset(k)
    /\ UNCHANGED threadVars

Step(t) ==
    \/ NextCandidate(t)
    \/ Admit(t)
    \/ Invoked(t)
    \/ Pushed(t)
    \/ Repeat(t)
    \/ Opened(t)
    \/ Commit(t)
    \/ Serve(t)
    \/ ReadPolicy(t)
    \/ Record(t)

\* The bounds are spent and every execution has ended.
Quiescent ==
    /\ begun = MaxRuns /\ now = MaxTime
    /\ \A t \in Thread : pc[t] = "idle"
    /\ UNCHANGED vars

Next ==
    \/ Tick
    \/ Settings
    \/ Quiescent
    \/ \E t \in Thread :
           \/ \E kind \in Kinds, list \in Lists : Begin(t, kind, list)
           \/ Cancel(t)
           \/ Step(t)

Spec == Init /\ [][Next]_vars

\* An operation returns, a wait ends, and a caller reads or closes its stream.
FairSpec == Spec /\ \A t \in Thread : WF_vars(Step(t))

----------------------------------------------------------------------------
\* The types of the tracker's state and of the executions' locals: deadlines
\* and positions stay natural, and an execution ends only as a Result says.
TypeOK ==
    /\ HealthTypeOK
    /\ pc \in [Thread -> Labels]
    /\ exec \in [Thread -> Exec]
    /\ ended \in [Thread -> BOOLEAN]
    /\ outcome \in [Thread -> Outcomes]
    /\ begun \in 0..MaxRuns

\* Nothing follows output: once a candidate's output reached the caller, the
\* execution neither repeats that candidate nor tries another, whatever the
\* error that follows it would permit (AfterOutputError, and try's repeats).
OutputIsFinal ==
    \A t \in Thread :
        exec[t].output # {} => pc[t] \in {"observe", "record", "serving", "idle"}

\* ExecuteStream holds at most the stream of the candidate it is at, and none
\* is left open when an execution ends, however it ends.
NoStreamLeaks ==
    \A t \in Thread :
        exec[t].streams \subseteq
            IF pc[t] \in {"held", "observe", "record", "serving"} THEN {exec[t].at} ELSE {}

\* Health hears of every candidate that was tried, unless the caller gave up:
\* then of all but perhaps the last.  An execution that ends unavailable has
\* tried no candidate.
EveryTryAccounted ==
    \A t \in Thread :
        /\ exec[t].recorded \subseteq exec[t].tried
        /\ outcome[t] \in {"served", "failed"} =>
               exec[t].recorded = exec[t].tried /\ exec[t].tried # {}
        /\ outcome[t] = "canceled" => exec[t].tried \ exec[t].recorded \subseteq {exec[t].at}
        /\ outcome[t] = "unavailable" => exec[t].tried = {}

\* A failure that came after the caller gave up is recorded against nobody: of the
\* tries that return after their context ended only one that served is recorded
\* (try, which asks ctx only when run failed).
GivenUpNotBlamed ==
    \A t \in Thread :
        pc[t] \in {"observe", "record"} /\ exec[t].late => exec[t].err = None

\* Every execution ends: repeats and candidates are finite, whatever fails.
ExecutionsEnd == \A t \in Thread : pc[t] # "idle" ~> pc[t] = "idle"

\* Health hears of every try and of nothing else: of each candidate that failed or
\* served, and never of one that failed after its caller gave up (Execute, try).
TriesAccounted == TypeOK /\ EveryTryAccounted /\ GivenUpNotBlamed
=============================================================================
