----------------------------- MODULE Resilient -----------------------------
(***************************************************************************)
(* execution.Resilient: a provider whose operations are refused while a    *)
(* circuit is open, repeated while their failures permit it, and recorded  *)
(* once with the outcome of their last try.                                *)
(*                                                                         *)
(* Operations (Thread) on the wrapped providers of a Runtime interleave:   *)
(* they share its HealthTracker, whose policies follow the settings, and   *)
(* their callers may give up at any point.  A key is a wrapped provider.   *)
(***************************************************************************)
EXTENDS Health

CONSTANTS
    Thread,         \* operations
    Failures,       \* failures a provider may return
    Attempts,       \* Policy.Retry.Attempts
    Transient,      \* Policy.Classify is TransientClassification
    MaxRuns,        \* bound on the operations begun
    None            \* no failure

\* What an error's status says: it has none, it is a 2xx with an answer that
\* could not be used, the gateway reads it as transient, or it refuses.
Statuses == {"none", "unusable", "transient", "refusal"}

\* A provider's error: its own classification, and its status.  An error of a
\* canceled operation keeps its status and proves no answer.
Failure == [own : Classification, status : Statuses]

ASSUME ResilientConstants ==
    /\ Failures \subseteq {f \in Failure : f.own.answered => f.status # "none"}
    /\ None \notin Classification
    /\ Attempts \in Nat
    /\ Transient \in BOOLEAN
    /\ MaxRuns \in Nat

VARIABLES
    pc,         \* where each operation is
    guard,      \* the locals of each operation
    ended,      \* the caller's context of each operation has ended
    outcome,    \* how each thread's last operation ended
    begun       \* operations begun

threadVars == <<pc, guard, ended, outcome, begun>>
vars == <<health, policy, now, threadVars>>

----------------------------------------------------------------------------
Labels == {"idle", "enter", "admit", "try", "returned", "wait", "observe", "record"}

\* The locals of guard: the key, whether the request may repeat, whether it
\* opens a stream, the tries, the last try's error as the policy reads it, the
\* deadlines, clock and policy last read.  As history: whether a stream the
\* provider gave is open, the tries sent and the outcomes recorded.
Guard == [key : Key \cup {None}, repeatable : BOOLEAN, streams : BOOLEAN, tries : Nat,
          err : Classification \cup {None}, open : Nat, cool : Nat, clock : Nat,
          policy : Policy \cup {None},
          held : BOOLEAN, sent : Nat, recorded : Nat]

NewGuard(k, repeatable, streams) ==
    [key |-> k, repeatable |-> repeatable, streams |-> streams, tries |-> 1,
     err |-> None, open |-> 0, cool |-> 0, clock |-> 0, policy |-> None,
     held |-> FALSE, sent |-> 0, recorded |-> 0]

Outcomes == {"none", "served", "failed", "refused", "canceled"}

\* TransientClassification: of the statuses that refuse a request only the
\* transient ones repeat and count, and every failure that repeats counts.
TransientClassification(f) ==
    LET refuses == f.status \in {"transient", "refusal"} /\ f.own.answered
        transient == f.status = "transient"
    IN  [f.own EXCEPT
            !.retryable = IF refuses THEN transient ELSE @,
            !.circuit = IF refuses THEN transient ELSE @ \/ f.own.retryable]

\* resilient.view.
View(f) == IF Transient THEN TransientClassification(f) ELSE f.own

Init ==
    /\ HealthInit
    /\ pc = [t \in Thread |-> "idle"]
    /\ guard = [t \in Thread |-> NewGuard(None, FALSE, FALSE)]
    /\ ended = [t \in Thread |-> FALSE]
    /\ outcome = [t \in Thread |-> "none"]
    /\ begun = 0

Goto(t, label) == pc' = [pc EXCEPT ![t] = label]

Set(t, g) == guard' = [guard EXCEPT ![t] = g]

\* Invoke, Stream or CountTokens, which always may repeat.
Begin(t, k, repeatable, streams) ==
    /\ pc[t] = "idle" /\ begun < MaxRuns
    /\ begun' = begun + 1
    /\ Set(t, NewGuard(k, repeatable, streams))
    /\ ended' = [ended EXCEPT ![t] = FALSE]
    /\ outcome' = [outcome EXCEPT ![t] = "none"]
    /\ Goto(t, "enter")
    /\ UNCHANGED <<health, policy, now>>

\* The caller gives up.
Cancel(t) ==
    /\ pc[t] # "idle" /\ ~ended[t]
    /\ ended' = [ended EXCEPT ![t] = TRUE]
    /\ UNCHANGED <<health, policy, now, pc, guard, outcome, begun>>

\* Mutant: an operation that failed is not told from one that was served.
DoneUnnamed(t, g, how) ==
    /\ Set(t, g)
    /\ outcome' = [outcome EXCEPT ![t] = IF how \in {"served", "failed"} THEN "ended" ELSE how]
    /\ Goto(t, "idle")

\* The operation ends with locals g.
Done(t, g, how) ==
    /\ Set(t, g)
    /\ outcome' = [outcome EXCEPT ![t] = how]
    /\ Goto(t, "idle")

----------------------------------------------------------------------------
(* admit.                                                                  *)

\* The context is asked, then the critical section of Health.Available.
Enter(t) ==
    /\ pc[t] = "enter"
    /\ \/ ended[t] /\ Done(t, guard[t], "canceled")
       \/ /\ ~ended[t]
          /\ Set(t, [guard[t] EXCEPT !.open = health[guard[t].key].open,
                                     !.cool = health[guard[t].key].cool, !.clock = now])
          /\ Goto(t, "admit")
          /\ UNCHANGED outcome
    /\ UNCHANGED <<health, policy, now, ended, begun>>

\* The rest of Available: a CircuitOpenError, or the first try.
Admit(t) ==
    LET g == guard[t]
        admitted == [g EXCEPT !.open = 0, !.cool = 0, !.clock = 0]
        refused == g.clock < Until(g.open, g.cool, policy[g.key])
    IN  /\ pc[t] = "admit"
        /\ \/ refused /\ Done(t, admitted, "refused")
           \/ ~refused /\ Set(t, admitted) /\ Goto(t, "try") /\ UNCHANGED outcome
        /\ UNCHANGED <<health, policy, now, ended, begun>>

----------------------------------------------------------------------------
(* The tries.                                                              *)

\* The provider returns: with a value, which may be a stream, or with an
\* error, beside which it may have left a stream open.
Try(t) ==
    LET sent == [guard[t] EXCEPT !.sent = @ + 1]
    IN  /\ pc[t] = "try"
        /\ \/ Set(t, [sent EXCEPT !.err = None, !.held = guard[t].streams])
           \/ \E f \in Failures, held \in {FALSE, guard[t].streams} :
                  Set(t, [sent EXCEPT !.err = View(f), !.held = held])
        /\ Goto(t, "returned")
        /\ UNCHANGED <<health, policy, now, ended, outcome, begun>>

\* Mutant: only a failed try's stream is closed, not an abandoned one's.
DiscardFailed(g) == IF g.err = None THEN g ELSE [g EXCEPT !.held = FALSE]

\* closeStream of what a try returned.
Discard(g) == [g EXCEPT !.held = FALSE]

\* Mutant: a request that may not repeat is repeated as any other.
MayRepeatAny(g) == g.err.retryable /\ g.tries < Attempts

\* A retryable failure of a request that may repeat, with tries left.
MayRepeat(g) == g.err.retryable /\ g.repeatable /\ g.tries < Attempts

\* Whether the caller gave up, which says nothing about the instance, then
\* whether the try served, may be repeated, or failed for good.
Judge(t) ==
    LET g == guard[t]
    IN  /\ pc[t] = "returned"
        /\ \/ ended[t] /\ Done(t, Discard(g), "canceled")
           \/ ~ended[t] /\ g.err = None /\ Goto(t, "observe") /\ UNCHANGED <<guard, outcome>>
           \/ /\ ~ended[t] /\ g.err # None
              /\ Set(t, Discard(g))
              /\ Goto(t, IF MayRepeat(g) THEN "wait" ELSE "observe")
              /\ UNCHANGED outcome
        /\ UNCHANGED <<health, policy, now, ended, begun>>

\* The wait before a repeat ends, or the context does.  When both have, select
\* may see either.
Repeat(t) ==
    /\ pc[t] = "wait"
    /\ \/ ended[t] /\ Done(t, guard[t], "canceled")
       \/ /\ Set(t, [guard[t] EXCEPT !.tries = @ + 1, !.err = None])
          /\ Goto(t, "try")
          /\ UNCHANGED outcome
    /\ UNCHANGED <<health, policy, now, ended, begun>>

----------------------------------------------------------------------------
(* Health.Record of the last try.                                          *)

ReadPolicy(t) ==
    /\ pc[t] = "observe"
    /\ Set(t, [guard[t] EXCEPT !.policy = policy[guard[t].key]])
    /\ Goto(t, "record")
    /\ UNCHANGED <<health, policy, now, ended, outcome, begun>>

Observed(g) ==
    IF g.err = None
    THEN [effect |-> "success", class |-> CHOOSE c \in Class : TRUE, retryAfter |-> 0]
    ELSE Observe(g.err)

Record(t) ==
    LET g == guard[t]
    IN  /\ pc[t] = "record"
        /\ health' = [health EXCEPT ![g.key] = Recorded(@, g.policy, Observed(g))]
        /\ Done(t, [g EXCEPT !.recorded = @ + 1, !.policy = None],
                IF g.err = None THEN "served" ELSE "failed")
        /\ UNCHANGED <<policy, now, ended, begun>>

----------------------------------------------------------------------------
Tick == now < MaxTime /\ now' = now + 1 /\ UNCHANGED <<health, policy, threadVars>>

Settings ==
    /\ \/ \E k \in Key, p \in Policy : SetPolicy(k, p)
       \/ \E k \in Key : Reset(k)
    /\ UNCHANGED threadVars

Step(t) ==
    \/ Enter(t)
    \/ Admit(t)
    \/ Try(t)
    \/ Judge(t)
    \/ Repeat(t)
    \/ ReadPolicy(t)
    \/ Record(t)

\* The bounds are spent and every operation has ended.
Quiescent ==
    /\ begun = MaxRuns /\ now = MaxTime
    /\ \A t \in Thread : pc[t] = "idle"
    /\ UNCHANGED vars

Next ==
    \/ Tick
    \/ Settings
    \/ Quiescent
    \/ \E t \in Thread :
           \/ \E k \in Key, repeatable, streams \in BOOLEAN : Begin(t, k, repeatable, streams)
           \/ Cancel(t)
           \/ Step(t)

Spec == Init /\ [][Next]_vars

----------------------------------------------------------------------------
(* Properties.                                                             *)

\* The types of the tracker's state and of the operations' locals.
TypeOK ==
    /\ HealthTypeOK
    /\ pc \in [Thread -> Labels]
    /\ guard \in [Thread -> Guard]
    /\ ended \in [Thread -> BOOLEAN]
    /\ outcome \in [Thread -> Outcomes]
    /\ begun \in 0..MaxRuns

\* An operation counts once, however often it was repeated, and not at all
\* when it was refused or its caller gave up (Policy.Health, Resilient); and
\* it was sent no more often than the policy and its request allow.
CountedOnce ==
    \A t \in Thread :
        LET g == guard[t]
        IN  /\ outcome[t] \in {"served", "failed"} => g.recorded = 1 /\ g.sent > 0
            /\ outcome[t] \in {"refused", "canceled"} => g.recorded = 0
            /\ outcome[t] = "refused" => g.sent = 0
            /\ g.sent > 1 => g.repeatable /\ g.sent <= Attempts

\* The only stream left open is the one a served operation gave its caller:
\* those of failed, repeated and abandoned tries are closed, also one that
\* came with an error or after the context ended.
StreamsDiscarded ==
    \A t \in Thread :
        guard[t].held => pc[t] \in {"returned", "observe", "record"} \/ outcome[t] = "served"

\* A cooldown the upstream asked for runs its course: whatever other
\* operations report, a success admitted before it included, only its end and
\* Reset remove it.
CooldownRunsItsCourse ==
    \A k \in Key :
        health'[k].cool < health[k].cool => now >= health[k].cool \/ UNCHANGED guard

\* The tracker's state is explained by what was recorded, whatever policy and order
\* the records came under (HealthTracker.Record).
HealthExplained == TypeOK /\ StreakExplained

\* No record cuts a running deadline short: neither a circuit's, but for a success,
\* nor a cooldown's (HealthTracker.fail, succeed and Record).
DeadlinesKept == [][CircuitOnlyExtended /\ CooldownRunsItsCourse]_vars
============================================================================
