-------------------------- MODULE ResilientProofs --------------------------
(***************************************************************************)
(* execution.Resilient over a shared HealthTracker, proved for any number  *)
(* of operations and keys, any policies, failures, attempts and clock.     *)
(***************************************************************************)
EXTENDS Resilient, SharedProofs

----------------------------------------------------------------------------
(* The inductive invariant.                                                *)

\* What the locals of an operation at a label are, with the outcome it has
\* left: the tries follow the repeats the policy allowed, nothing is recorded
\* before the end, and a stream is held only by a try that served.
Locals(g, at, how) ==
    /\ at # "idle" => g.key \in Key /\ how = "none" /\ g.recorded = 0
    /\ at \in {"enter", "admit"} => g.sent = 0 /\ g.tries = 1
    /\ at = "try" => g.sent + 1 = g.tries
    /\ at \in {"returned", "wait", "observe", "record"} => g.sent = g.tries
    /\ g.sent <= g.tries /\ g.tries >= 1
    /\ g.tries > 1 => g.repeatable /\ g.tries <= Attempts
    /\ at = "wait" => g.err # None /\ g.repeatable /\ g.tries < Attempts
    /\ at = "record" => g.policy \in Policy
    /\ how \in {"served", "failed"} => g.recorded = 1 /\ g.sent > 0
    /\ how \in {"refused", "canceled"} => g.recorded = 0
    /\ how = "refused" => g.sent = 0
    /\ g.held => at = "returned" \/ (at \in {"observe", "record"} /\ g.err = None) \/ how = "served"

LocalsOK == \A t \in Thread : Locals(guard[t], pc[t], outcome[t])

\* Every key's circuit is explained by its streak, and the clock runs.
TrackerSound == now # 0 /\ \A k \in Key : Sound(health[k])

IInv == TypeOK /\ LocalsOK /\ TrackerSound

----------------------------------------------------------------------------
(* The operators.                                                          *)

\* A policy's reading of a provider's failure is a classification.
LEMMA Viewed ==
    ASSUME NEW f \in Failures
    PROVE  View(f) \in Classification
<1>1. f.own \in Classification /\ f.status \in Statuses BY ResilientConstants DEF Failure
<1>2. TransientClassification(f) \in Classification
    BY <1>1 DEF TransientClassification, Classification
<1> QED BY <1>1, <1>2 DEF View

\* What an operation records is an observation.
LEMMA ObservedHeard ==
    ASSUME NEW g \in Guard
    PROVE  Heard(Observed(g))
<1>1. CASE g.err = None BY <1>1 DEF Observed, Heard, Effects
<1>2. CASE g.err # None
  <2>1. g.err \in Classification BY <1>2 DEF Guard
  <2> QED BY <1>2, <2>1 DEF Observed, Heard, Observe, Effects, Classification
<1> QED BY <1>1, <1>2

\* A new operation.
LEMMA NewGuards ==
    ASSUME NEW k \in Key \cup {None}, NEW repeatable \in BOOLEAN, NEW streams \in BOOLEAN
    PROVE  NewGuard(k, repeatable, streams) \in Guard
BY DEF NewGuard, Guard

\* No operation has begun, and the tracker knows no key.
LEMMA InitIInv == Init => IInv
<1> SUFFICES ASSUME Init PROVE IInv OBVIOUS
<1>1. HealthTypeOK BY NoHealthState DEF Init, HealthInit, HealthTypeOK
<1>2. TypeOK
  <2>1. guard \in [Thread -> Guard] BY NewGuards DEF Init
  <2>2. begun \in 0..MaxRuns BY ResilientConstants DEF Init
  <2>3. pc \in [Thread -> Labels] /\ outcome \in [Thread -> Outcomes] BY DEF Init, Labels, Outcomes
  <2>4. ended \in [Thread -> BOOLEAN] BY DEF Init
  <2> QED BY <1>1, <2>1, <2>2, <2>3, <2>4 DEF TypeOK
<1>3. LocalsOK BY DEF Init, LocalsOK, Locals, NewGuard
<1>4. Sound(NoHealth) BY NoHealthState, NothingCounted
<1>5. TrackerSound BY <1>4 DEF Init, HealthInit, TrackerSound
<1> QED BY <1>2, <1>3, <1>5 DEF IInv

----------------------------------------------------------------------------
(* An operation's steps.                                                   *)

\* Thread t has moved: its locals, label and outcome are now these.
Moved(t, g, at, how) ==
    /\ g \in Guard /\ at \in Labels /\ how \in Outcomes
    /\ guard' = [guard EXCEPT ![t] = g]
    /\ pc' = [pc EXCEPT ![t] = at]
    /\ outcome' = [outcome EXCEPT ![t] = how]
    /\ Locals(g, at, how)

\* Every step of an operation moves it and only it.
LEMMA StepMoves ==
    ASSUME IInv, NEW t \in Thread,
           \/ \E k \in Key, repeatable, streams \in BOOLEAN : Begin(t, k, repeatable, streams)
           \/ Cancel(t)
           \/ Step(t)
    PROVE  \E g, at, how : Moved(t, g, at, how)
<1> DEFINE h == guard[t]
<1>0. /\ h \in Guard /\ Locals(h, pc[t], outcome[t])
      /\ guard = [guard EXCEPT ![t] = h] /\ pc = [pc EXCEPT ![t] = pc[t]]
      /\ outcome = [outcome EXCEPT ![t] = outcome[t]]
      /\ pc[t] \in Labels /\ outcome[t] \in Outcomes
    BY DEF IInv, TypeOK, LocalsOK
<1> USE DEF Moved, Goto, Set, Done, Labels, Outcomes
<1> HIDE DEF h
<1>1. ASSUME NEW k \in Key, NEW repeatable \in BOOLEAN, NEW streams \in BOOLEAN,
             Begin(t, k, repeatable, streams)
      PROVE  \E g, at, how : Moved(t, g, at, how)
  <2> DEFINE g == NewGuard(k, repeatable, streams)
  <2>1. g \in Guard BY NewGuards
  <2>2. Locals(g, "enter", "none") BY DEF Locals, NewGuard
  <2>3. Moved(t, g, "enter", "none") BY <1>1, <2>1, <2>2 DEF Begin
  <2> QED BY <2>3
<1>2. CASE Cancel(t)
  <2>1. Moved(t, h, pc[t], outcome[t]) BY <1>0, <1>2 DEF Cancel
  <2> QED BY <2>1
<1>3. CASE Enter(t)
  <2>1. CASE ended[t]
    <3>1. Locals(h, "idle", "canceled") BY <1>0, <1>3 DEF Locals, Enter
    <3>2. Moved(t, h, "idle", "canceled") BY <1>0, <1>3, <2>1, <3>1 DEF Enter, h
    <3> QED BY <3>2
  <2>2. CASE ~ended[t]
    <3> DEFINE g == [h EXCEPT !.open = health[h.key].open, !.cool = health[h.key].cool, !.clock = now]
    <3>1. h.key \in Key BY <1>0, <1>3 DEF Locals, Enter
    <3>2. health[h.key].open \in Nat /\ health[h.key].cool \in Nat /\ now \in Nat
        BY <3>1, HealthFields DEF IInv, TypeOK, HealthTypeOK
    <3>3. g \in Guard BY <1>0, <3>2 DEF Guard
    <3>4. Locals(g, "admit", outcome[t]) BY <1>0, <1>3 DEF Locals, Enter, Guard
    <3>5. Moved(t, g, "admit", outcome[t]) BY <1>0, <1>3, <2>2, <3>3, <3>4 DEF Enter, h
    <3> QED BY <3>5
  <2> QED BY <2>1, <2>2
<1>4. CASE Admit(t)
  <2> DEFINE g == [h EXCEPT !.open = 0, !.cool = 0, !.clock = 0]
  <2>1. g \in Guard BY <1>0 DEF Guard
  <2>2. Locals(g, "idle", "refused") /\ Locals(g, "try", outcome[t])
      BY <1>0, <1>4 DEF Locals, Admit, Guard
  <2> QED
    <3>1. \/ Moved(t, g, "idle", "refused")
          \/ Moved(t, g, "try", outcome[t])
        BY <1>0, <1>4, <2>1, <2>2 DEF Admit, h
    <3> QED BY <3>1
<1>5. CASE Try(t)
  <2>1. \E err \in Classification \cup {None}, held \in BOOLEAN :
          guard' = [guard EXCEPT ![t] = [h EXCEPT !.sent = @ + 1, !.err = err, !.held = held]]
    <3>0. h.streams \in BOOLEAN BY <1>0 DEF Guard
    <3>1. CASE guard' = [guard EXCEPT ![t] = [h EXCEPT !.sent = @ + 1, !.err = None, !.held = h.streams]]
        BY <3>0, <3>1
    <3>2. ASSUME NEW f \in Failures, NEW held \in {FALSE, h.streams},
                 guard' = [guard EXCEPT ![t] = [h EXCEPT !.sent = @ + 1, !.err = View(f), !.held = held]]
          PROVE  \E err \in Classification \cup {None}, held0 \in BOOLEAN :
                   guard' = [guard EXCEPT ![t] = [h EXCEPT !.sent = @ + 1, !.err = err, !.held = held0]]
        BY <3>0, <3>2, Viewed
    <3> QED BY <1>5, <3>1, <3>2 DEF Try, h
  <2>2. PICK err \in Classification \cup {None}, held \in BOOLEAN :
          guard' = [guard EXCEPT ![t] = [h EXCEPT !.sent = @ + 1, !.err = err, !.held = held]]
      BY <2>1
  <2> DEFINE g == [h EXCEPT !.sent = @ + 1, !.err = err, !.held = held]
  <2>3. g \in Guard
    <3>1. h.sent + 1 \in Nat BY <1>0 DEF Guard
    <3> QED BY <1>0, <3>1 DEF Guard
  <2>4. Locals(g, "returned", outcome[t])
    <3>1. /\ g.key = h.key /\ (g.repeatable <=> h.repeatable) /\ g.tries = h.tries
          /\ g.recorded = h.recorded /\ g.sent = h.sent + 1
        BY <1>0 DEF Guard
    <3>2. h.sent \in Nat /\ h.tries \in Nat BY <1>0 DEF Guard
    <3>3. /\ h.key \in Key /\ outcome[t] = "none" /\ h.recorded = 0 /\ h.sent + 1 = h.tries
          /\ (h.tries > 1 => h.repeatable /\ h.tries <= Attempts)
        BY <1>0, <1>5 DEF Locals, Try
    <3> HIDE DEF g
    <3> QED BY <3>1, <3>2, <3>3 DEF Locals
  <2>5. Moved(t, g, "returned", outcome[t]) BY <1>0, <1>5, <2>2, <2>3, <2>4 DEF Try
  <2> QED BY <2>5
<1>6. CASE Judge(t)
  <2> DEFINE g == Discard(h)
  <2>1. g \in Guard BY <1>0 DEF Guard, Discard
  <2>2. Locals(g, "idle", "canceled") /\ Locals(g, "observe", outcome[t])
        /\ (h.err # None /\ MayRepeat(h) => Locals(g, "wait", outcome[t]))
        /\ (h.err = None => Locals(h, "observe", outcome[t]))
      BY <1>0, <1>6 DEF Locals, Judge, Guard, Discard, MayRepeat
  <2>3. \/ Moved(t, g, "idle", "canceled")
        \/ Moved(t, h, "observe", outcome[t])
        \/ Moved(t, g, "observe", outcome[t])
        \/ Moved(t, g, "wait", outcome[t])
      BY <1>0, <1>6, <2>1, <2>2 DEF Judge, h
  <2> QED BY <2>3
<1>7. CASE Repeat(t)
  <2> DEFINE g == [h EXCEPT !.tries = @ + 1, !.err = None]
  <2>1. g \in Guard
    <3>1. h.tries + 1 \in Nat BY <1>0 DEF Guard
    <3> QED BY <1>0, <3>1 DEF Guard
  <2>2. Locals(h, "idle", "canceled") /\ Locals(g, "try", outcome[t])
      BY <1>0, <1>7, ResilientConstants DEF Locals, Repeat, Guard
  <2>3. \/ Moved(t, h, "idle", "canceled")
        \/ Moved(t, g, "try", outcome[t])
      BY <1>0, <1>7, <2>1, <2>2 DEF Repeat, h
  <2> QED BY <2>3
<1>8. CASE ReadPolicy(t)
  <2> DEFINE g == [h EXCEPT !.policy = policy[h.key]]
  <2>1. policy[h.key] \in Policy
      BY <1>0, <1>8 DEF Locals, ReadPolicy, IInv, TypeOK, HealthTypeOK
  <2>2. g \in Guard BY <1>0, <2>1 DEF Guard
  <2>3. Locals(g, "record", outcome[t]) BY <1>0, <1>8, <2>1 DEF Locals, ReadPolicy, Guard
  <2>4. Moved(t, g, "record", outcome[t]) BY <1>0, <1>8, <2>2, <2>3 DEF ReadPolicy, h
  <2> QED BY <2>4
<1>9. CASE Record(t)
  <2> DEFINE g == [h EXCEPT !.recorded = @ + 1, !.policy = None]
  <2>1. g \in Guard
    <3>1. h.recorded + 1 \in Nat BY <1>0 DEF Guard
    <3> QED BY <1>0, <3>1 DEF Guard
  <2>2. Locals(g, "idle", IF h.err = None THEN "served" ELSE "failed")
      BY <1>0, <1>9 DEF Locals, Record, Guard
  <2>3. Moved(t, g, "idle", IF h.err = None THEN "served" ELSE "failed")
      BY <1>0, <1>9, <2>1, <2>2 DEF Record, h
  <2> QED BY <2>3
<1> QED BY <1>1, <1>2, <1>3, <1>4, <1>5, <1>6, <1>7, <1>8, <1>9 DEF Step

----------------------------------------------------------------------------
(* Every step.                                                             *)

\* What a step does to the tracker: nothing, a Reset of a key, or the record of
\* an operation's outcome.
LEMMA TrackerStep ==
    ASSUME IInv, [Next]_vars
    PROVE  \/ UNCHANGED health
           \/ UNCHANGED guard /\ \E k \in Key : health' = [health EXCEPT ![k] = NoHealth]
           \/ \E k \in Key, p \in Policy : \E o :
                  Heard(o) /\ health' = [health EXCEPT ![k] = Recorded(@, p, o)]
<1>1. ASSUME NEW t \in Thread, Record(t)
      PROVE  \E k \in Key, p \in Policy : \E o :
                  Heard(o) /\ health' = [health EXCEPT ![k] = Recorded(@, p, o)]
  <2>1. guard[t].key \in Key /\ guard[t].policy \in Policy
      BY <1>1 DEF Record, IInv, LocalsOK, Locals
  <2>2. Heard(Observed(guard[t])) BY ObservedHeard DEF IInv, TypeOK
  <2> QED BY <1>1, <2>1, <2>2 DEF Record
<1>2. ASSUME NEW t \in Thread, Step(t), ~Record(t) PROVE UNCHANGED health
    BY <1>2 DEF Step, Enter, Admit, Try, Judge, Repeat, ReadPolicy
<1>3. ASSUME NEW t \in Thread,
             \/ \E k \in Key, repeatable, streams \in BOOLEAN : Begin(t, k, repeatable, streams)
             \/ Cancel(t)
      PROVE  UNCHANGED health
    BY <1>3 DEF Begin, Cancel
<1>4. CASE Tick \/ Quiescent \/ UNCHANGED vars BY <1>4 DEF Tick, Quiescent, vars
<1>5. CASE Settings BY <1>5 DEF Settings, SetPolicy, Reset, threadVars
<1> QED BY <1>1, <1>2, <1>3, <1>4, <1>5 DEF Next

\* The invariant is inductive.
LEMMA StepIInv == IInv /\ [Next]_vars => IInv'
<1> SUFFICES ASSUME IInv, [Next]_vars PROVE IInv' OBVIOUS
<1>0. /\ health \in [Key -> HealthState] /\ now \in Nat \ {0} /\ now \in Nat
      /\ \A k \in Key : Sound(health[k])
    BY DEF IInv, TypeOK, HealthTypeOK, TrackerSound
<1>1. health' \in [Key -> HealthState] /\ \A k \in Key : Sound(health'[k])
  <2>1. CASE UNCHANGED health BY <1>0, <2>1
  <2>2. ASSUME NEW k \in Key, health' = [health EXCEPT ![k] = NoHealth]
        PROVE  health' \in [Key -> HealthState] /\ \A j \in Key : Sound(health'[j])
    <3>1. NoHealth \in HealthState /\ Sound(NoHealth) BY NoHealthState, NothingCounted
    <3> QED BY <1>0, <2>2, <3>1
  <2>3. ASSUME NEW k \in Key, NEW p \in Policy, NEW o, Heard(o),
               health' = [health EXCEPT ![k] = Recorded(@, p, o)]
        PROVE  health' \in [Key -> HealthState] /\ \A j \in Key : Sound(health'[j])
    <3> DEFINE r == Recorded(health[k], p, o)
    <3>1. r \in HealthState BY <1>0, <2>3, RecordedState
    <3>2. Sound(r) BY <1>0, <2>3, RecordedSound
    <3> HIDE DEF r
    <3>3. health' = [health EXCEPT ![k] = r] BY <2>3 DEF r
    <3> QED BY <1>0, <3>1, <3>2, <3>3
  <2> QED BY <2>1, <2>2, <2>3, TrackerStep
<1>2. now' \in Nat \ {0} /\ policy' \in [Key -> Policy] /\ ended' \in [Thread -> BOOLEAN]
      /\ begun' \in 0..MaxRuns
  <2>0. now \in Nat \ {0} /\ policy \in [Key -> Policy] /\ ended \in [Thread -> BOOLEAN]
        /\ begun \in 0..MaxRuns /\ MaxRuns \in Nat
      BY <1>0, ResilientConstants DEF IInv, TypeOK, HealthTypeOK
  <2>1. CASE Tick \/ Quiescent \/ UNCHANGED vars
      BY <2>0, <2>1 DEF Tick, Quiescent, vars, threadVars
  <2>2. CASE Settings BY <2>0, <2>2 DEF Settings, SetPolicy, Reset, threadVars
  <2>3. ASSUME NEW t \in Thread, NEW k \in Key, NEW repeatable, NEW streams,
               Begin(t, k, repeatable, streams)
        PROVE  now' \in Nat \ {0} /\ policy' \in [Key -> Policy] /\ ended' \in [Thread -> BOOLEAN]
               /\ begun' \in 0..MaxRuns
      BY <2>0, <2>3 DEF Begin
  <2>4. ASSUME NEW t \in Thread, Cancel(t)
        PROVE  now' \in Nat \ {0} /\ policy' \in [Key -> Policy] /\ ended' \in [Thread -> BOOLEAN]
               /\ begun' \in 0..MaxRuns
      BY <2>0, <2>4 DEF Cancel
  <2>5. ASSUME NEW t \in Thread, Step(t) PROVE UNCHANGED <<now, policy, ended, begun>>
      BY <2>5 DEF Step, Enter, Admit, Try, Judge, Repeat, ReadPolicy, Record
  <2> QED BY <2>0, <2>1, <2>2, <2>3, <2>4, <2>5 DEF Next
<1>3. guard' \in [Thread -> Guard] /\ pc' \in [Thread -> Labels] /\ outcome' \in [Thread -> Outcomes]
      /\ LocalsOK'
  <2>1. CASE UNCHANGED <<pc, guard, outcome>> BY <2>1 DEF IInv, TypeOK, LocalsOK
  <2>2. ASSUME NEW t \in Thread, NEW g, NEW at, NEW how, Moved(t, g, at, how)
        PROVE  guard' \in [Thread -> Guard] /\ pc' \in [Thread -> Labels]
               /\ outcome' \in [Thread -> Outcomes] /\ LocalsOK'
      BY <2>2 DEF Moved, IInv, TypeOK, LocalsOK
  <2>3. CASE Tick \/ Settings \/ Quiescent \/ UNCHANGED vars
      BY <2>1, <2>3 DEF Tick, Settings, Quiescent, vars, threadVars
  <2> QED BY <2>2, <2>3, StepMoves DEF Next
<1> QED BY <1>1, <1>2, <1>3 DEF IInv, TypeOK, HealthTypeOK, TrackerSound

----------------------------------------------------------------------------
(* The theorems.                                                           *)

\* The inductive invariant holds throughout.
LEMMA ResilientInvariant == Spec => []IInv
BY InitIInv, StepIInv, PTL DEF Spec

\* The tracker's state is explained by what was recorded (HealthTracker.Record),
\* whatever operations, policies and settings it came under: the failures by
\* class add up to the streak, and a deadline has failures behind it.
THEOREM TrackerExplained == Spec => []HealthExplained
<1>1. IInv => HealthExplained
    BY DEF IInv, TrackerSound, Sound, HealthExplained, StreakExplained
<1> QED BY ResilientInvariant, <1>1, PTL

\* An operation counts once, however often it was repeated, and not at all when
\* it was refused or given up (Resilient, Policy.Health).
THEOREM OutcomesCountedOnce == Spec => []CountedOnce
<1>1. IInv => CountedOnce
  <2> SUFFICES ASSUME IInv, NEW t \in Thread
               PROVE  LET g == guard[t]
                      IN  /\ outcome[t] \in {"served", "failed"} => g.recorded = 1 /\ g.sent > 0
                          /\ outcome[t] \in {"refused", "canceled"} => g.recorded = 0
                          /\ outcome[t] = "refused" => g.sent = 0
                          /\ g.sent > 1 => g.repeatable /\ g.sent <= Attempts
      BY DEF CountedOnce
  <2>1. guard[t] \in Guard /\ Locals(guard[t], pc[t], outcome[t]) BY DEF IInv, TypeOK, LocalsOK
  <2>2. guard[t].sent \in Nat /\ guard[t].tries \in Nat BY <2>1 DEF Guard
  <2> QED BY <2>1, <2>2, ResilientConstants DEF Locals
<1> QED BY ResilientInvariant, <1>1, PTL

\* No stream outlives the try that opened it, but the one a served operation
\* gave its caller (closeStream).
THEOREM NoStreamKept == Spec => []StreamsDiscarded
<1>1. IInv => StreamsDiscarded BY DEF IInv, LocalsOK, Locals, StreamsDiscarded
<1> QED BY ResilientInvariant, <1>1, PTL

\* No record cuts a running deadline short (HealthTracker.fail, succeed and
\* Record): a circuit closes early only on a success or a Reset, and a cooldown
\* only on a Reset.
THEOREM DeadlinesAreKept == Spec => DeadlinesKept
<1>1. IInv /\ [Next]_vars => [CircuitOnlyExtended /\ CooldownRunsItsCourse]_vars
  <2> SUFFICES ASSUME IInv, [Next]_vars PROVE CircuitOnlyExtended /\ CooldownRunsItsCourse
      OBVIOUS
  <2>0. health \in [Key -> HealthState] /\ now \in Nat BY DEF IInv, TypeOK, HealthTypeOK
  <2>1. CASE UNCHANGED health
    <3>1. \A k \in Key : health[k].open \in Nat /\ health[k].cool \in Nat BY <2>0, HealthFields
    <3> QED BY <2>1, <3>1 DEF CircuitOnlyExtended, CooldownRunsItsCourse
  <2>2. ASSUME NEW k \in Key, UNCHANGED guard, health' = [health EXCEPT ![k] = NoHealth]
        PROVE  CircuitOnlyExtended /\ CooldownRunsItsCourse
    <3>1. \A j \in Key : health[j].open \in Nat BY <2>0, HealthFields
    <3> QED BY <2>0, <2>2, <3>1, NoHealthState DEF CircuitOnlyExtended, CooldownRunsItsCourse
  <2>3. ASSUME NEW k \in Key, NEW p \in Policy, NEW o, Heard(o),
               health' = [health EXCEPT ![k] = Recorded(@, p, o)]
        PROVE  CircuitOnlyExtended /\ CooldownRunsItsCourse
    <3> DEFINE r == Recorded(health[k], p, o)
    <3>1. (r.open < health[k].open => r.streak = 0) /\ (r.cool < health[k].cool => now >= health[k].cool)
        BY <2>0, <2>3, RecordedState
    <3> HIDE DEF r
    <3>2. health' = [health EXCEPT ![k] = r] BY <2>3 DEF r
    <3>3. \A j \in Key : health[j].open \in Nat /\ health[j].cool \in Nat BY <2>0, HealthFields
    <3> QED BY <2>0, <3>1, <3>2, <3>3 DEF CircuitOnlyExtended, CooldownRunsItsCourse
  <2> QED BY <2>1, <2>2, <2>3, TrackerStep
<1> QED BY ResilientInvariant, <1>1, PTL DEF Spec, DeadlinesKept
=============================================================================
