------------------------------- MODULE Health -------------------------------
(***************************************************************************)
(* execution.HealthTracker: a circuit breaker and a Retry-After cooldown   *)
(* per key, under policies that follow the product's settings.             *)
(*                                                                         *)
(* Record reads its policy before it takes the tracker's lock, and         *)
(* Available after it released it, so each is two steps: the reading of    *)
(* the policy here, the critical section as an operator on a key's state.  *)
(***************************************************************************)
EXTENDS Naturals, FiniteSets

CONSTANTS
    Key,        \* health keys: provider instances
    Class,      \* classes an Observation names
    Policy,     \* HealthPolicies a key may have
    MaxTime     \* bound on the clock

VARIABLES
    health,     \* the health of each key
    policy,     \* the current policy of each key
    now         \* the tracker's clock

\* FailureThreshold, FailureWindow, IgnoreRetryAfter and the open time: one
\* per class, which grows with the failures of the class or not.  With equal
\* times that do not grow it is OpenDuration, otherwise a Backoff.
PolicyType == [threshold : Nat, window : Nat, ignore : BOOLEAN,
               open : [Class -> Nat], grows : BOOLEAN]

ASSUME HealthConstants ==
    /\ Policy \subseteq PolicyType
    /\ MaxTime \in Nat

HealthState == [streak : Nat, classes : [Class -> Nat], last : Nat,
                open : Nat, cool : Nat]

\* A key without state is healthy; the zero time is before every other.
NoHealth == [streak |-> 0, classes |-> [c \in Class |-> 0], last |-> 0,
             open |-> 0, cool |-> 0]

\* An error as routing reads it: core.ProviderErrorClassification, with the
\* status reduced to whether the upstream answered, and the class Observe
\* gives it.
Classification == [retryable : BOOLEAN, failover : BOOLEAN, circuit : BOOLEAN,
                   answered : BOOLEAN, retryAfter : Nat, class : Class]

Effects == {"neutral", "success", "failure"}

Observation == [effect : Effects, class : Class, retryAfter : Nat]

----------------------------------------------------------------------------
\* Mutant: the second time always wins.
LaterNewest(a, b) == b

Later(a, b) == IF b > a THEN b ELSE a

\* Observe of an operation's error.
Observe(e) ==
    [effect |-> IF e.circuit THEN "failure" ELSE IF e.answered THEN "success" ELSE "neutral",
     class |-> e.class, retryAfter |-> e.retryAfter]

\* Mutant: a success forgets a running cooldown too.
SucceedForgets(h) == NoHealth

\* HealthTracker.succeed: a running cooldown stays.
Succeed(h) ==
    IF now >= h.cool THEN NoHealth ELSE [NoHealth EXCEPT !.cool = h.cool]

\* The streak's last failure is older than the policy's window.
Forgotten(h, p) == p.window > 0 /\ h.last # 0 /\ now > h.last + p.window

\* OpenDuration, or the policy's Backoff of a class that failed n times.
OpenTime(p, class, n) == IF p.grows THEN n * p.open[class] ELSE p.open[class]

\* Mutant: a forgotten streak keeps its failures by class.
FailKeepsClasses(h, p, class) ==
    LET streak == IF Forgotten(h, p) THEN 1 ELSE h.streak + 1
        classes == [h.classes EXCEPT ![class] = @ + 1]
    IN  [streak |-> streak, classes |-> classes, last |-> now, cool |-> h.cool,
         open |-> IF streak >= p.threshold
                  THEN Later(h.open, now + OpenTime(p, class, classes[class])) ELSE h.open]

\* HealthTracker.fail: the streak grows, and at the threshold the circuit
\* opens, or stays open longer.
Fail(h, p, class) ==
    LET streak == IF Forgotten(h, p) THEN 1 ELSE h.streak + 1
        past == IF Forgotten(h, p) THEN NoHealth.classes ELSE h.classes
        classes == [past EXCEPT ![class] = @ + 1]
        open == OpenTime(p, class, classes[class])
    IN  [streak |-> streak, classes |-> classes, last |-> now, cool |-> h.cool,
         open |-> IF streak >= p.threshold /\ open > 0 THEN Later(h.open, now + open)
                  ELSE h.open]

\* A RetryAfter starts or extends a cooldown, unless the policy ignores it.
Cool(h, p, wait) ==
    IF wait > 0 /\ ~p.ignore THEN [h EXCEPT !.cool = Later(h.cool, now + wait)] ELSE h

\* The critical section of Record, with the policy p read before it.
Recorded(h, p, o) ==
    LET next == IF o.effect = "success" THEN Succeed(h)
                ELSE IF o.effect = "failure" /\ p.threshold > 0 THEN Fail(h, p, o.class)
                ELSE h
    IN  Cool(next, p, o.retryAfter)

\* Until when Available refuses a key whose deadlines were open and cool,
\* under the policy p read after them.
Until(open, cool, p) ==
    Later(IF p.threshold > 0 THEN open ELSE 0, IF p.ignore THEN 0 ELSE cool)

----------------------------------------------------------------------------
HealthInit ==
    /\ health = [k \in Key |-> NoHealth]
    /\ policy \in [Key -> Policy]
    /\ now = 1

\* The product's settings change a key's policy.
SetPolicy(k, p) ==
    /\ p # policy[k]
    /\ policy' = [policy EXCEPT ![k] = p]
    /\ UNCHANGED <<health, now>>

\* HealthTracker.Reset.
Reset(k) ==
    /\ health[k] # NoHealth
    /\ health' = [health EXCEPT ![k] = NoHealth]
    /\ UNCHANGED <<policy, now>>

HealthTypeOK ==
    /\ health \in [Key -> HealthState]
    /\ policy \in [Key -> Policy]
    /\ now \in Nat

----------------------------------------------------------------------------
\* The failures of a streak, each with its number among those of its class.
ByClass(h) == UNION {{<<c, n>> : n \in 1..h.classes[c]} : c \in Class}

\* A circuit is explained by its streak: the failures counted by class add up
\* to it, and a deadline of the circuit or a time of a last failure is held only
\* with failures counted.
Explained(h) ==
    /\ h.streak = Cardinality(ByClass(h))
    /\ h.streak = 0 <=> h.last = 0
    /\ h.open # 0 => h.streak > 0

\* Every key's circuit is explained by its streak.  A Backoff that reads
\* ClassFailures, and the half-open circuit that reopens at the next failure,
\* rest on it.
StreakExplained == \A k \in Key : Explained(health[k])

\* Only a success closes a circuit before its time, or Reset: no failure,
\* of whatever class, policy or order, cuts an open time short.
CircuitOnlyExtended ==
    \A k \in Key : health'[k].open < health[k].open => health'[k].streak = 0
=============================================================================
