----------------------------- MODULE Anonymous -----------------------------
(***************************************************************************)
(* anonymous.Orchestrator: the automation that enrolls, checks and records *)
(* the anonymous providers.  Its runs share the product's hooks: a         *)
(* scheduler is the goroutine of Start in some process, calling RunOnce at *)
(* once, then at every tick and wake, until its context ends; a manual run *)
(* is one ConnectAll.                                                      *)
(*                                                                         *)
(* A check takes a step per call to the product or the provider: the       *)
(* hooks' Generation, Discover, each probe, Record.                        *)
(***************************************************************************)
EXTENDS Contracts, FiniteSets, TLC

CONSTANTS
    Runner,         \* runs: goroutines of Start, or calls of ConnectAll
    Kinds,          \* which of them are which
    Options,        \* the ProbePolicy and TargetPublicationPolicy of the product
    Profiles,       \* the profiles, as the providers they enroll, in order
    Lists,          \* catalogs a provider may answer each run with
    Failures,       \* statuses a failing call may carry
    Preferred,      \* reviewed verification models, most preferred first
    Lexical,        \* the raw ids in lexical order
    LowerOf,        \* strings.ToLower of each
    Every,          \* how often a provider is checked
    Stopped,        \* the scheduler whose stop is called
    MaxStops,       \* bound on the calls of that stop
    LastTime,       \* bound on the clock
    MaxEdits        \* bound on changes of the product's configuration

ASSUME AnonymousConstants ==
    /\ Kinds \subseteq [Runner -> {"scheduler", "manual"}] /\ Stopped \in Runner
    /\ \A kind \in Kinds : kind[Stopped] = "scheduler"
    /\ Options \subseteq [probe : {"all", "verification"},
                          publish : {"inference_verified", "catalog_discovered"}]
    /\ Lists \in [Runner -> SUBSET Seq(RawId)] /\ Failures \subseteq Statuses
    /\ Preferred \in Seq(RawId) /\ Lexical \in Seq(RawId) /\ ToSet(Lexical) = RawId
    /\ LowerOf \in [RawId -> RawId]
    /\ Profiles \in Seq(ToSet(Profiles)) /\ Profiles # <<>>
    /\ {Every, LastTime, MaxStops, MaxEdits} \subseteq Nat /\ Every > 0

VARIABLES
    options,    \* the orchestrator's options
    enabled,    \* whether the automation is on
    claims,     \* when the check of each provider was last claimed, 0 never
    generation, \* evidence generation of each provider
    instant,    \* the clock
    runs,       \* the locals of each run
    stops,      \* where each caller of the stop is, in the order they called
    reached,    \* history: Codex providers an anonymous request was sent to
    recorded,   \* history: the result the last step recorded, if it did
    edits       \* how often the product changed its configuration

vars == <<options, enabled, claims, generation, instant, runs, stops, reached, recorded,
          edits>>
hooks == <<options, enabled, claims, generation, instant, edits>>

Stopper == 1..MaxStops
Providers == ToSet(Profiles)
NoResult == [generation |-> 0]
Unrecorded == recorded' = NoResult

\* on: the automation was on at some moment since the claim.  seen: the
\* generation at the first observation.  foul: a failure the stop caused.
Idle == [kind |-> "scheduler", pc |-> "run", at |-> 1, ended |-> FALSE, on |-> TRUE, claimed |-> 0,
         generation |-> 0, seen |-> 0, models |-> <<>>, targets |-> <<>>,
         probes |-> <<>>, health |-> UnknownHealth, catalog |-> "not_probed", err |-> FALSE,
         foul |-> FALSE]

Init ==
    /\ options \in Options
    /\ enabled \in BOOLEAN
    /\ claims = [p \in Providers |-> 0]
    /\ generation = [p \in Providers |-> 1]
    /\ instant = Every
    /\ \E kind \in Kinds :
        runs = [r \in Runner |-> [Idle EXCEPT !.kind = kind[r]]]
    /\ stops = [s \in Stopper |-> "none"]
    /\ reached = {}
    /\ recorded = NoResult
    /\ edits = 0

Of(r) == Profiles[runs[r].at]
Set(r, run) == runs' = [runs EXCEPT ![r] = run]
Move(r, label) == Set(r, [runs[r] EXCEPT !.pc = label])

\* The end of a profile, and of a run: a scheduler waits for the next.
Leave(run) == [Idle EXCEPT !.kind = run.kind, !.ended = run.ended,
                            !.pc = IF run.kind = "scheduler" THEN "wait" ELSE "exited"]
NextProfile(run) ==
    IF run.at = Len(Profiles) THEN Leave(run)
    ELSE [Leave(run) EXCEPT !.pc = "gate", !.at = run.at + 1]

----------------------------------------------------------------------------
\* The product turns the automation on or off, or configures a provider anew.
Toggle ==
    /\ edits < MaxEdits
    /\ enabled' = ~enabled
    /\ edits' = edits + 1
    /\ runs' = [r \in Runner |-> [runs[r] EXCEPT !.on = @ \/ ~enabled]]
    /\ Unrecorded /\ UNCHANGED <<options, claims, generation, instant, stops, reached>>

Reconfigure(p) ==
    /\ edits < MaxEdits
    /\ generation' = [generation EXCEPT ![p] = @ + 1]
    /\ edits' = edits + 1
    /\ Unrecorded /\ UNCHANGED <<options, enabled, claims, instant, runs, stops, reached>>

ClockAdvances ==
    /\ instant < LastTime
    /\ instant' = instant + 1
    /\ Unrecorded /\ UNCHANGED <<options, enabled, claims, generation, runs, stops, reached, edits>>

\* The context a run was given ends.
EndContext(r) ==
    /\ ~runs[r].ended /\ runs[r].pc # "exited"
    /\ Set(r, [runs[r] EXCEPT !.ended = TRUE])
    /\ Unrecorded /\ UNCHANGED <<hooks, stops, reached>>

----------------------------------------------------------------------------
\* RunOnce begins, and its gate before each profile; ConnectAll looks at the
\* context only.  Past it Hooks.Enroll manages the provider, or says why the
\* automation leaves it alone.
Enroll(r) ==
    LET run == runs[r]
        off == run.ended \/ (run.kind = "scheduler" /\ ~enabled)
    IN /\ run.pc \in {"run", "gate"}
       /\ \/ off /\ Set(r, Leave(run))
          \/ ~off /\ Set(r, NextProfile(run))
          \/ ~off /\ Move(r, IF run.kind = "scheduler" THEN "claim" ELSE "generation")
       /\ Unrecorded /\ UNCHANGED <<hooks, stops, reached>>

\* Hooks.Claim, across processes; it may fail.
Claim(p) == instant - claims[p] >= Every

\* Mutant: what Claim answers is not looked at.
ClaimCheckAnyway(r) ==
    LET run == runs[r] p == Of(r)
    IN /\ run.pc = "claim"
       /\ claims' = IF Claim(p) THEN [claims EXCEPT ![p] = instant] ELSE claims
       /\ Set(r, [run EXCEPT !.pc = "confirm", !.on = enabled, !.claimed = instant])
       /\ Unrecorded /\ UNCHANGED <<options, enabled, generation, instant, stops, reached, edits>>

ClaimCheck(r) ==
    LET run == runs[r] p == Of(r)
    IN /\ run.pc = "claim"
       /\ \/ /\ Claim(p)
             /\ claims' = [claims EXCEPT ![p] = instant]
             /\ Set(r, [run EXCEPT !.pc = "confirm", !.on = enabled, !.claimed = instant])
          \/ Set(r, NextProfile(run)) /\ UNCHANGED claims
       /\ Unrecorded /\ UNCHANGED <<options, enabled, generation, instant, stops, reached, edits>>

\* Mutant: the automation is not consulted again under the claim.
ConfirmAlways(r) ==
    /\ runs[r].pc = "confirm"
    /\ Move(r, "generation")
    /\ Unrecorded /\ UNCHANGED <<hooks, stops, reached>>

\* Enabled is consulted again under the claim: a claim may be spent on nothing.
Confirm(r) ==
    /\ runs[r].pc = "confirm"
    /\ IF enabled THEN Move(r, "generation") ELSE Set(r, Leave(runs[r]))
    /\ Unrecorded /\ UNCHANGED <<hooks, stops, reached>>

----------------------------------------------------------------------------
(* check.                                                                  *)

\* Hooks.Generation; a check without one ends unrecorded.
Generation(r) ==
    LET run == runs[r]
    IN /\ run.pc = "generation"
       /\ \/ Set(r, [run EXCEPT !.pc = "discover", !.generation = generation[Of(r)]])
          \/ Set(r, NextProfile(run))
       /\ Unrecorded /\ UNCHANGED <<hooks, stops, reached>>

\* The ids of a catalog; of those that differ in their case only, the last.
Free(models) ==
    {models[i] : i \in {i \in DOMAIN models :
                         \A k \in (i + 1)..Len(models) : LowerOf[models[k]] # LowerOf[models[i]]}}

\* SelectVerificationModel: a reviewed model if listed in any case, else the first in
\* order, which is none when a row is empty.
SelectVerificationModel(models) ==
    LET Listed(name) == {id \in Free(models) \ {BlankId} : LowerOf[id] = LowerOf[name]}
        reviewed == Only(Preferred, {i \in DOMAIN Preferred : Listed(Preferred[i]) # {}})
        ordered == Only(Lexical, {i \in DOMAIN Lexical : Lexical[i] \in Free(models)})
    IN CASE reviewed # <<>> -> <<CHOOSE id \in Listed(Head(reviewed)) : TRUE>>
         [] reviewed = <<>> /\ (ordered = <<>> \/ BlankId \in Free(models)) -> <<>>
         [] OTHER -> <<Head(ordered)>>

\* The models a check probes: each one once, or the verification model.
ProbeTargets(models) ==
    IF options.probe = "verification" THEN SelectVerificationModel(models) ELSE Distinct(models)

Connection(p) == [provider |-> p, kind |-> "anonymous", auth |-> "anonymous", owner |-> FALSE]

\* The status a request fails with, as operationError keeps it for the health; a
\* reply that could not be decoded is a 200.
FailsWith(run) == IF run.ended THEN {0} ELSE Failures

\* Connect up to the probes: the connection is validated, then the catalog read.
\* A request made under an ended context fails without a status.
Discover(r) ==
    LET run == [runs[r] EXCEPT !.seen = generation[Of(r)]]
    IN /\ run.pc = "discover"
       /\ \/ /\ ~Validate(Connection(Of(r)))
             /\ Set(r, [run EXCEPT !.pc = "record", !.err = TRUE, !.catalog = ""])
             /\ UNCHANGED reached
          \/ /\ Validate(Connection(Of(r)))
             /\ reached' = reached \cup ({Of(r)} \cap Codex)
             /\ \/ \E status \in FailsWith(run) :
                    Set(r, [run EXCEPT !.pc = "record", !.catalog = "failed", !.err = TRUE,
                                       !.health = ClassifyProviderFailure(status),
                                       !.foul = run.ended])
                \/ \E models \in Lists[r] :
                    /\ ~run.ended
                    /\ Set(r, [run EXCEPT !.pc = IF ProbeTargets(models) = <<>> THEN "record" ELSE "probe",
                                          !.catalog = IF models = <<>> THEN "empty" ELSE "discovered",
                                          !.models = models, !.targets = ProbeTargets(models),
                                          !.health = Healthy])
       /\ Unrecorded /\ UNCHANGED <<hooks, stops>>

\* One probe: the request's failure is the provider's health, a success leaves it.
Probe(r) ==
    LET run == runs[r]
        after(ok, health) ==
            [run EXCEPT !.pc = IF Len(run.targets) = 1 THEN "record" ELSE "probe",
                        !.targets = Tail(@), !.health = health,
                        !.probes = Append(@, [model |-> Head(run.targets), ok |-> ok])]
    IN /\ run.pc = "probe"
       /\ reached' = reached \cup ({Of(r)} \cap Codex)
       /\ \/ ~run.ended /\ Set(r, after(TRUE, run.health))
          \/ \E status \in FailsWith(run) :
              Set(r, [after(FALSE, ClassifyProviderFailure(status)) EXCEPT !.foul = @ \/ run.ended])
       /\ Unrecorded /\ UNCHANGED <<hooks, stops>>

Rejecting == {"auth", "forbidden"}

AuthenticationState(health) ==
    CASE health.class \in Rejecting -> "rejected"
      [] health.class \notin Rejecting /\ health.status \in {"healthy", "degraded"} -> "accepted"
      [] OTHER -> "unknown"

HealthFailureCode(health, code) ==
    IF health.class \in Rejecting THEN "authentication_rejected" ELSE code

Verified(run) == Only(run.probes, {i \in DOMAIN run.probes : run.probes[i].ok})

\* resultOf.
ResultOf(run) ==
    LET failed == [status |-> "failed", auth |-> AuthenticationState(run.health), code |-> "",
                   completion |-> "not_probed", probed |-> 0, verified |-> 0, failed |-> 0,
                   targets |-> <<>>]
        verified == Len(Verified(run))
        probed ==
            [failed EXCEPT
                !.probed = Len(run.probes), !.verified = verified,
                !.failed = Len(run.probes) - verified,
                !.completion = IF verified = Len(run.probes) THEN "verified" ELSE "failed",
                !.targets = PublishExactTargets(run.catalog, run.models, run.probes, options.publish)]
    IN CASE run.err -> [failed EXCEPT !.code = HealthFailureCode(run.health, "catalog_failed")]
         [] ~run.err /\ run.probes = <<>> -> [failed EXCEPT !.code = "model_unavailable"]
         [] ~run.err /\ run.probes # <<>> /\ verified > 0 ->
                [probed EXCEPT !.status = "passed", !.auth = "accepted"]
         [] OTHER -> [probed EXCEPT !.code = HealthFailureCode(run.health, "verification_failed")]

\* The record's own generation, and what history knows of its evidence.
Persisted(r, gen) ==
    recorded' = [generation |-> gen, seen |-> runs[r].seen, current |-> generation[Of(r)],
                 foul |-> runs[r].foul]

\* Mutant: what the stop did to the check is recorded as the provider's.
RecordAlways(r) ==
    /\ runs[r].pc = "record"
    /\ Persisted(r, runs[r].generation)
    /\ Set(r, NextProfile(runs[r]))
    /\ UNCHANGED <<hooks, stops, reached>>

\* Mutant: the generation is the one the record finds.
RecordCurrent(r) ==
    /\ runs[r].pc = "record"
    /\ IF runs[r].ended THEN Unrecorded ELSE Persisted(r, generation[Of(r)])
    /\ Set(r, NextProfile(runs[r]))
    /\ UNCHANGED <<hooks, stops, reached>>

\* The result is kept, unless the context ended during the check.
Record(r) ==
    /\ runs[r].pc = "record"
    /\ IF runs[r].ended THEN Unrecorded ELSE Persisted(r, runs[r].generation)
    /\ Set(r, NextProfile(runs[r]))
    /\ UNCHANGED <<hooks, stops, reached>>

----------------------------------------------------------------------------
(* Start.                                                                  *)

\* The ticker or a wake, which may be chosen although the context ended.
Again(r) ==
    /\ runs[r].pc = "wait"
    /\ Move(r, "run")
    /\ Unrecorded /\ UNCHANGED <<hooks, stops, reached>>

\* Mutant: the goroutine watches its ticker and its wake only.
ExitNever(r) == FALSE /\ Move(r, "exited") /\ Unrecorded /\ UNCHANGED <<hooks, stops, reached>>

Exit(r) ==
    /\ runs[r].pc = "wait" /\ runs[r].ended
    /\ Move(r, "exited")
    /\ Unrecorded /\ UNCHANGED <<hooks, stops, reached>>

\* stop: the first caller ends the context and waits for the goroutine, the
\* others for the first, as sync.Once has them.
Stop(s) ==
    /\ stops[s] = "none" /\ \A earlier \in 1..(s - 1) : stops[earlier] # "none"
    /\ \/ /\ s = 1
          /\ stops' = [stops EXCEPT ![s] = "first"]
          /\ Set(Stopped, [runs[Stopped] EXCEPT !.ended = TRUE])
       \/ /\ s > 1
          /\ stops' = [stops EXCEPT ![s] = "waits"]
          /\ UNCHANGED runs
    /\ Unrecorded /\ UNCHANGED <<hooks, reached>>

\* Mutant: a later caller returns at once.
StopReturnsAtOnce(s) ==
    /\ \/ stops[s] = "first" /\ runs[Stopped].pc = "exited"
       \/ stops[s] = "waits"
    /\ stops' = [stops EXCEPT ![s] = "returned"]
    /\ Unrecorded /\ UNCHANGED <<hooks, runs, reached>>

StopReturns(s) ==
    /\ \/ stops[s] = "first" /\ runs[Stopped].pc = "exited"
       \/ stops[s] = "waits" /\ stops[1] = "returned"
    /\ stops' = [stops EXCEPT ![s] = "returned"]
    /\ Unrecorded /\ UNCHANGED <<hooks, runs, reached>>

Step(r) ==
    \/ Enroll(r) \/ ClaimCheck(r) \/ Confirm(r)
    \/ Generation(r) \/ Discover(r) \/ Probe(r) \/ Record(r)

Next ==
    \/ Toggle \/ ClockAdvances
    \/ \E p \in Providers : Reconfigure(p)
    \/ \E r \in Runner : EndContext(r) \/ Step(r) \/ Again(r) \/ Exit(r)
    \/ \E s \in Stopper : Stop(s) \/ StopReturns(s)

\* A call made under an ended context returns, and stop wakes its callers.
\* select picks among ready cases at random, so a context that has ended is
\* not passed over for ever however often the scheduler is woken.
Fairness ==
    /\ \A r \in Runner : WF_vars(runs[r].ended /\ Step(r)) /\ SF_vars(Exit(r))
    /\ \A s \in Stopper : WF_vars(StopReturns(s))

Spec == Init /\ [][Next]_vars /\ Fairness

----------------------------------------------------------------------------
Run == [kind : {"scheduler", "manual"},
        pc : {"run", "gate", "claim", "confirm", "generation", "discover",
              "probe", "record", "wait", "exited"},
        at : 1..Len(Profiles), ended : BOOLEAN, on : BOOLEAN, claimed : Nat,
        generation : Nat, seen : Nat, models : Seq(RawId), targets : Seq(RawId),
        probes : Seq([model : RawId, ok : BOOLEAN]),
        health : [status : {"", "healthy", "degraded", "unhealthy"},
                  class : {"", "none", "auth", "forbidden", "rate_limited", "transport", "upstream"},
                  permanent : BOOLEAN, retryable : BOOLEAN],
        catalog : {"", "not_probed", "failed", "empty", "discovered"}, err : BOOLEAN,
        foul : BOOLEAN]

\* The types of the hooks' state and of the locals of a run; the probes done and
\* those left are never more than the catalog's rows, whatever is repeated in it.
TypeOK ==
    /\ enabled \in BOOLEAN /\ instant \in Nat /\ edits \in 0..MaxEdits
    /\ claims \in [Providers -> Nat] /\ generation \in [Providers -> Nat]
    /\ runs \in [Runner -> Run]
    /\ \A r \in Runner : Len(runs[r].probes) + Len(runs[r].targets) <= Len(runs[r].models)
    /\ stops \in [Stopper -> {"none", "first", "waits", "returned"}]
    /\ reached \subseteq Codex

\* Codex never falls through to anonymous access: no catalog or probe request
\* goes to a provider of that name, whatever profile enrolled it
\* (ProviderConnection.Validate, eligible).
CodexNeverReached == reached = {}

\* A scheduled check under its claim.
Checking(r) ==
    /\ runs[r].kind = "scheduler"
    /\ runs[r].pc \in {"confirm", "generation", "discover", "probe", "record"}

\* However many schedulers run, in however many processes, the scheduled checks
\* of one provider have a claim each, at least Every apart, even while a slow
\* check goes on beside a later one (Hooks.Claim, RunOnce).
OneCheckPerInterval ==
    \A r \in {q \in Runner : Checking(q)} :
        /\ claims[Of(r)] = runs[r].claimed \/ claims[Of(r)] - runs[r].claimed >= Every
        /\ \A q \in {q \in Runner : Checking(q)} \ {r} :
            Of(q) = Of(r) => runs[q].claimed # runs[r].claimed

\* No scheduled check goes on whose claim was made while the automation was off
\* and has stayed off: turning it off between the gate and the claim stops the
\* run (RunOnce).
OffStopsTheRun ==
    \A r \in Runner : Checking(r) /\ runs[r].pc # "confirm" => runs[r].on

\* A failure that the end of the run's context caused is never kept as the
\* provider's (check).
StopIsNotEvidence == recorded # NoResult => ~recorded.foul

\* When the generation a result is recorded under is still the provider's, all of
\* the evidence was seen under it: a provider configured anew during the check is
\* told apart by its generation (check takes it first).
EvidenceOfItsGeneration ==
    recorded # NoResult /\ recorded.generation = recorded.current
        => recorded.seen = recorded.current

\* A check's result counts every probe once and passes exactly when one verified
\* inference, whatever the order of the failures around it; once anything was probed it
\* publishes each model the catalog names or, unless everything discovered is published,
\* each of them that verified, once, and otherwise nothing; probing everything, a check
\* that passes publishes, and access is reported rejected only when nothing verified
\* (resultOf, Connect, PublishExactTargets).
ResultHonest ==
    \A run \in {runs[r] : r \in {q \in Runner : runs[q].pc = "record"}} :
        LET result == ResultOf(run)
            verified == {probe.model : probe \in ToSet(Verified(run))}
            named == {TrimOf[id] : id \in ToSet(run.models)} \ {BlankId}
        IN /\ result.verified + result.failed = result.probed
           /\ (result.status = "passed") <=> (verified # {})
           /\ (result.completion = "verified") <=> (result.probed > 0 /\ result.failed = 0)
           /\ IsInjective(result.targets)
           /\ ToSet(result.targets) =
                CASE result.probed = 0 -> {}
                  [] result.probed > 0 /\ options.publish = "catalog_discovered" -> named
                  [] OTHER -> named \cap verified
           /\ options.probe = "all" /\ result.status = "passed" => result.targets # <<>>
           /\ result.auth = "rejected" => verified = {}
           /\ (result.status = "passed") <=> (result.code = "")

\* Once any caller's stop has returned, the scheduler's goroutine has ended: it
\* starts no run and records nothing (Start).
StoppedIsOver ==
    (\E s \in Stopper : stops[s] = "returned") => runs[Stopped].pc = "exited"

\* Every call of stop returns (Start).
StopsReturn ==
    \A s \in Stopper : (stops[s] # "none") ~> (stops[s] = "returned")

\* Checks go on only as the product's hooks admitted them: claimed, enabled, and
\* never of Codex (RunOnce, ProviderConnection.Validate).
ChecksClaimed == TypeOK /\ CodexNeverReached /\ OneCheckPerInterval /\ OffStopsTheRun

\* What is recorded says what was seen: a result adds up, none of its failures was the
\* run's own end, its generation, if it is still the provider's, is the one all of it was
\* seen under, and no stop that has returned leaves a scheduler at work (check, resultOf,
\* Start).
RecordHonest ==
    StopIsNotEvidence /\ EvidenceOfItsGeneration /\ ResultHonest /\ StoppedIsOver
=============================================================================
