----------------------------- MODULE OAuthFlow -----------------------------
(***************************************************************************)
(* oauthflow.Service: OAuth flows run by requests that interleave over a   *)
(* FlowStore, provider drivers and a credential store.                     *)
(*                                                                         *)
(* A request (Thread) runs Start, Get, Poll, Complete or Callback.  One    *)
(* step is one call of the store, of a driver or of the credential store,  *)
(* or one reading of the clock.  The requests may run in any number of     *)
(* processes: the Service keeps no state of its own.                       *)
(***************************************************************************)
EXTENDS FlowStore

CONSTANTS
    Thread,         \* requests
    Method,         \* the methods the product offers
    TTL,            \* the lifetime a driver names
    Interval,       \* the polling interval a device driver names
    SlowDownStep,   \* slowDownStep
    Unreliable,     \* the store may fail
    MaxOps          \* bound on the requests

ASSUME ServiceConstants ==
    /\ Method \subseteq Methods
    /\ TTL \in Nat \ {0}
    /\ Interval \in Nat \ {0}
    /\ SlowDownStep \in Nat \ {0}
    /\ Unreliable \in BOOLEAN
    /\ MaxOps \in Nat

VARIABLES
    pc,         \* where each request is
    local,      \* the locals of each request
    begun,      \* requests begun
    issued,     \* ids NewID has returned
    exchanged,  \* history: times a code of each flow was exchanged
    saved       \* history: credentials saved for each flow

vars == <<store, now, pc, local, begun, issued, exchanged, saved>>

----------------------------------------------------------------------------
Labels == {"idle", "create", "view", "resolve", "get", "due", "claim", "ask",
           "answer", "slow", "consume", "exchange", "save", "finish"}

\* What a driver's Poll answers, and what a completion brings: a code, the
\* provider's error, or a code that arrived at another redirect URI.
Answers == {"pending", "slow_down", "approved", "denied", "expired"}
Inputs == {"code", "error", "strayed"}

\* The locals: the caller (None for a Callback until the state names one),
\* the flow, the input's state and the input or answer, the flow as last read,
\* the clock as last read, and the outcome to record.
Local == [op : {"none", "start", "get", "poll", "complete", "callback"},
          caller : Caller \cup {None}, id : Id \cup {None}, state : State \cup {None},
          input : Inputs \cup Answers \cup {None}, flow : Entry \cup {None},
          clock : Nat, outcome : Outcomes]

NoLocal == [op |-> "none", caller |-> None, id |-> None, state |-> None, input |-> None,
            flow |-> None, clock |-> 0, outcome |-> ""]

Init ==
    /\ StoreInit
    /\ pc = [t \in Thread |-> "idle"]
    /\ local = [t \in Thread |-> NoLocal]
    /\ begun = 0
    /\ issued = {}
    /\ exchanged = [f \in Id |-> 0]
    /\ saved = [f \in Id |-> 0]

Goto(t, label) == pc' = [pc EXCEPT ![t] = label]

\* The request of t ends, and its locals with it.
Return(t) ==
    /\ Goto(t, "idle")
    /\ local' = [local EXCEPT ![t] = NoLocal]

Keep == UNCHANGED <<now, begun, issued, exchanged, saved>>

Begin(t, label, locals) ==
    /\ pc[t] = "idle" /\ begun < MaxOps
    /\ begun' = begun + 1
    /\ local' = [local EXCEPT ![t] = locals]
    /\ Goto(t, label)
    /\ UNCHANGED <<store, now, exchanged, saved>>

\* A store, a driver or a hook fails with an error the request returns.
Fails(t, label) ==
    /\ pc[t] = label
    /\ Unreliable
    /\ Return(t)
    /\ UNCHANGED store
    /\ Keep

----------------------------------------------------------------------------
(* Start.                                                                  *)

\* The driver has begun an authorization, and the clock dates the flow.
StartFlow(t, c, m, f, s) ==
    /\ m # "device" <=> s # None
    /\ f \notin issued
    /\ issued' = issued \cup {f}
    /\ Begin(t, "create",
           [NoLocal EXCEPT !.op = "start", !.caller = c, !.id = f, !.clock = now,
               !.flow = [owner |-> c, method |-> m, created |-> now, expires |-> now + TTL,
                         sequence |-> 0, revision |-> 0, consumed |-> FALSE, secret |-> TRUE,
                         state |-> s, indexed |-> s # None,
                         interval |-> IF m = "device" THEN Interval ELSE 0,
                         nextPoll |-> IF m = "device" THEN now + Interval ELSE 0,
                         outcome |-> ""]])

CreateFlow(t) ==
    /\ pc[t] = "create"
    /\ CreateExists(local[t].id, local[t].flow) \/ Create(local[t].id, local[t].flow)
    /\ Return(t)
    /\ Keep

----------------------------------------------------------------------------
(* Get, and the Get every other operation begins with.                     *)

Read(t, label) ==
    /\ local' = [local EXCEPT ![t].flow = flows[local[t].id]]
    /\ Goto(t, label)

GetFlow(t) ==
    LET c == local[t].caller
        f == local[t].id
    IN  /\ pc[t] = "view"
        /\ \/ Verdict(c, f) = "ok" /\ UNCHANGED store
           \/ Refused(c, f)
        /\ Return(t)
        /\ Keep

\* Poll goes on with a pending device flow.
MayPoll(t) ==
    LET e == flows[local[t].id]
    IN  local[t].op = "poll" /\ e.method = "device" /\ ~e.consumed

\* Complete and Callback go on with a pending browser or manual flow whose
\* state is the input's, when the input has one; Callback only with a browser
\* flow.
MayComplete(t) ==
    LET e == flows[local[t].id]
    IN  /\ local[t].op \in {"complete", "callback"}
        /\ local[t].op = "callback" => e.method = "browser" /\ local[t].input # "strayed"
        /\ e.method # "device" /\ ~e.consumed
        /\ local[t].state \in {None, e.state}

Get(t) ==
    LET c == local[t].caller
        f == local[t].id
    IN  /\ pc[t] = "get"
        /\ \/ /\ Verdict(c, f) = "ok"
              /\ \/ MayPoll(t) /\ Read(t, "due")
                 \/ MayComplete(t) /\ Read(t, "consume")
                 \/ ~MayPoll(t) /\ ~MayComplete(t) /\ Return(t)
              /\ UNCHANGED store
           \/ Refused(c, f) /\ Return(t)
        /\ Keep

\* The state of a redirect names the flow and its owner.
ResolveState(t) ==
    LET f == Resolved(local[t].state)
    IN  /\ pc[t] = "resolve"
        /\ \/ /\ f # None
              /\ \/ /\ Verdict(flows[f].owner, f) = "ok"
                    /\ local' = [local EXCEPT ![t] = [@ EXCEPT !.caller = flows[f].owner, !.id = f]]
                    /\ Goto(t, "get")
                    /\ UNCHANGED store
                 \/ Refused(flows[f].owner, f) /\ Return(t)
           \/ f = None /\ Return(t) /\ UNCHANGED store
        /\ Keep

----------------------------------------------------------------------------
(* Poll.                                                                   *)

\* A poll before NextPollAt is told to slow down.
PollDue(t) ==
    /\ pc[t] = "due"
    /\ \/ /\ now >= local[t].flow.nextPoll
          /\ local' = [local EXCEPT ![t].clock = now]
          /\ Goto(t, "claim")
       \/ now < local[t].flow.nextPoll /\ Return(t)
    /\ UNCHANGED store
    /\ Keep

\* The request claims the next poll; of concurrent claims one lands.
Claim(t) ==
    LET c == local[t].caller
        f == local[t].id
        e == local[t].flow
        next == local[t].clock + e.interval
    IN  /\ pc[t] = "claim"
        /\ \/ /\ Update(c, f, e.revision, e.interval, next, e.outcome)
              /\ local' = [local EXCEPT ![t].flow = Progressed(f, e.interval, next, e.outcome)]
              /\ Goto(t, "ask")
           \/ /\ Verdict(c, f) = "ok" /\ ~MayUpdate(c, f, e.revision)
              /\ Return(t)
              /\ UNCHANGED store
           \/ Refused(c, f) /\ Return(t)
        /\ Keep

\* DeviceDriver.Poll reaches the provider.
Ask(t) ==
    /\ pc[t] = "ask"
    /\ Goto(t, "answer")
    /\ UNCHANGED <<store, local>>
    /\ Keep

\* DeviceDriver.Poll returns.  An error is transient: the flow stays pending.
Answer(t, answer) ==
    /\ pc[t] = "answer"
    /\ \/ answer \in {"pending", "error"} /\ Return(t)
       \/ /\ answer = "slow_down"
          /\ local' = [local EXCEPT ![t].input = answer]
          /\ Goto(t, "slow")
       \/ /\ answer \in {"approved", "denied", "expired"}
          /\ local' = [local EXCEPT ![t].input = answer]
          /\ Goto(t, "consume")
    /\ UNCHANGED store
    /\ Keep

\* slow_down lengthens the interval, if no other write came between.
SlowDown(t) ==
    LET c == local[t].caller
        f == local[t].id
        e == local[t].flow
        slower == e.interval + SlowDownStep
    IN  /\ pc[t] = "slow"
        /\ \/ Update(c, f, e.revision, slower, local[t].clock + slower, e.outcome)
           \/ Verdict(c, f) = "ok" /\ ~MayUpdate(c, f, e.revision) /\ UNCHANGED store
           \/ Refused(c, f)
        /\ Return(t)
        /\ Keep

----------------------------------------------------------------------------
(* The end of a flow.                                                      *)

\* Mutant: the provider's answer is recorded as it came.
EndedAsAnswered(input) == input

\* The outcome of a flow that yields no credential.
EndedAs(input) == IF input = "expired" THEN "expired" ELSE "failed"

\* The request that consumes the flow goes on with it; every other is told
\* that there is no such flow.
ConsumeFlow(t) ==
    LET c == local[t].caller
        f == local[t].id
        input == local[t].input
    IN  /\ pc[t] = "consume"
        /\ \/ /\ Consume(c, f)
              /\ \/ /\ input \in {"code", "approved"}
                    /\ local' = [local EXCEPT ![t].flow = Spent(f)]
                    /\ Goto(t, IF input = "code" THEN "exchange" ELSE "save")
                 \/ /\ input \in {"error", "denied", "expired"}
                    /\ local' = [local EXCEPT ![t] =
                           [@ EXCEPT !.flow = Spent(f), !.outcome = EndedAs(input)]]
                    /\ Goto(t, "finish")
           \/ Verdict(c, f) = "ok" /\ ~MayConsume(c, f) /\ Return(t) /\ UNCHANGED store
           \/ Refused(c, f) /\ Return(t)
        /\ Keep

\* CodeDriver.Exchange spends the code, whether or not it yields a record.
Exchange(t) ==
    LET f == local[t].id
    IN  /\ pc[t] = "exchange"
        /\ exchanged' = [exchanged EXCEPT ![f] = @ + 1]
        /\ \/ Goto(t, "save") /\ UNCHANGED local
           \/ /\ local' = [local EXCEPT ![t].outcome = "failed"]
              /\ Goto(t, "finish")
        /\ UNCHANGED <<store, now, begun, issued, saved>>

\* Mutant: the outcome is complete whether or not the credential was saved.
SaveUnchecked(t) ==
    LET f == local[t].id
    IN  /\ pc[t] = "save"
        /\ \/ saved' = [saved EXCEPT ![f] = @ + 1]
           \/ UNCHANGED saved
        /\ local' = [local EXCEPT ![t].outcome = "complete"]
        /\ Goto(t, "finish")
        /\ UNCHANGED <<store, now, begun, issued, exchanged>>

\* The key hook and CredentialStore.Save, either of which may fail.
Save(t) ==
    LET f == local[t].id
    IN  /\ pc[t] = "save"
        /\ \/ /\ saved' = [saved EXCEPT ![f] = @ + 1]
              /\ local' = [local EXCEPT ![t].outcome = "complete"]
           \/ /\ local' = [local EXCEPT ![t].outcome = "failed"]
              /\ UNCHANGED saved
        /\ Goto(t, "finish")
        /\ UNCHANGED <<store, now, begun, issued, exchanged>>

\* finish records the outcome if it can, and returns either way.
Finish(t) ==
    LET c == local[t].flow.owner
        f == local[t].id
        e == local[t].flow
    IN  /\ pc[t] = "finish"
        /\ \/ Update(c, f, e.revision, e.interval, e.nextPoll, local[t].outcome)
           \/ Verdict(c, f) = "ok" /\ ~MayUpdate(c, f, e.revision) /\ UNCHANGED store
           \/ Refused(c, f)
        /\ Return(t)
        /\ Keep

----------------------------------------------------------------------------
Tick ==
    /\ now < MaxTime
    /\ now' = now + 1
    /\ UNCHANGED <<store, pc, local, begun, issued, exchanged, saved>>

\* The requests a product routes to the Service.
Enter(t) ==
    \/ \E c \in Caller, m \in Method, f \in Id, s \in State \cup {None} :
           StartFlow(t, c, m, f, s)
    \/ /\ \/ \E c \in Caller, f \in issued :
                 \/ Begin(t, "view", [NoLocal EXCEPT !.op = "get", !.caller = c, !.id = f])
                 \/ Begin(t, "get", [NoLocal EXCEPT !.op = "poll", !.caller = c, !.id = f])
                 \/ \E s \in State \cup {None}, i \in {"code", "error"} :
                        Begin(t, "get", [NoLocal EXCEPT !.op = "complete", !.caller = c, !.id = f,
                                                        !.state = s, !.input = i])
          \/ \E s \in State, i \in Inputs :
                 Begin(t, "resolve", [NoLocal EXCEPT !.op = "callback", !.state = s, !.input = i])
       /\ UNCHANGED issued

Step(t) ==
    \/ CreateFlow(t)
    \/ GetFlow(t)
    \/ ResolveState(t)
    \/ Get(t)
    \/ PollDue(t)
    \/ Claim(t)
    \/ Ask(t)
    \/ \E answer \in Answers \cup {"error"} : Answer(t, answer)
    \/ SlowDown(t)
    \/ ConsumeFlow(t)
    \/ Exchange(t)
    \/ Save(t)
    \/ Finish(t)
    \/ \E label \in {"create", "view", "resolve", "get", "claim", "slow", "consume", "finish"} :
           Fails(t, label)

\* The bounds are spent and every request has returned.
Quiescent ==
    /\ begun = MaxOps /\ now = MaxTime
    /\ \A t \in Thread : pc[t] = "idle"
    /\ UNCHANGED vars

Next == Tick \/ Quiescent \/ \E t \in Thread : Step(t) \/ Enter(t)

Spec == Init /\ [][Next]_vars

FairSpec == Spec /\ \A t \in Thread : WF_vars(Step(t))

----------------------------------------------------------------------------
(* Properties.                                                             *)

\* The type of the store and of the requests.
TypeOK ==
    /\ flows \in [Id -> Entry \cup {None}]
    /\ states \in [State -> Id \cup {None}]
    /\ revision \in Nat /\ sequence \in Nat /\ now \in Nat
    /\ pc \in [Thread -> Labels]
    /\ local \in [Thread -> Local]
    /\ begun \in Nat
    /\ issued \subseteq Id
    /\ exchanged \in [Id -> Nat]
    /\ saved \in [Id -> Nat]

\* A flow yields at most one credential, and an authorization code is spent
\* at most once even when the exchange fails, whichever of a poll, a pasted
\* code and a redirect come together.
SpentOnce == \A f \in Id : saved[f] <= 1 /\ exchanged[f] <= 1

\* The outcome its owner reads is what happened: complete when the credential
\* was saved, and failed or expired only when none was.
OutcomeHonest ==
    \A f \in Id : Stored(f) =>
        /\ flows[f].outcome = "complete" => saved[f] = 1
        /\ flows[f].outcome \in {"failed", "expired"} => saved[f] = 0

\* No other write disturbs a flow between its consumption and the record of
\* its outcome: finish never conflicts, so only the flow's expiry or a failing
\* store can lose the outcome.
OutcomeNotLost ==
    \A t \in Thread : pc[t] \in {"exchange", "save", "finish"} =>
        \/ ~Stored(local[t].id)
        \/ Expired(flows[local[t].id])
        \/ MayUpdate(local[t].flow.owner, local[t].id, local[t].flow.revision)

\* A request that names a caller works on that caller's flows only.
OwnFlowsOnly ==
    \A t \in Thread :
        local[t].flow # None /\ local[t].op # "none" => local[t].flow.owner = local[t].caller

\* A consumed flow stays consumed and its outcome is written once; an expired
\* flow is never consumed; the polling schedule never shortens.
Advances(e, d) ==
    /\ e.consumed => d.consumed
    /\ e.outcome # "" => d.outcome = e.outcome
    /\ d.consumed /\ ~e.consumed => ~Expired(e)
    /\ d.interval >= e.interval /\ d.nextPoll >= e.nextPoll

FlowsAdvance ==
    [][\A f \in Id : Stored(f) /\ Stored(f)' => Advances(flows[f], flows[f]')]_vars

\* Two polls of one flow are at the provider together only when their claims are an
\* interval apart, however claims race and however slow an answer is: a slow answer
\* does not hold back the next poll that is due (Service.Poll, FlowStore.Update).
PollsSpaced ==
    \A t, u \in Thread :
        t # u /\ pc[t] = "answer" /\ pc[u] = "answer" /\ local[t].id = local[u].id =>
            \/ local[u].clock >= local[t].clock + Interval
            \/ local[t].clock >= local[u].clock + Interval

\* What became of a flow, as its owner reads it.
Status(f) ==
    IF ~Stored(f) THEN "absent"
    ELSE IF ~flows[f].consumed THEN "pending"
    ELSE IF flows[f].outcome = "" THEN "spent" ELSE flows[f].outcome

\* The right to save a flow's credential is held by the request that consumed it
\* until it has saved, or failed to.
Held(f) == \E t \in Thread : pc[t] \in {"exchange", "save"} /\ local[t].id = f

\* Each flow keeps the promise of Grant.
grantStatus == [f \in Id |-> Status(f)]
grantHeld == [f \in Id |-> Held(f)]
grantSaved == [f \in Id |-> saved[f] > 0]

Promise == INSTANCE Grant WITH
    status <- grantStatus, held <- grantHeld, credential <- grantSaved

\* OAuthFlow implements Grant: over every interleaving of polls, pasted codes,
\* redirects, evictions and purges (Service.Poll, Complete, Callback and finish).
ImplementsGrant == Promise!Spec

\* A consumed flow does not stay in progress for its owner: its outcome is
\* recorded, unless the flow expires first.
ConsumedIsSettled ==
    \A f \in Id :
        Stored(f) /\ flows[f].consumed
            ~> ~Stored(f) \/ Expired(flows[f]) \/ flows[f].outcome # ""

\* What an owner may rely on, whichever requests race: the flow is spent once, its
\* outcome is what happened and is not lost, and nobody else's requests reach it
\* (Service.Complete, Poll and finish).
FlowsHonest == SpentOnce /\ OutcomeHonest /\ OutcomeNotLost /\ OwnFlowsOnly

\* The store is consistent through evictions, expiry and consumption: the state
\* index names exactly the pending flows and the cap holds (MemoryFlowStore).
StoreExact == TypeOK /\ IndexExact /\ PendingCap
============================================================================
