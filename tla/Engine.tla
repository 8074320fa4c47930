------------------------------- MODULE Engine -------------------------------
(***************************************************************************)
(* core.Engine: the handlers of /v1/models, /v1/chat/completions and       *)
(* /v1/messages.  Chat completions walk the targets of a route; a stream   *)
(* fails over until its first frame is written.  Messages use the first    *)
(* target only, and translate the stream with a converter of llm-translate *)
(* that closes the message when its input ends.                            *)
(*                                                                         *)
(* Requests share nothing but the registered providers, which the product  *)
(* may replace while one is served, so one request at a time is enough.    *)
(***************************************************************************)
EXTENDS Naturals, Sequences, FiniteSets

CONSTANTS
    Provider,       \* provider ids, which are the targets too
    Routes,         \* target lists of the routes
    MaxFrames,      \* bound on the frames a provider's stream has
    MaxChanges      \* bound on RegisterProvider calls while serving

ASSUME EngineConstants ==
    /\ Routes \subseteq Seq(Provider) /\ "engine" \notin Provider
    /\ {MaxFrames, MaxChanges} \subseteq Nat

VARIABLES
    providers,  \* what is registered under each id
    req,        \* the request being served
    pc,         \* where its handler is
    reply,      \* what the client received
    usage,      \* the usage hook's records
    tried,      \* history: targets whose provider was called, and what came of it
    changes     \* RegisterProvider calls so far

engineVars == <<providers, req, pc, reply, usage, tried, changes>>

----------------------------------------------------------------------------
\* The interfaces of a registered provider; nil is not registered.
Offers == {"nil", "complete", "stream", "both"}
Streams(offer) == offer \in {"stream", "both"}
Completes(offer) == offer \in {"complete", "both"}

\* An error permits failover or is terminal.
Errors == {"eligible", "terminal"}

\* What one Next of a provider's stream returns: a frame, and an error or not.
Frames == {"data", "done", "comment", "none"}
Ends == Errors \cup {"eof", "nil"}

\* The locals of the handler: wrote and terminal as in the code, pending the
\* error that came beside a frame, open whether the stream is open.
Request == [kind : {"chat", "messages", "models"}, stream : BOOLEAN,
            targets : Seq(Provider), at : Nat, wrote : BOOLEAN, terminal : BOOLEAN,
            pending : Ends, err : Ends, open : BOOLEAN, frames : Nat, ended : BOOLEAN]

NoRequest ==
    [kind |-> "models", stream |-> FALSE, targets |-> <<>>, at |-> 1, wrote |-> FALSE,
     terminal |-> FALSE, pending |-> "nil", err |-> "nil", open |-> FALSE, frames |-> 0,
     ended |-> FALSE]

NoReply == [status |-> 0, body |-> <<>>]

EngineInit ==
    /\ providers \in [Provider -> Offers]
    /\ req = NoRequest
    /\ pc = "idle"
    /\ reply = NoReply
    /\ usage = <<>>
    /\ tried = <<>>
    /\ changes = 0

Target == req.targets[req.at]

Goto(label) == pc' = label

\* RegisterProvider.
Register(id, offer) ==
    /\ changes < MaxChanges /\ pc # "idle" /\ providers[id] # offer
    /\ providers' = [providers EXCEPT ![id] = offer]
    /\ changes' = changes + 1
    /\ UNCHANGED <<req, pc, reply, usage, tried>>

\* The client gives up.
Disconnect ==
    /\ pc # "idle" /\ ~req.ended
    /\ req' = [req EXCEPT !.ended = TRUE]
    /\ UNCHANGED <<providers, pc, reply, usage, tried, changes>>

\* Mutant: a second status goes out as well.
WriteStatusAgain(r, status) == [r EXCEPT !.status = r.status + status]

\* Writing a status ends the headers; a body written first means 200.
WriteStatus(r, status) == IF r.status = 0 THEN [r EXCEPT !.status = status] ELSE r
Write(r, what) ==
    [WriteStatus(r, 200) EXCEPT !.body = Append(@, what)]

\* http.Error, or an encoded error object.
Refused(status) ==
    /\ reply' = Write(WriteStatus(reply, status), [from |-> "engine", what |-> "error"])
    /\ Goto("idle")

\* recordTelemetry.
Telemetry(target, status) == usage' = Append(usage, [target |-> target, status |-> status])

----------------------------------------------------------------------------
Begin(kind, stream) ==
    /\ pc = "idle" /\ req.at = 1 /\ req.targets = <<>> /\ reply = NoReply
    /\ req' = [NoRequest EXCEPT !.kind = kind, !.stream = stream]
    /\ Goto("authenticate")
    /\ UNCHANGED <<providers, reply, usage, tried, changes>>

\* authenticate and the checks of the body.  handleModels lists the routes.
Authenticate ==
    /\ pc = "authenticate"
    /\ \/ \E status \in {401, 400} : Refused(status)
       \/ /\ req.kind = "models"
          /\ reply' = Write(reply, [from |-> "engine", what |-> "models"])
          /\ Goto("idle")
       \/ /\ req.kind # "models"
          /\ Goto("targets") /\ UNCHANGED reply
    /\ UNCHANGED <<providers, req, usage, tried, changes>>

\* What is left of a route at these places of it.
Picked(route, places) == [i \in DOMAIN places |-> route[places[i]]]

\* The places of a route, in their order, whose targets the policy allows.
Permitted(route, allowed, places) ==
    /\ \A i, k \in DOMAIN places : i < k => places[i] < places[k]
    /\ {places[i] : i \in DOMAIN places} = {k \in DOMAIN route : route[k] \in allowed}

\* resolveTargets: the route's targets, or the one named, that the policy allows.
ResolveTargets(route, allowed, places) ==
    LET targets == Picked(route, places)
    IN /\ pc = "targets" /\ Permitted(route, allowed, places)
       /\ req' = [req EXCEPT !.targets = targets]
       /\ \/ targets = <<>> /\ Refused(404)
          \/ /\ targets # <<>> /\ req.kind = "chat"
             /\ Goto("next") /\ UNCHANGED reply
          \/ /\ targets # <<>> /\ req.kind = "messages"
             /\ \/ providers[targets[1]] = "nil" /\ Refused(502)
                \/ providers[targets[1]] # "nil" /\ Goto("call") /\ UNCHANGED reply
       /\ UNCHANGED <<providers, usage, tried, changes>>

----------------------------------------------------------------------------
(* handleChatCompletions.                                                  *)

Tried(outcome) == tried' = Append(tried, [target |-> Target, outcome |-> outcome])

NextTarget == req' = [req EXCEPT !.at = @ + 1, !.open = FALSE, !.frames = 0]

\* All targets failed, or a failure no other target would make up for.
Exhausted(at) ==
    /\ reply' = Write(WriteStatus(reply, 502), [from |-> "engine", what |-> "error"])
    /\ Telemetry(req.targets[at], 502)
    /\ Goto("idle")

\* Mutant: a failure fails over whatever its class.
MayFailOverAlways(err) == ~req.ended

\* failoverEligible and requestCanceled.
MayFailOver(err) == err = "eligible" /\ ~req.ended

\* A target failed before anything was written.
FailOver(err) ==
    \/ MayFailOver(err) /\ NextTarget /\ Goto("next") /\ UNCHANGED <<reply, usage>>
    \/ /\ ~MayFailOver(err)
       /\ req' = [req EXCEPT !.open = FALSE]
       /\ Exhausted(req.at)

\* The head of the loop: the credential, then the provider registered now.  One
\* that lacks the interface is passed over.
ChatTarget ==
    /\ pc = "next"
    /\ \/ /\ req.at > Len(req.targets)
          /\ Exhausted(Len(req.targets))
          /\ UNCHANGED <<req, tried>>
       \/ /\ req.at <= Len(req.targets)
          /\ \/ \E err \in Errors : FailOver(err) /\ UNCHANGED tried   \* the resolver's
             \/ LET offer == providers[Target]
                    usable == IF req.stream THEN Streams(offer) ELSE Completes(offer)
                IN \/ usable /\ Goto("call") /\ UNCHANGED <<req, reply, usage, tried>>
                   \/ ~usable /\ NextTarget /\ Goto("next") /\ UNCHANGED <<reply, usage, tried>>
    /\ UNCHANGED <<providers, changes>>

\* Complete, and the opening of a stream.
ChatCall ==
    /\ pc = "call" /\ req.kind = "chat"
    /\ \/ \E err \in Errors : Tried(err) /\ FailOver(err)
       \/ /\ req.stream
          /\ req' = [req EXCEPT !.open = TRUE, !.terminal = FALSE]
          /\ Goto("relay")
          /\ UNCHANGED <<reply, usage, tried>>
       \/ /\ ~req.stream
          /\ Tried("ok")
          /\ reply' = Write(reply, [from |-> Target, what |-> "complete"])
          /\ Telemetry(Target, 200)
          /\ Goto("idle")
          /\ UNCHANGED req
    /\ UNCHANGED <<providers, changes>>

\* Mutant: a stream that broke off after output fails over too.
ChatEndFailsOver(err) ==
    /\ Tried(IF err = "nil" THEN "ok" ELSE err)
    /\ \/ err # "nil" /\ Goto("failed") /\ UNCHANGED usage
       \/ err = "nil" /\ Telemetry(Target, 200) /\ Goto("idle")

\* Mutant: a stream that wrote anything counts as served.
ChatEndServed(err) ==
    /\ Tried(IF err = "nil" THEN "ok" ELSE err)
    /\ \/ err # "nil" /\ ~req'.wrote /\ Goto("failed") /\ UNCHANGED usage
       \/ (err = "nil" \/ req'.wrote) /\ Telemetry(Target, 200) /\ Goto("idle")

\* The end of writeSSEStream, whose deferred Close may fail too.
ChatEnd(err) ==
    \E closing \in Errors \cup {"nil"} :
        LET failed == IF err = "nil" THEN closing ELSE err
        IN /\ Tried(IF failed = "nil" THEN "ok" ELSE failed)
           /\ \/ /\ failed # "nil" /\ ~req'.wrote
                 /\ Goto("failed") /\ UNCHANGED usage
              \/ /\ failed = "nil" \/ req'.wrote
                 /\ Telemetry(Target, IF failed = "nil" THEN 200 ELSE 502)
                 /\ Goto("idle")

\* One iteration of writeSSEStream: a frame is written as it came; one after
\* [DONE], and an end before it, are errors.
ChatRelay(frame, end) ==
    /\ pc = "relay" /\ req.kind = "chat"
    /\ frame # "none" \/ end # "nil"
    /\ frame # "none" => req.frames < MaxFrames
    /\ \/ /\ frame # "none" /\ req.terminal
          /\ req' = [req EXCEPT !.open = FALSE, !.err = "terminal"]
          /\ UNCHANGED reply
          /\ ChatEnd("terminal")
       \/ /\ ~(frame # "none" /\ req.terminal)
          /\ LET terminal == req.terminal \/ frame = "done"
                 err == CASE end = "eof" -> IF terminal THEN "nil" ELSE "terminal"
                          [] OTHER -> end
             IN /\ reply' = IF frame = "none" THEN reply
                            ELSE Write(reply, [from |-> Target, what |-> frame])
                /\ req' = [req EXCEPT !.wrote = @ \/ frame # "none", !.terminal = terminal,
                                      !.frames = @ + 1, !.open = end = "nil", !.err = err]
                /\ \/ end # "nil" /\ ChatEnd(err)
                   \/ end = "nil" /\ Goto("relay") /\ UNCHANGED <<usage, tried>>
    /\ UNCHANGED <<providers, changes>>

\* A stream that failed before it wrote anything.
ChatUnwritten ==
    /\ pc = "failed"
    /\ FailOver(tried[Len(tried)].outcome)
    /\ UNCHANGED <<providers, tried, changes>>

----------------------------------------------------------------------------
(* handleMessages.                                                         *)

\* A provider that cannot stream answers with a completion; an error of the
\* credential resolver is ignored.
MessagesCall ==
    LET offer == providers[Target]
    IN /\ pc = "call" /\ req.kind = "messages"
       /\ \/ \E err \in Errors : Tried(err) /\ Refused(502) /\ UNCHANGED req
          \/ /\ req.stream /\ Streams(offer)
             /\ req' = [req EXCEPT !.open = TRUE]
             /\ Goto("relay") /\ UNCHANGED <<reply, tried>>
          \/ /\ ~(req.stream /\ Streams(offer)) /\ Completes(offer)
             /\ Tried("ok")
             /\ reply' = Write(reply, [from |-> Target, what |-> "complete"])
             /\ Goto("idle") /\ UNCHANGED req
          \/ /\ ~(req.stream /\ Streams(offer)) /\ ~Completes(offer)
             /\ Refused(501) /\ UNCHANGED <<req, tried>>
       /\ UNCHANGED <<providers, usage, changes>>

\* chunksIter, until it returns: an error beside a frame waits its turn, the
\* terminal frame clears it, and a frame without data is skipped.  The
\* converter writes what it made of a payload.
MessagesRelay(frame, end) ==
    /\ pc = "relay" /\ req.kind = "messages"
    /\ req.pending = "nil"
    /\ frame # "none" \/ end # "nil"
    /\ frame # "none" => req.frames < MaxFrames
    /\ LET next == [req EXCEPT !.frames = @ + 1, !.pending = end]
       IN \/ /\ frame = "none"
             /\ req' = [req EXCEPT !.err = IF end = "eof" THEN "terminal" ELSE end]
             /\ Goto("closing") /\ UNCHANGED reply
          \/ /\ frame = "done"
             /\ req' = [next EXCEPT !.pending = "nil", !.terminal = TRUE]
             /\ Goto("closing") /\ UNCHANGED reply
          \/ /\ frame = "data"
             /\ req' = [next EXCEPT !.wrote = TRUE]
             /\ reply' = Write(reply, [from |-> Target, what |-> "data"])
             /\ UNCHANGED pc
          \/ /\ frame = "comment"
             /\ req' = next
             /\ UNCHANGED <<pc, reply>>
    /\ UNCHANGED <<providers, usage, tried, changes>>

\* Mutant: an end of the stream that comes beside its last frame is overlooked.
MessagesPendingFailure ==
    /\ pc = "relay" /\ req.kind = "messages" /\ req.pending \in Errors
    /\ req' = [req EXCEPT !.err = req.pending]
    /\ Goto("closing")
    /\ UNCHANGED <<providers, reply, usage, tried, changes>>

\* The error that came beside the last frame.
MessagesPending ==
    /\ pc = "relay" /\ req.kind = "messages" /\ req.pending # "nil"
    /\ req' = [req EXCEPT !.err = req.pending]
    /\ Goto("closing")
    /\ UNCHANGED <<providers, reply, usage, tried, changes>>

\* Mutant: what the converter closes the message with is always written.
ClosingRegardless(r) == Write(r, [from |-> Target, what |-> "done"])

\* The converter closes the message, or opens and closes an empty one, when its
\* input ends; the handler writes none of that after an error.
Closing(r) ==
    IF req.err # "nil" THEN r
    ELSE Write(r, [from |-> Target, what |-> "done"])

\* The end of the handler: the deferred Close, and an error if there was one.
MessagesEnd ==
    /\ pc = "closing" /\ req.kind = "messages"
    /\ req' = [req EXCEPT !.open = FALSE]
    /\ Tried(IF req.err = "nil" THEN "ok" ELSE req.err)
    /\ LET closed == Closing(reply)
       IN \/ req.err = "nil" /\ reply' = closed
          \/ /\ req.err # "nil" /\ ~req.wrote
             /\ reply' = Write(WriteStatus(closed, 502), [from |-> "engine", what |-> "error"])
          \/ /\ req.err # "nil" /\ req.wrote
             /\ reply' = IF req.ended THEN closed
                         ELSE Write(closed, [from |-> "engine", what |-> "error"])
    /\ Goto("idle")
    /\ UNCHANGED <<providers, usage, changes>>

----------------------------------------------------------------------------
Handler ==
    \/ Authenticate
    \/ \E route \in Routes, allowed \in SUBSET Provider :
         \E n \in 0..Len(route) : \E places \in [1..n -> 1..Len(route)] :
            ResolveTargets(route, allowed, places)
    \/ ChatTarget \/ ChatCall \/ ChatUnwritten
    \/ MessagesCall \/ MessagesPending \/ MessagesEnd
    \/ \E frame \in Frames, end \in Ends : ChatRelay(frame, end) \/ MessagesRelay(frame, end)

EngineNext ==
    \/ \E kind \in {"chat", "messages", "models"}, stream \in BOOLEAN : Begin(kind, stream)
    \/ \E id \in Provider, offer \in Offers : Register(id, offer)
    \/ Disconnect
    \/ Handler

EngineSpec == EngineInit /\ [][EngineNext]_engineVars

----------------------------------------------------------------------------
(* Properties.                                                             *)

EngineStatuses == {0, 200, 400, 401, 404, 501, 502}

Written == [from : Provider \cup {"engine"},
            what : {"data", "done", "comment", "complete", "models", "error"}]

\* The types of a handler's state and of what it writes: one status a reply, which
\* only the first write sets (Engine.ServeHTTP).
EngineTypeOK ==
    /\ providers \in [Provider -> Offers]
    /\ req \in Request
    /\ pc \in {"idle", "authenticate", "targets", "next", "call", "relay", "failed", "closing"}
    /\ reply \in [status : EngineStatuses, body : Seq(Written)]
    /\ usage \in Seq([target : Provider, status : {200, 502}])
    /\ tried \in Seq([target : Provider, outcome : Ends \cup {"ok"}])

\* A client never receives the output of two targets in one reply, nor a
\* refusal after output in a chat completion: only a target that wrote nothing
\* is given up for another.
OneSource ==
    \A i \in DOMAIN reply.body :
        /\ \A k \in DOMAIN reply.body :
              reply.body[i].from # "engine" /\ reply.body[k].from # "engine"
                => reply.body[i].from = reply.body[k].from
        /\ req.kind = "chat" /\ reply.body[i].from = "engine" => Len(reply.body) = 1

\* Another target is called only after failures that permit failover, even when
\* the registry changes or the client leaves in between.
FailoverJustified ==
    \A i \in 1..(Len(tried) - 1) : tried[i].outcome = "eligible"

\* A message reads as finished only when the provider's stream said [DONE]: one
\* that fails or ends early is never closed as if it were complete.
FinishedIsDone ==
    req.kind = "messages" /\ req.stream /\ (\E i \in DOMAIN reply.body : reply.body[i].what = "done")
        => req.terminal /\ req.err = "nil"

\* A chat completion that found targets leaves exactly one usage record, which
\* says 200 exactly when its target answered in full.
UsageHonest ==
    /\ Len(usage) <= 1
    /\ pc = "idle" /\ req.kind = "chat" /\ req.targets # <<>> => Len(usage) = 1
    /\ usage # <<>> /\ usage[1].status = 200 =>
         /\ tried[Len(tried)] = [target |-> usage[1].target, outcome |-> "ok"]
         /\ \E i \in DOMAIN reply.body :
                /\ reply.body[i].from = usage[1].target
                /\ reply.body[i].what \in {"done", "complete"}
    /\ usage # <<>> /\ usage[1].status = 502 =>
         tried = <<>> \/ tried[Len(tried)].outcome # "ok"

\* Every request is answered, whatever targets fail or leave the registry.
RequestsAnswered == pc # "idle" ~> pc = "idle" /\ reply.status # 0

\* A client is told the truth, and so is the usage hook: one target's output, after
\* failures that permit another, finished only if the upstream finished it
\* (handleChatCompletions, handleMessages, recordTelemetry).
AnswersHonest == EngineTypeOK /\ OneSource /\ FailoverJustified /\ FinishedIsDone /\ UsageHonest
=============================================================================
