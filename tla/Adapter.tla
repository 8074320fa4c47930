------------------------------ MODULE Adapter ------------------------------
(***************************************************************************)
(* translation.Adapter serving one request: natively where the provider    *)
(* can, else through the first route llm-translate offers, with the losses *)
(* of the way there and back under the product's policy.                   *)
(*                                                                         *)
(* The conversions are llm-translate's: which losses one has is open.      *)
(***************************************************************************)
EXTENDS LossPolicy, FiniteSets

CONSTANTS
    Cases,          \* requests: [native, surface, stream, rules]
    RequestLosses,  \* the losses a request's conversion may have
    OtherLosses     \* those the provider, or the answer's conversion, may have

Surfaces == {"chat_completions", "responses", "messages"}

ASSUME AdapterConstants ==
    /\ \A c \in Cases : /\ c.native \subseteq Surfaces /\ c.surface \in Surfaces
                        /\ c.stream \in BOOLEAN
                        /\ c.rules \in Seq(LossRule) /\ ValidPolicy(c.rules)
    /\ RequestLosses \subseteq Seq(Losses) /\ OtherLosses \subseteq Seq(Losses)

VARIABLE trip

adapterVars == <<trip>>

Route(from, target, streams) == [from |-> from, target |-> target, streams |-> streams]

\* routes, in their order.
AdapterRoutes == <<
    Route("messages", "chat_completions", TRUE),
    Route("chat_completions", "responses", FALSE),
    Route("responses", "chat_completions", FALSE),
    Route("chat_completions", "messages", TRUE)>>

\* Mutant: a route that does not stream is taken for a stream.
RouteForAny(surface, native, stream) ==
    Only(AdapterRoutes,
         {i \in DOMAIN AdapterRoutes :
            AdapterRoutes[i].from = surface /\ AdapterRoutes[i].target \in native})

\* routeFor: the routes that serve, the first of which is used.
RouteFor(surface, native, stream) ==
    Only(AdapterRoutes,
         {i \in DOMAIN AdapterRoutes :
            /\ AdapterRoutes[i].from = surface /\ AdapterRoutes[i].target \in native
            /\ stream => AdapterRoutes[i].streams})

\* Serves and ServesStream.
Serves(surface, native) == RouteFor(surface, native, FALSE) # <<>> \/ surface \in native
ServesStream(surface, native) == RouteFor(surface, native, TRUE) # <<>> \/ surface \in native

\* asked, provided, answered: the losses of the request's conversion, the provider's
\* own, and those of the answer's conversion.  losses: those the operation reports.
AdapterInit ==
    \E c \in Cases :
        trip = [case |-> c, pc |-> "begin", called |-> "", asked |-> <<>>, provided |-> <<>>,
                answered |-> <<>>, losses |-> <<>>, result |-> ""]

\* A stream that did not open reports no losses.
Finish(t, result) ==
    trip' = [t EXCEPT !.pc = "done", !.result = result,
                      !.losses = IF t.case.stream /\ result # "ok" THEN <<>> ELSE @]

\* The request's own surface, a route, or a *core.SurfaceError.
SelectRoute ==
    LET c == trip.case
        routes == RouteFor(c.surface, c.native, c.stream)
    IN /\ trip.pc = "begin"
       /\ IF c.surface \in c.native
          THEN trip' = [trip EXCEPT !.pc = "call", !.called = c.surface]
          ELSE IF routes = <<>> THEN Finish(trip, "surface")
          ELSE trip' = [trip EXCEPT !.pc = "request"]

\* translateRequest: a body that is not JSON, a request that cannot be translated, or
\* one whose losses the policy rejects, never reaches the provider.
TranslateRequest ==
    /\ trip.pc = "request"
    /\ \/ Finish(trip, "invalid_request")
       \/ \E losses \in RequestLosses :
            LET t == [trip EXCEPT !.asked = losses, !.losses = losses]
            IN \/ Finish(t, "invalid_request")
               \/ Rejected(trip.case.rules, losses) # <<>> /\ Finish(t, "policy")
               \/ /\ Rejected(trip.case.rules, losses) = <<>>
                  /\ trip' = [t EXCEPT !.pc = "call",
                        !.called = Head(RouteFor(trip.case.surface, trip.case.native, trip.case.stream)).target]

\* Mutant: what a failed answer lost is left out.
MergedOnSuccess(t, losses, ok) == IF ok THEN [t EXCEPT !.losses = @ \o losses] ELSE t

\* The provider's own losses join the report, whether or not it answered.
Merged(t, losses, ok) == [t EXCEPT !.losses = @ \o losses]

\* The provider's Invoke or Stream, with the losses it reports of its own, which
\* no policy is asked about; a stream that did not open has none.
CallProvider ==
    /\ trip.pc = "call"
    /\ \E losses \in OtherLosses, ok \in BOOLEAN :
        LET t == [Merged(trip, losses, ok) EXCEPT !.provided = losses]
        IN /\ trip.case.stream /\ ~ok => losses = <<>>
           /\ \/ ~ok /\ Finish(t, "provider")
              \/ ok /\ (trip.case.stream \/ trip.called = trip.case.surface) /\ Finish(t, "ok")
              \/ /\ ok /\ ~trip.case.stream /\ trip.called # trip.case.surface
                 /\ trip' = [t EXCEPT !.pc = "response"]

\* Mutant: the policy is asked about requests only.
AnswerUnchecked(rules, losses) == "ok"

\* An answer whose losses the policy rejects is not returned.
AnswerChecked(rules, losses) == IF Rejected(rules, losses) # <<>> THEN "policy" ELSE "ok"

\* The answer converted back: one that is not JSON may be another target's to serve.
\* (A stream's frames are converted, and what they lose reported, by StreamBridge.)
TranslateResponse ==
    /\ trip.pc = "response"
    /\ \/ Finish(trip, "upstream")
       \/ \E losses \in OtherLosses :
            Finish([Merged(trip, losses, TRUE) EXCEPT !.answered = losses],
                   AnswerChecked(trip.case.rules, losses))

AdapterNext == SelectRoute \/ TranslateRequest \/ CallProvider \/ TranslateResponse

AdapterSpec == AdapterInit /\ [][AdapterNext]_adapterVars

----------------------------------------------------------------------------
(* Properties.                                                             *)

\* What a rule's path matches, by its definition: the path is cut into one piece a
\* segment, one segment long but under "**", and the pieces fit.
Fits(pattern, path) ==
    \E cut \in [0..Len(pattern) -> 0..Len(path)] :
        /\ cut[0] = 0 /\ cut[Len(pattern)] = Len(path)
        /\ \A i \in DOMAIN pattern :
            \/ pattern[i] = "**" /\ cut[i - 1] <= cut[i]
            \/ pattern[i] = "*" /\ cut[i] = cut[i - 1] + 1
            \/ cut[i] = cut[i - 1] + 1 /\ pattern[i] = path[cut[i]]

\* A loss is allowed only if the first rule whose class, severity and path fit it
\* allows it, or none fits and it is advisory (LossPolicy.Decide's documentation,
\* with matchLossPath against the meaning of its wildcards).
Allowed(rules, loss) ==
    LET fit == {i \in DOMAIN rules :
                    /\ rules[i].class \in {"", loss.class} /\ rules[i].severity \in {"", loss.severity}
                    /\ rules[i].path = <<>> \/ Fits(rules[i].path, loss.path)}
    IN IF fit = {} THEN loss.severity = "advisory"
       ELSE \E i \in fit : (\A k \in fit : i <= k) /\ rules[i].action = "allow"

\* A translated request reaches the provider only if the product allows each loss of
\* its conversion, and its answer the caller only if it allows each loss of converting
\* that back; a request is refused for the losses of its conversion, and once the
\* provider answered for those of the answer's, never for the provider's own, nor for
\* what a stream's frames lose (Adapter.translateRequest, Adapter.Invoke).
PolicyDecides ==
    LET accepted(losses) == \A loss \in ToSet(losses) : Allowed(trip.case.rules, loss)
    IN /\ trip.called # "" => accepted(trip.asked)
       /\ trip.result = "ok" => accepted(trip.answered)
       /\ trip.result = "policy" => ~accepted(IF trip.called = "" THEN trip.asked ELSE trip.answered)

\* An operation reports every loss there was, in the order they happened, also when
\* it fails; a stream reports those of a stream that opened (Adapter.Invoke and Stream).
LossesReported ==
    trip.pc = "done" /\ (trip.case.stream => trip.result = "ok") =>
        trip.losses = trip.asked \o trip.provided \o trip.answered

\* A surface is refused exactly when Serves, or for a stream ServesStream, says so,
\* and is served on a surface of the provider's own (Adapter.Invoke, Adapter.Stream).
ServedAsPromised ==
    LET c == trip.case
        routed(stream) == \E r \in ToSet(AdapterRoutes) :
                            r.from = c.surface /\ r.target \in c.native /\ (stream => r.streams)
    IN /\ Serves(c.surface, c.native) <=> c.surface \in c.native \/ routed(FALSE)
       /\ ServesStream(c.surface, c.native) <=> c.surface \in c.native \/ routed(TRUE)
       /\ trip.pc = "done" =>
            (trip.result = "surface" <=> c.surface \notin c.native /\ ~routed(c.stream))
       /\ trip.called # "" => trip.called \in c.native

\* A request is served where the adapter promises; the losses of converting it, and of
\* converting an answer that is no stream, are ones the product allows; and every loss
\* of an invocation or a stream that opened, the provider's unchecked ones too, is
\* reported (Adapter.Invoke, Adapter.Stream).
LossesDecided == PolicyDecides /\ LossesReported /\ ServedAsPromised
=============================================================================
