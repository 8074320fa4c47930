------------------------------- MODULE Wire -------------------------------
(***************************************************************************)
(* One exchange with an upstream: the request a provider or the extension  *)
(* client sends, the answer it reads, and what it reports.  What it reports *)
(* of a failure, its class and what it permits, is what the execution      *)
(* layer and the runtime act on.                                           *)
(*                                                                         *)
(* Three families share the shape: the providers of package providers      *)
(* ("provider"), its older ones that report InvocationError ("legacy"),    *)
(* and the client of an extension daemon ("extension").  Bodies are        *)
(* abstracted to whether they are read whole and are what they should be.  *)
(***************************************************************************)
EXTENDS ProviderHealth, Sequences, SequencesExt, FiniteSets

CONSTANTS
    PageToken,      \* what a paged catalog names its pages by
    NoPage,         \* the token of a first page, and after a last one
    MaxPages,       \* googleCatalogMaxPages
    MaxModels,      \* googleCatalogMaxModels
    PageRows,       \* how many rows a page may have
    Second,         \* time.Second in units of time.Duration
    MaxDuration     \* math.MaxInt64, the longest time.Duration

ASSUME WireConstants ==
    /\ NoPage \notin PageToken
    /\ {MaxPages, MaxModels, Second, MaxDuration} \subseteq Nat \ {0}
    /\ PageRows \subseteq Nat

VARIABLE xch

wireVars == <<xch>>

----------------------------------------------------------------------------
(* What a failure permits, core.ProviderErrorClassification.               *)

Permits(retry, failover, circuit) == [retry |-> retry, failover |-> failover, circuit |-> circuit]
PermitsNothing == Permits(FALSE, FALSE, FALSE)
PermitsFailover == Permits(FALSE, TRUE, FALSE)
Unusable == Permits(FALSE, TRUE, TRUE)
Transient == Permits(TRUE, TRUE, TRUE)

\* statusClassification: the gateway's transient statuses.
StatusClassification(status) ==
    IF status \in {408, 429, 500, 502, 503, 504} THEN Transient ELSE PermitsNothing

\* The extension's statusError: core's reading of the status.
StatusError(status) ==
    LET health == ClassifyProviderFailure(status)
    IN Permits(health.retryable, health.retryable, health.class \in {"transport", "upstream"})

\* InvocationError.ProviderErrorClassification of a status.
InvocationStatus(status) ==
    LET health == ClassifyProviderFailure(status)
    IN Permits(health.retryable, health.retryable, status \in 500..599 /\ health.retryable)

Signed(n) == ((n + MaxDuration + 1) % (2 * (MaxDuration + 1))) - (MaxDuration + 1)

\* Mutant: the seconds a Duration cannot hold are multiplied all the same.
RetryAfterDelayWraps(seconds) == IF seconds <= 0 THEN 0 ELSE Signed(seconds * Second)

\* retryAfterDelay.
RetryAfterDelay(seconds) ==
    IF seconds <= 0 \/ seconds > MaxDuration \div Second THEN 0 ELSE seconds * Second

\* core.parseRetryAfter, whose product wraps.
ParseRetryAfter(seconds) == IF seconds >= 0 THEN Signed(seconds * Second) ELSE 0

----------------------------------------------------------------------------
(* An exchange.                                                            *)

Calls ==
    ({"provider"} \X {"invoke", "stream", "catalog", "paged"})
      \cup ({"legacy"} \X {"invoke", "stream"})
      \cup ({"extension"} \X {"info", "models", "invoke", "stream", "refresh", "oauth"})

\* deadline: the caller's context has one.  gone: it has ended.  expired: the
\* client's own timer has.  broke: what had ended when the exchange broke off.
NewExchange(call, deadline) ==
    [via |-> call[1], route |-> call[2], deadline |-> deadline, gone |-> FALSE,
     expired |-> FALSE, pc |-> "send", status |-> 0, broke |-> "",
     asked |-> <<NoPage>>, rows |-> 0, result |-> "", permits |-> PermitsNothing,
     quote |-> "none", wait |-> 0, seconds |-> 0]

WireInit == \E call \in Calls, deadline \in BOOLEAN : xch = NewExchange(call, deadline)

To(x) == xch' = x

Ended(result, permits) == [xch EXCEPT !.pc = "done", !.result = result, !.permits = permits]

Succeeded(status) == status \in 200..299
Refuses(status) == IF xch.via = "extension" \/ xch.route \in {"catalog", "paged"}
                   THEN ~Succeeded(status) ELSE status >= 400

\* The client's own timer: withDeadline derives the extension's context from the
\* caller's unless that has a deadline; any other is the HTTP client's.
OwnTimer(x) ==
    IF x.via = "extension" /\ x.route # "stream" /\ ~x.deadline THEN "context" ELSE "client"

\* The caller gives up, or its deadline passes.
GiveUp ==
    /\ xch.pc # "done" /\ ~xch.gone
    /\ To([xch EXCEPT !.gone = TRUE])

\* The timer fires.  The extension's HTTP client waits for headers only.
TimerFires ==
    /\ xch.pc \in {"send", "body"} /\ ~xch.expired
    /\ xch.via = "extension" /\ OwnTimer(xch) = "client" => xch.pc = "send"
    /\ To([xch EXCEPT !.expired = TRUE])

\* What a request may be refused for before anything is sent.  A malformed URL or
\* setting is a configuration error, a surface that is not served a SurfaceError,
\* and another target may do better than either; the older providers, and an
\* encoding that fails, classify nothing.
PrepareFailures ==
    CASE xch.via = "legacy" -> {"unclassified"}
      [] xch.via = "extension" ->
            {"configuration"}
              \cup (IF xch.route \in {"invoke", "stream"} THEN {"unsupported"} ELSE {})
              \cup (IF xch.route \in {"refresh", "oauth"} THEN {"unclassified"} ELSE {})
      [] xch.via = "provider" /\ xch.route \in {"catalog", "paged"} -> {"configuration"}
      [] OTHER -> {"configuration", "unsupported", "invalid_request"}

\* A request refused before anything is sent.
Prepare ==
    /\ xch.pc = "send" /\ xch.asked = <<NoPage>>
    /\ \E class \in PrepareFailures :
          To(Ended(class, IF class \in {"configuration", "unsupported"} THEN PermitsFailover
                          ELSE PermitsNothing))

\* The request, or the body of its answer, breaks off.
BreaksOff ==
    [xch EXCEPT !.pc = "broken",
                !.broke = IF xch.gone THEN "gone" ELSE IF xch.expired THEN "expired" ELSE "peer"]

\* The request gets no answer, or its headers arrive with a Retry-After.
Send ==
    /\ xch.pc = "send"
    /\ \/ To(BreaksOff)
       \/ \E status \in Statuses \ {0}, seconds \in {-1, 1, MaxDuration \div Second + 1} :
             To([xch EXCEPT !.pc = "body", !.status = status, !.seconds = seconds])

\* A refusal with what of its body is quoted: never a part of one, but for the
\* older streams.  The gateway reads no more of a refused catalog than its status.
ReportRefusal(read) ==
    [Ended("refused", CASE xch.via = "extension" -> StatusError(xch.status)
                        [] xch.via = "legacy"    -> InvocationStatus(xch.status)
                        [] OTHER                 -> StatusClassification(xch.status))
       EXCEPT !.quote = CASE xch.route \in {"catalog", "paged"} -> "none"
                          [] xch.via = "legacy" -> IF read = "broken" THEN "part" ELSE "whole"
                          [] OTHER -> IF read = "whole" THEN "whole" ELSE "none",
              !.wait = CASE xch.via = "provider" -> RetryAfterDelay(xch.seconds)
                         [] xch.via = "extension" /\ xch.status = 429 -> ParseRetryAfter(xch.seconds)
                         [] OTHER -> 0]

\* Mutant: what was read of a refused answer is quoted.
ReadResponseBodyPart(read) ==
    IF Refuses(xch.status)
    THEN [ReportRefusal("whole") EXCEPT !.quote = IF read = "whole" THEN "whole" ELSE "part"]
    ELSE CASE read = "large"  -> Ended("upstream", Unusable)
           [] read = "broken" -> BreaksOff
           [] OTHER           -> Ended("ok", PermitsNothing)

\* readInvocationResponseBody.
ReadResponseBody(read) ==
    IF Refuses(xch.status) THEN ReportRefusal(read)
    ELSE CASE read = "large"  -> Ended("upstream", Unusable)
           [] read = "broken" -> BreaksOff
           [] OTHER           -> Ended("ok", PermitsNothing)

\* A provider's Invoke: an answer read whole may still be unusable, or carry an
\* error beside its success status, which the gateway retries.
ReadInvocation(read) ==
    \/ To(ReadResponseBody(read))
    \/ /\ ~Refuses(xch.status) /\ read = "whole"
       /\ \E permits \in {Unusable, Transient} : To(Ended("upstream", permits))

\* A provider's Stream: an accepted answer is open, whatever its body.
OpenStream(read) ==
    To(IF Refuses(xch.status) THEN ReportRefusal(read) ELSE Ended("open", PermitsNothing))

\* Mutant: a page is fetched again when its token comes back.
NextPageAnyToken(rows, token) ==
    [xch EXCEPT !.pc = "send", !.status = 0, !.rows = rows, !.asked = Append(@, token)]

\* aiStudioModels and vertexPublisherModels after a page: the next page is asked
\* for unless its token was seen or the pages are too many.
NextPage(rows, token) ==
    CASE token \in ToSet(xch.asked)  -> Ended("upstream", Unusable)
      [] Len(xch.asked) = MaxPages   -> Ended("upstream", Unusable)
      [] OTHER -> [xch EXCEPT !.pc = "send", !.status = 0, !.rows = rows, !.asked = Append(@, token)]

\* decodeCatalogResponse, and of a paged catalog the walk through its pages.
ReadCatalogBody(read) ==
    \/ Refuses(xch.status) /\ To(ReportRefusal(read))
    \/ ~Refuses(xch.status) /\ read = "broken" /\ To(BreaksOff)
    \/ ~Refuses(xch.status) /\ read # "broken" /\ To(Ended("upstream", Unusable))
    \/ /\ ~Refuses(xch.status) /\ read = "whole"
       /\ \E count \in PageRows, token \in IF xch.route = "paged" THEN PageToken \cup {NoPage} ELSE {NoPage} :
            LET rows == xch.rows + count
            IN To(CASE rows > MaxModels  -> Ended("upstream", Unusable)
                    [] rows <= MaxModels /\ token = NoPage ->
                            [Ended("ok", PermitsNothing) EXCEPT !.rows = rows]
                    [] OTHER -> NextPage(rows, token))

\* The older providers' Invoke reads the body before it looks at the status, and
\* an answer that is not JSON is an error nothing classifies.
ReadLegacyBody(read) ==
    CASE read = "broken"                            -> To(BreaksOff)
      [] read # "broken" /\ Refuses(xch.status)     -> To(ReportRefusal("whole"))
      [] OTHER -> \E result \in {"ok", "unclassified"} : To(Ended(result, PermitsNothing))

\* The extension's Info and ListModels decode within a bound.
DecodeBounded(read) ==
    \/ Refuses(xch.status) /\ To(ReportRefusal(read))
    \/ ~Refuses(xch.status) /\ To(Ended("upstream", PermitsNothing))
    \/ ~Refuses(xch.status) /\ read = "whole" /\ To(Ended("ok", PermitsNothing))

\* The extension's Invoke.
ReadBounded(read) ==
    CASE Refuses(xch.status)                      -> To(ReportRefusal(read))
      [] ~Refuses(xch.status) /\ read = "large"   -> To(Ended("upstream", PermitsNothing))
      [] ~Refuses(xch.status) /\ read = "broken"  -> To(BreaksOff)
      [] OTHER                                    -> To(Ended("ok", PermitsNothing))

\* Refresh and the OAuth steps of a daemon's answer: its body says whether the
\* daemon refused, and a status that is no success always does.
DaemonAnswer ==
    \/ To(Ended("daemon_refused", PermitsNothing))
    \/ Succeeded(xch.status) /\ To(Ended("ok", PermitsNothing))

\* postJSON: the body is read whatever the status.
PostJSON(read) ==
    CASE read = "large"  -> To(Ended("upstream", PermitsNothing))
      [] read = "broken" -> To(BreaksOff)
      [] OTHER           -> DaemonAnswer

\* The body arrives whole, runs over its bound or breaks off.
ReadBody ==
    /\ xch.pc = "body"
    /\ \E read \in {"whole", "large", "broken"} :
        CASE xch.route = "stream"                              -> OpenStream(read)
          [] xch.via = "provider" /\ xch.route = "invoke"      -> ReadInvocation(read)
          [] xch.route \in {"catalog", "paged"}                -> ReadCatalogBody(read)
          [] xch.via = "legacy" /\ xch.route = "invoke"        -> ReadLegacyBody(read)
          [] xch.route \in {"info", "models"}                  -> DecodeBounded(read)
          [] xch.via = "extension" /\ xch.route = "invoke"     -> ReadBounded(read)
          [] xch.route \in {"refresh", "oauth"}                -> PostJSON(read)

\* Mutant: a failure of the transport is always the upstream's.
TransportFailureRegardless(x) == Transient

\* Mutant: a timer of the client's own counts as the caller's.
TransportFailureOfAnyTimer(x) == IF x.gone \/ x.expired THEN PermitsNothing ELSE Transient

\* transportFailure, catalogFailure of a transport error and invocationError.
TransportFailure(x) == IF x.gone THEN PermitsNothing ELSE Transient

\* The extension's transportError: the context it asks is the one it derived.
TransportError(x) ==
    IF x.gone \/ (x.expired /\ OwnTimer(x) = "context") THEN PermitsNothing ELSE Transient

\* What broke off is classified, after the caller may have given up too.
Classify ==
    /\ xch.pc = "broken"
    /\ To(Ended("transport", IF xch.via = "extension" THEN TransportError(xch)
                             ELSE TransportFailure(xch)))

\* What a token exchange that fails permits, whatever status its endpoint answers: of
\* a catalog a repeat unless the caller gave up, or nothing; of a call, which does not
\* ask who waits, a repeat, only another target, or after a 401 or 403 nothing.
TokenFailures ==
    IF xch.route = "paged" THEN {TransportFailure(xch), PermitsNothing}
    ELSE {Transient, PermitsFailover, PermitsNothing}

\* A provider that signs with a service account exchanges it for a token first.
ExchangeToken ==
    /\ xch.pc = "send" /\ xch.asked = <<NoPage>>
    /\ xch.via = "provider" /\ xch.route # "catalog"
    /\ \E permits \in TokenFailures : To(Ended("token", permits))

WireNext ==
    \/ GiveUp
    \/ TimerFires
    \/ Prepare
    \/ ExchangeToken
    \/ Send
    \/ ReadBody
    \/ Classify

WireSpec == WireInit /\ [][WireNext]_wireVars

----------------------------------------------------------------------------
(* Properties.                                                             *)

Broke == xch.pc = "done" /\ xch.result = "transport"

\* A failure that came after the caller gave up permits no retry and no failover
\* and counts against nobody, whichever client met it (wire_http.go transportFailure,
\* errors.go invocationError, client.go transportError).
GivenUpBlamesNobody == Broke /\ xch.broke = "gone" => xch.permits = PermitsNothing

\* A provider that breaks off, or is slower than its client's own timer, while the
\* caller still waits may be repeated and failed over from and counts against its
\* circuit (wire_http.go transportFailure: "a slow upstream, which another attempt
\* may get past").
SlowIsNotGivenUp == Broke /\ ~xch.gone /\ xch.via # "extension" => xch.permits = Transient

\* The same of an extension daemon, as transportError's comment says of it: "Another
\* target may get past it, unless the caller gave up."
SlowDaemonIsNotGivenUp == Broke /\ ~xch.gone /\ xch.via = "extension" => xch.permits.failover

\* No part of a refused answer that was not read whole reaches a diagnostic, where a
\* credential cut short would not be recognised (readInvocationResponseBody,
\* statusError); the older streams make no such promise.
DiagnosticsWhole == xch.quote = "part" => xch.via = "legacy"

\* A paged listing asks for no page twice nor for more than its limit, whatever
\* tokens the upstream sends (aiStudioModels, vertexPublisherModels).
PagesWalkedOnce == IsInjective(xch.asked) /\ Len(xch.asked) <= MaxPages

\* A Retry-After the providers honour is the one the upstream sent or none at all,
\* never what is left of one too long for a Duration (retryAfterDelay).
WaitsAsAsked ==
    xch.via = "provider" /\ xch.wait # 0 => xch.wait = xch.seconds * Second /\ xch.wait > 0

\* An exchange is reported as it went: it is blamed on the upstream exactly while the
\* caller waits, its refusals are quoted whole or not at all, its pages end, and its
\* waits are those asked for (transportFailure, catalogFailure, invocationError,
\* readInvocationResponseBody, aiStudioModels, retryAfterDelay).
ExchangeHonest ==
    /\ GivenUpBlamesNobody /\ SlowIsNotGivenUp
    /\ DiagnosticsWhole /\ PagesWalkedOnce /\ WaitsAsAsked
=============================================================================
