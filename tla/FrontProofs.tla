---------------------------- MODULE FrontProofs -----------------------------
(***************************************************************************)
(* Proofs about the serving path and its providers: the Router's breakers, *)
(* one exchange with an upstream, the transport plans of a stored row, the *)
(* Engine answering a request, and the automation of anonymous providers.  *)
(* They share no state; each has its own invariant, and each theorem is about *)
(* that component's own specification.                                     *)
(***************************************************************************)
EXTENDS Engine, Router, Wire, Transport, Anonymous, SharedProofs

----------------------------------------------------------------------------
(* The breakers of the Router.                                             *)

Result == [provider : Name, ok : BOOLEAN, at : Nat]

RouterTypeOK ==
    /\ failures \in [Name -> Nat]
    /\ lastFailure \in [Name -> Nat]
    /\ clock \in Nat
    /\ calling \in [RouterThread -> Name \cup {Nobody}]
    /\ results \in Seq(Result)

\* The breaker counts the streak, and keeps the time of its last failure.
Counted ==
    \A p \in Name :
        /\ IsFiniteSet(Streak(p)) /\ failures[p] = Cardinality(Streak(p))
        /\ \A last \in Streak(p) :
              (\A i \in Streak(p) : i <= last) => lastFailure[p] = results[last].at

\* A streak has a last failure.
StreaksEnd ==
    \A p \in Name : Streak(p) # {} => \E last \in Streak(p) : \A i \in Streak(p) : i <= last

RouterInv == RouterTypeOK /\ Counted /\ StreaksEnd

----------------------------------------------------------------------------
(* What a result does to the streaks.                                      *)

\* A failure is added to its provider's streak, a success ends it, and neither
\* touches the streak of another provider.
LEMMA ResultStreak ==
    ASSUME RouterTypeOK, NEW p \in Name, NEW ok \in BOOLEAN,
           results' = Append(results, [provider |-> p, ok |-> ok, at |-> clock])
    PROVE  /\ \A q \in Name \ {p} : Streak(q)' = Streak(q)
           /\ ok => Streak(p)' = {}
           /\ ~ok => Streak(p)' = Streak(p) \cup {Len(results) + 1}
<1> DEFINE n == Len(results) + 1
           r == [provider |-> p, ok |-> ok, at |-> clock]
<1>1. r \in Result /\ Len(results) \in Nat BY DEF RouterTypeOK, Result
<1>2. Len(results') = n /\ results'[n] = r /\ \A i \in 1..Len(results) : results'[i] = results[i]
    BY <1>1 DEF RouterTypeOK
<1>3. 1..Len(results') = (1..Len(results)) \cup {n} /\ n \notin 1..Len(results)
      /\ \A i \in 1..Len(results) : i < n
    BY <1>1, <1>2
<1>4. r.provider = p /\ r.ok = ok OBVIOUS
<1> HIDE DEF n, r
<1>5. ASSUME NEW q \in Name \ {p} PROVE Streak(q)' = Streak(q)
    BY <1>2, <1>3, <1>4 DEF Streak
<1>6. CASE ok
  <2>1. \A i \in 1..Len(results') : i <= n BY <1>1, <1>3 DEF n
  <2> QED BY <1>2, <1>3, <1>4, <1>5, <1>6, <2>1 DEF Streak
<1>7. CASE ~ok
  <2>1. \A i \in 1..Len(results) : ~(n <= i) BY <1>1 DEF n
  <2> QED BY <1>2, <1>3, <1>4, <1>5, <1>7, <2>1 DEF Streak, n
<1> QED BY <1>6, <1>7

\* Results already recorded stay.
LEMMA ResultKept ==
    ASSUME RouterTypeOK, NEW r \in Result, results' = Append(results, r)
    PROVE  /\ \A p \in Name : Streak(p) \subseteq 1..Len(results)
           /\ \A i \in 1..Len(results) : results'[i] = results[i] /\ i < Len(results) + 1
           /\ results'[Len(results) + 1] = r
BY DEF RouterTypeOK, Streak

----------------------------------------------------------------------------
\* Nothing has been called, and no breaker has failures.
LEMMA InitRouterInv == RouterInit => RouterInv
<1> SUFFICES ASSUME RouterInit PROVE RouterInv OBVIOUS
<1>1. RouterTypeOK BY DEF RouterInit, RouterTypeOK
<1>2. \A p \in Name : Streak(p) = {} BY DEF RouterInit, Streak
<1> QED BY <1>1, <1>2, FS_EmptySet DEF RouterInit, RouterInv, Counted, StreaksEnd

\* Every step of the router keeps its invariant.
LEMMA StepRouterInv == RouterInv /\ [RouterNext]_routerVars => RouterInv'
<1> SUFFICES ASSUME RouterInv, [RouterNext]_routerVars PROVE RouterInv' OBVIOUS
<1>0. RouterTypeOK /\ Counted /\ StreaksEnd BY DEF RouterInv
<1>1. ASSUME RouterTypeOK', UNCHANGED <<failures, lastFailure, results>> PROVE RouterInv'
  <2>1. \A p \in Name : Streak(p)' = Streak(p) BY <1>1 DEF Streak
  <2> QED BY <1>0, <1>1, <2>1 DEF RouterInv, Counted, StreaksEnd
<1>2. ASSUME NEW t \in RouterThread, NEW denied \in SUBSET Name, NEW route \in [1..2 -> Name],
             ResolveRoute(t, route, denied)
      PROVE  RouterInv'
  <2>1. RouterTypeOK' BY <1>0, <1>2 DEF ResolveRoute, RouterTypeOK
  <2> QED BY <1>1, <1>2, <2>1 DEF ResolveRoute
<1>3. ASSUME NEW t \in RouterThread, NEW denied \in SUBSET Name, NEW p \in Name,
             ResolveDirect(t, p, denied)
      PROVE  RouterInv'
  <2>1. RouterTypeOK' BY <1>0, <1>3 DEF ResolveDirect, RouterTypeOK
  <2> QED BY <1>1, <1>3, <2>1 DEF ResolveDirect
<1>4. ASSUME NEW t \in RouterThread, NEW ok \in BOOLEAN, RecordResult(t, ok) PROVE RouterInv'
  <2>1. PICK p \in Name : p = calling[t] BY <1>0, <1>4 DEF RecordResult, RouterTypeOK
  <2> DEFINE n == Len(results) + 1
             r == [provider |-> p, ok |-> ok, at |-> clock]
  <2>2. r \in Result /\ results' = Append(results, r)
      BY <1>0, <1>4, <2>1 DEF RecordResult, RouterTypeOK, Result
  <2>3. UNCHANGED clock /\ calling' = [calling EXCEPT ![t] = Nobody]
        /\ IF ok THEN RecordSuccess(p) ELSE RecordFailure(p)
      BY <1>4, <2>1 DEF RecordResult
  <2>4. RouterTypeOK'
    <3>1. results' \in Seq(Result) BY <1>0, <2>2 DEF RouterTypeOK
    <3>2. failures' \in [Name -> Nat] /\ lastFailure' \in [Name -> Nat]
      <4>1. CASE ok BY SMTT(30), <1>0, <2>3, <4>1 DEF RouterTypeOK, RecordSuccess
      <4>2. CASE ~ok
        <5>1. failures[p] + 1 \in Nat /\ clock \in Nat BY <1>0 DEF RouterTypeOK
        <5>2. failures' = [failures EXCEPT ![p] = failures[p] + 1]
              /\ lastFailure' = [lastFailure EXCEPT ![p] = clock]
            BY <2>3, <4>2 DEF RecordFailure
        <5> QED BY <1>0, <5>1, <5>2 DEF RouterTypeOK
      <4> QED BY <4>1, <4>2
    <3> QED BY <1>0, <2>3, <3>1, <3>2 DEF RouterTypeOK
  <2>5. r.at = clock OBVIOUS
  <2>6. /\ \A q \in Name \ {p} : Streak(q)' = Streak(q)
        /\ ok => Streak(p)' = {}
        /\ ~ok => Streak(p)' = Streak(p) \cup {n}
      BY <1>0, <2>1, <2>2, ResultStreak
  <2>7. /\ \A q \in Name : Streak(q) \subseteq 1..Len(results)
        /\ \A i \in 1..Len(results) : results'[i] = results[i] /\ i < n
        /\ results'[n] = r
      BY <1>0, <2>2, ResultKept
  <2>8. n \in Nat /\ n \notin 1..Len(results) BY <1>0 DEF RouterTypeOK
  <2> HIDE DEF n, r
  <2>9. ASSUME NEW q \in Name
        PROVE  /\ IsFiniteSet(Streak(q)') /\ failures'[q] = Cardinality(Streak(q)')
               /\ \A last \in Streak(q)' :
                    (\A i \in Streak(q)' : i <= last) => lastFailure'[q] = results'[last].at
               /\ Streak(q)' # {} => \E last \in Streak(q)' : \A i \in Streak(q)' : i <= last
    <3>1. CASE q # p
      <4>1. failures'[q] = failures[q] /\ lastFailure'[q] = lastFailure[q]
          BY <1>0, <2>3, <3>1 DEF RouterTypeOK, RecordSuccess, RecordFailure
      <4>2. Streak(q)' = Streak(q) BY <2>6, <3>1
      <4> QED BY <1>0, <2>7, <4>1, <4>2 DEF Counted, StreaksEnd
    <3>2. CASE q = p /\ ok
      <4>1. failures'[q] = 0 BY <1>0, <2>3, <3>2 DEF RouterTypeOK, RecordSuccess
      <4> QED BY <2>6, <3>2, <4>1, FS_EmptySet
    <3>3. CASE q = p /\ ~ok
      <4>1. failures'[q] = failures[q] + 1 /\ lastFailure'[q] = clock
          BY <1>0, <2>3, <3>3 DEF RouterTypeOK, RecordFailure
      <4>2. Streak(q)' = Streak(q) \cup {n} /\ n \notin Streak(q) BY <2>6, <2>7, <2>8, <3>3
      <4>3. IsFiniteSet(Streak(q)') /\ Cardinality(Streak(q)') = Cardinality(Streak(q)) + 1
          BY <1>0, <4>2, FS_AddElement DEF Counted
      <4>4. \A i \in Streak(q)' : i <= n BY <2>7, <2>8, <4>2
      <4>5. \A last \in Streak(q) : ~(n <= last) BY <2>7, <2>8
      <4> QED BY <1>0, <2>5, <2>7, <4>1, <4>2, <4>3, <4>4, <4>5 DEF Counted
    <3> QED BY <3>1, <3>2, <3>3
  <2> QED BY <2>4, <2>9 DEF RouterInv, Counted, StreaksEnd
<1>5. CASE ClockTick
  <2>1. RouterTypeOK' BY <1>0, <1>5 DEF ClockTick, RouterTypeOK
  <2> QED BY <1>1, <1>5, <2>1 DEF ClockTick
<1>6. CASE UNCHANGED routerVars
  <2>1. RouterTypeOK' BY <1>0, <1>6 DEF routerVars, RouterTypeOK
  <2> QED BY <1>1, <1>6, <2>1 DEF routerVars
<1> QED BY <1>2, <1>3, <1>4, <1>5, <1>6 DEF RouterNext

----------------------------------------------------------------------------
\* The breaker (router.CircuitBreaker) is exactly what its recorded results say,
\* whatever the order in which concurrent requests end: it refuses a provider
\* just when its last Threshold results are failures and the last of them is no
\* more than the cooldown ago.
THEOREM BreakerIsExact == RouterSpec => []BreakerExact
<1>1. RouterInv => BreakerExact
  <2> SUFFICES ASSUME RouterInv, NEW p \in Name
               PROVE  ~Allow(p) <=>
                        /\ Cardinality(Streak(p)) >= Threshold
                        /\ \A last \in Streak(p) :
                             (\A i \in Streak(p) : i <= last) => clock - results[last].at <= Cooldown
      BY DEF BreakerExact
  <2>1. failures[p] = Cardinality(Streak(p)) /\ IsFiniteSet(Streak(p)) BY DEF RouterInv, Counted
  <2>2. failures[p] \in Nat /\ lastFailure[p] \in Nat /\ clock \in Nat BY DEF RouterInv, RouterTypeOK
  <2>3. CASE failures[p] < Threshold BY <2>1, <2>2, <2>3, RouterConstants DEF Allow
  <2>4. CASE failures[p] >= Threshold
    <3>1. Streak(p) # {} BY <2>1, <2>2, <2>4, RouterConstants, FS_EmptySet
    <3>2. PICK last \in Streak(p) : \A i \in Streak(p) : i <= last BY <3>1 DEF RouterInv, StreaksEnd
    <3>3. lastFailure[p] = results[last].at BY <3>2 DEF RouterInv, Counted
    <3>4. \A other \in Streak(p) : (\A i \in Streak(p) : i <= other) => lastFailure[p] = results[other].at
        BY DEF RouterInv, Counted
    <3> QED BY <2>1, <2>2, <2>4, <3>2, <3>3, <3>4, RouterConstants DEF Allow
  <2> QED BY <2>2, <2>3, <2>4, RouterConstants
<1> QED BY InitRouterInv, StepRouterInv, <1>1, PTL DEF RouterSpec

----------------------------------------------------------------------------
(* One exchange with an upstream.                                          *)

Permission == [retry : BOOLEAN, failover : BOOLEAN, circuit : BOOLEAN]

Via == {"provider", "legacy", "extension"}
RouteKind == {"invoke", "stream", "catalog", "paged", "info", "models", "refresh", "oauth"}
At == {"send", "body", "broken", "done"}
Breaks == {"", "gone", "expired", "peer"}
Pages == Seq(PageToken \cup {NoPage})
Reports == {"ok", "open", "refused", "upstream", "configuration", "unsupported", "invalid_request",
            "unclassified", "daemon_refused", "token"}
Quotes == {"none", "part", "whole"}

Exchange ==
    [via : Via, route : RouteKind, deadline : BOOLEAN, gone : BOOLEAN, expired : BOOLEAN,
     pc : At, status : Nat, broke : Breaks, asked : Pages, rows : Nat,
     result : Reports \cup {"", "transport"},
     permits : Permission, quote : Quotes, wait : Int, seconds : Int]

\* Nothing is reported before the end.
NothingYet == xch.pc # "done" => xch.result = "" /\ xch.wait = 0 /\ xch.quote = "none"

\* A failure of the transport says what had ended when it was classified, which
\* nothing that ends later changes.
Blamed ==
    /\ xch.broke = "gone" => xch.gone
    /\ Broke => xch.permits = IF xch.via = "extension" THEN TransportError(xch) ELSE TransportFailure(xch)

WireInv ==
    /\ xch \in Exchange
    /\ NothingYet /\ Blamed
    /\ DiagnosticsWhole /\ PagesWalkedOnce /\ WaitsAsAsked

----------------------------------------------------------------------------
\* What a reply's status permits is said field by field.
LEMMA PermissionsAre ==
    /\ {PermitsNothing, PermitsFailover, Unusable, Transient} \subseteq Permission
    /\ \A status \in Nat : /\ StatusClassification(status) \in Permission
                           /\ StatusError(status) \in Permission
                           /\ InvocationStatus(status) \in Permission
<1>1. {PermitsNothing, PermitsFailover, Unusable, Transient} \subseteq Permission
    BY DEF PermitsNothing, PermitsFailover, Unusable, Transient, Permits, Permission
<1>2. ASSUME NEW status \in Nat PROVE ClassifyProviderFailure(status).retryable \in BOOLEAN
  <2>1. ASSUME NEW a, NEW b, NEW c, NEW r \in BOOLEAN PROVE Health(a, b, c, r).retryable \in BOOLEAN
      BY DEF Health
  <2>2. (status = 408 \/ status >= 500) \in BOOLEAN OBVIOUS
  <2> QED BY ZenonT(30), <2>1, <2>2 DEF ClassifyProviderFailure
<1>3. ASSUME NEW r \in BOOLEAN, NEW f \in BOOLEAN, NEW c \in BOOLEAN PROVE Permits(r, f, c) \in Permission
    BY DEF Permits, Permission
<1>4. ASSUME NEW status \in Nat PROVE StatusError(status) \in Permission
  <2>1. (ClassifyProviderFailure(status).class \in {"transport", "upstream"}) \in BOOLEAN OBVIOUS
  <2> QED BY <1>2, <1>3, <2>1 DEF StatusError
<1>5. ASSUME NEW status \in Nat PROVE InvocationStatus(status) \in Permission
    BY <1>2, <1>3 DEF InvocationStatus
<1> QED BY <1>1, <1>4, <1>5 DEF StatusClassification

\* A page whose token is new is asked for once.
LEMMA AskedOnce ==
    ASSUME NEW S, NEW s \in Seq(S), IsInjective(s), NEW e \in S, e \notin ToSet(s)
    PROVE  /\ Append(s, e) \in Seq(S) /\ IsInjective(Append(s, e))
           /\ Len(Append(s, e)) = Len(s) + 1 /\ Len(s) \in Nat
<1>1. /\ Len(Append(s, e)) = Len(s) + 1 /\ Len(s) \in Nat /\ Append(s, e) \in Seq(S)
      /\ \A i \in 1..Len(s) : Append(s, e)[i] = s[i]
      /\ Append(s, e)[Len(s) + 1] = e /\ DOMAIN s = 1..Len(s)
      /\ DOMAIN Append(s, e) = 1..(Len(s) + 1)
    OBVIOUS
<1>2. \A i \in 1..Len(s) : s[i] # e BY <1>1 DEF ToSet
<1>3. \A i \in 1..(Len(s) + 1) : i \in 1..Len(s) \/ i = Len(s) + 1 BY <1>1
<1>4. \A a, b \in 1..Len(s) : s[a] = s[b] => a = b BY <1>1 DEF IsInjective
<1>5. ASSUME NEW a \in 1..(Len(s) + 1), NEW b \in 1..(Len(s) + 1), Append(s, e)[a] = Append(s, e)[b]
      PROVE  a = b
    BY <1>1, <1>2, <1>3, <1>4, <1>5
<1> QED BY <1>1, <1>5 DEF IsInjective

\* A wait is none, or what was asked for.
LEMMA Waits ==
    ASSUME NEW n \in Int
    PROVE  /\ RetryAfterDelay(n) \in Int
           /\ RetryAfterDelay(n) # 0 => RetryAfterDelay(n) = n * Second /\ n * Second > 0
<1>1. Second \in Nat /\ Second > 0 BY WireConstants
<1>2. n * Second \in Int BY <1>1
<1>3. n > 0 => n * Second > 0 BY <1>1
<1> QED BY <1>1, <1>2, <1>3 DEF RetryAfterDelay

\* A product that wraps is still a number.
LEMMA WrapsToInt == ASSUME NEW n \in Int PROVE ParseRetryAfter(n) \in Int
<1>1. Second \in Nat /\ MaxDuration \in Nat BY WireConstants
<1>2. n * Second \in Int BY <1>1
<1>3. ASSUME NEW k \in Int PROVE Signed(k) \in Int
  <2>1. 2 * (MaxDuration + 1) \in Nat /\ 2 * (MaxDuration + 1) > 0 BY <1>1
  <2>2. (k + MaxDuration + 1) % (2 * (MaxDuration + 1)) \in Int BY <1>1, <2>1
  <2> QED BY <1>1, <2>2 DEF Signed
<1> QED BY <1>2, <1>3 DEF ParseRetryAfter

\* What stays when an exchange takes a step that gives up or asks for nothing.
SameCall(x, n) ==
    /\ n.via = x.via /\ n.route = x.route /\ n.seconds = x.seconds
    /\ (n.deadline <=> x.deadline) /\ (n.gone <=> x.gone) /\ (n.expired <=> x.expired)

\* The labels of an exchange.
LEMMA AtLabels == "send" \in At /\ "body" \in At /\ "broken" \in At /\ "done" \in At
BY DEF At

\* What an exchange may report.
LEMMA ReportKinds ==
    /\ "ok" \in Reports /\ "open" \in Reports /\ "refused" \in Reports /\ "upstream" \in Reports
    /\ "configuration" \in Reports /\ "unsupported" \in Reports /\ "invalid_request" \in Reports
    /\ "unclassified" \in Reports /\ "daemon_refused" \in Reports /\ "token" \in Reports
    /\ "transport" \notin Reports
BY DEF Reports

----------------------------------------------------------------------------
(* What an exchange may do next.                                           *)

\* The rest of the invariant, from the fields that a step leaves or sets.
LEMMA UnreportedStep ==
    ASSUME WireInv, xch' \in Exchange, SameCall(xch, xch'), xch'.pc # "done", xch.pc # "done",
           xch'.result = xch.result, xch'.quote = xch.quote, xch'.wait = xch.wait,
           IsInjective(xch'.asked), Len(xch'.asked) <= MaxPages,
           xch'.broke = xch.broke \/ (xch'.broke = "gone" => xch.gone)
    PROVE  WireInv'
  BY DEF WireInv, NothingYet, Blamed, Broke, DiagnosticsWhole, PagesWalkedOnce, WaitsAsAsked, SameCall

\* A report that blames nobody for a broken transport.
LEMMA ReportStep ==
    ASSUME WireInv, xch' \in Exchange, SameCall(xch, xch'), xch'.pc = "done", xch'.result \in Reports,
           xch'.asked = xch.asked, xch'.broke = xch.broke,
           xch'.quote = "part" => xch.via = "legacy",
           xch.via = "provider" /\ xch'.wait # 0 => xch'.wait = xch.seconds * Second /\ xch'.wait > 0
    PROVE  WireInv'
<1>1. xch'.result # "transport" BY ReportKinds
<1> QED BY <1>1
        DEF WireInv, NothingYet, Blamed, Broke, DiagnosticsWhole, PagesWalkedOnce, WaitsAsAsked, SameCall

\* The end of an exchange whose transport held.
LEMMA EndedInv ==
    ASSUME WireInv, xch.pc # "done", NEW permits \in Permission, NEW result \in Reports,
           xch' = Ended(result, permits)
    PROVE  WireInv'
<1>1. /\ xch' \in Exchange /\ SameCall(xch, xch') /\ xch'.pc = "done" /\ xch'.result = result
      /\ xch'.broke = xch.broke /\ xch'.asked = xch.asked /\ xch'.quote = xch.quote
      /\ xch'.wait = xch.wait
  <2>1. xch' = [xch EXCEPT !.pc = "done", !.result = result, !.permits = permits] BY DEF Ended
  <2>2. xch \in Exchange BY DEF WireInv
  <2> QED BY ZenonT(30), <2>1, <2>2, AtLabels DEF Exchange, SameCall
<1>2. xch.wait = 0 /\ xch.quote = "none" BY DEF WireInv, NothingYet
<1> QED BY <1>1, <1>2, ReportStep

\* The end of a catalog's last page.
LEMMA LastPageInv ==
    ASSUME WireInv, xch.pc # "done", NEW rows \in Nat,
           xch' = [Ended("ok", PermitsNothing) EXCEPT !.rows = rows]
    PROVE  WireInv'
<1>1. PICK e : e = Ended("ok", PermitsNothing) OBVIOUS
<1>2. /\ e \in Exchange /\ SameCall(xch, e) /\ e.pc = "done" /\ e.result = "ok"
      /\ e.broke = xch.broke /\ e.asked = xch.asked /\ e.quote = xch.quote /\ e.wait = xch.wait
  <2>1. e = [xch EXCEPT !.pc = "done", !.result = "ok", !.permits = PermitsNothing] BY <1>1 DEF Ended
  <2>2. xch \in Exchange /\ PermitsNothing \in Permission BY PermissionsAre DEF WireInv
  <2> QED BY <2>1, <2>2, AtLabels, ReportKinds DEF Exchange, SameCall
<1>3. xch' = [e EXCEPT !.rows = rows] BY <1>1
<1>4. /\ xch' \in Exchange /\ SameCall(e, xch') /\ xch'.pc = "done" /\ xch'.result = "ok"
      /\ xch'.broke = e.broke /\ xch'.asked = e.asked /\ xch'.quote = e.quote /\ xch'.wait = e.wait
    BY <1>2, <1>3 DEF Exchange, SameCall
<1>5. xch.wait = 0 /\ xch.quote = "none" BY DEF WireInv, NothingYet
<1>6. SameCall(xch, xch') BY <1>2, <1>4 DEF SameCall
<1> QED BY <1>2, <1>4, <1>5, <1>6, ReportKinds, ReportStep

\* A refusal quotes its body whole or not at all, but for the older providers, and
\* waits as it was asked.
LEMMA RefusalInv ==
    ASSUME WireInv, xch.pc # "done", NEW read \in {"whole", "large", "broken"}, xch' = ReportRefusal(read)
    PROVE  WireInv'
<1> DEFINE permits == CASE xch.via = "extension" -> StatusError(xch.status)
                        [] xch.via = "legacy"    -> InvocationStatus(xch.status)
                        [] OTHER                 -> StatusClassification(xch.status)
           quote == CASE xch.route \in {"catalog", "paged"} -> "none"
                      [] xch.via = "legacy" -> IF read = "broken" THEN "part" ELSE "whole"
                      [] OTHER -> IF read = "whole" THEN "whole" ELSE "none"
           wait == CASE xch.via = "provider" -> RetryAfterDelay(xch.seconds)
                     [] xch.via = "extension" /\ xch.status = 429 -> ParseRetryAfter(xch.seconds)
                     [] OTHER -> 0
<1>1. xch.status \in Nat /\ xch.seconds \in Int /\ xch \in Exchange /\ xch.via \in Via
    BY DEF WireInv, Exchange
<1>2. permits \in Permission BY <1>1, PermissionsAre
<1>3. quote \in Quotes /\ (quote = "part" => xch.via = "legacy") BY <1>1 DEF Quotes
<1>4. /\ wait \in Int
      /\ xch.via = "provider" /\ wait # 0 => wait = xch.seconds * Second /\ wait > 0
    BY <1>1, Waits, WrapsToInt
<1>5. PICK e : e = Ended("refused", permits) OBVIOUS
<1>6. xch' = [e EXCEPT !.quote = quote, !.wait = wait] BY <1>5 DEF ReportRefusal
<1> HIDE DEF permits, quote, wait
<1>7. /\ e \in Exchange /\ SameCall(xch, e) /\ e.pc = "done" /\ e.result = "refused"
      /\ e.broke = xch.broke /\ e.asked = xch.asked
  <2>1. e = [xch EXCEPT !.pc = "done", !.result = "refused", !.permits = permits] BY <1>5 DEF Ended
  <2> QED BY <1>1, <1>2, <2>1, AtLabels, ReportKinds DEF Exchange, SameCall
<1>8. /\ xch' \in Exchange /\ SameCall(e, xch') /\ xch'.pc = "done" /\ xch'.result = "refused"
      /\ xch'.broke = e.broke /\ xch'.asked = e.asked /\ xch'.quote = quote /\ xch'.wait = wait
    BY ZenonT(30), <1>3, <1>4, <1>6, <1>7 DEF Exchange, SameCall
<1>9. SameCall(xch, xch') BY <1>7, <1>8 DEF SameCall
<1> QED BY <1>3, <1>4, <1>7, <1>8, <1>9, ReportKinds, ReportStep

\* An exchange that breaks off remembers whether the caller had gone.
LEMMA BrokenInv ==
    ASSUME WireInv, xch.pc # "done", xch' = BreaksOff
    PROVE  WireInv'
<1>1. PICK broke \in Breaks : /\ xch' = [xch EXCEPT !.pc = "broken", !.broke = broke]
                              /\ broke = "gone" => xch.gone
    BY DEF BreaksOff, Breaks
<1>2. /\ xch' \in Exchange /\ SameCall(xch, xch') /\ xch'.pc = "broken" /\ xch'.broke = broke
      /\ xch'.result = xch.result /\ xch'.asked = xch.asked /\ xch'.quote = xch.quote
      /\ xch'.wait = xch.wait
  <2>1. xch \in Exchange BY DEF WireInv
  <2> QED BY ZenonT(30), <1>1, <2>1, AtLabels DEF Exchange, SameCall
<1> QED BY <1>1, <1>2, UnreportedStep DEF WireInv, PagesWalkedOnce

\* The next page is one not asked for yet, within the limit.
LEMMA NextPageInv ==
    ASSUME WireInv, xch.pc # "done", NEW rows \in Nat, NEW token \in PageToken \cup {NoPage},
           xch' = NextPage(rows, token)
    PROVE  WireInv'
<1>1. CASE xch' = Ended("upstream", Unusable) BY <1>1, EndedInv, PermissionsAre, ReportKinds
<1>2. CASE /\ token \notin ToSet(xch.asked) /\ Len(xch.asked) # MaxPages
           /\ xch' = [xch EXCEPT !.pc = "send", !.status = 0, !.rows = rows, !.asked = Append(@, token)]
  <2>1. /\ xch \in Exchange /\ xch.asked \in Pages /\ IsInjective(xch.asked)
        /\ Len(xch.asked) <= MaxPages
      BY DEF WireInv, Exchange, PagesWalkedOnce
  <2>2. PICK more : more = Append(xch.asked, token) OBVIOUS
  <2>3. /\ more \in Pages /\ IsInjective(more) /\ Len(more) = Len(xch.asked) + 1 /\ Len(xch.asked) \in Nat
      BY <1>2, <2>1, <2>2, AskedOnce DEF Pages
  <2>4. Len(more) <= MaxPages BY <1>2, <2>1, <2>3, WireConstants
  <2>5. xch' = [xch EXCEPT !.pc = "send", !.status = 0, !.rows = rows, !.asked = more] BY <1>2, <2>2
  <2>6. /\ xch' \in Exchange /\ SameCall(xch, xch') /\ xch'.pc = "send" /\ xch'.result = xch.result
        /\ xch'.quote = xch.quote /\ xch'.wait = xch.wait /\ xch'.asked = more /\ xch'.broke = xch.broke
    <3>1. more \in Pages /\ 0 \in Nat /\ xch \in Exchange BY <2>1, <2>3
    <3>2. xch' \in Exchange BY ZenonT(30), <3>1, <2>5, AtLabels DEF Exchange
    <3> QED BY <3>1, <3>2, <2>5 DEF Exchange, SameCall
  <2> QED BY <2>3, <2>4, <2>6, UnreportedStep
<1> QED BY <1>1, <1>2 DEF NextPage

\* What ReadBody leaves: an end, a refusal, a break, or a page of a catalog.
LEMMA BodyStep ==
    ASSUME WireInv, ReadBody
    PROVE  \/ \E result \in Reports, permits \in Permission : xch' = Ended(result, permits)
           \/ \E read \in {"whole", "large", "broken"} : xch' = ReportRefusal(read)
           \/ xch' = BreaksOff
           \/ \E rows \in Nat : xch' = [Ended("ok", PermitsNothing) EXCEPT !.rows = rows]
           \/ \E rows \in Nat, token \in PageToken \cup {NoPage} : xch' = NextPage(rows, token)
<1> DEFINE Goal == \/ \E result \in Reports, permits \in Permission : xch' = Ended(result, permits)
                   \/ \E read \in {"whole", "large", "broken"} : xch' = ReportRefusal(read)
                   \/ xch' = BreaksOff
                   \/ \E rows \in Nat : xch' = [Ended("ok", PermitsNothing) EXCEPT !.rows = rows]
                   \/ \E rows \in Nat, token \in PageToken \cup {NoPage} : xch' = NextPage(rows, token)
<1>1. PICK read \in {"whole", "large", "broken"} :
            \/ OpenStream(read) \/ ReadInvocation(read) \/ ReadCatalogBody(read) \/ ReadLegacyBody(read)
            \/ DecodeBounded(read) \/ ReadBounded(read) \/ PostJSON(read)
  <2>1. PICK read \in {"whole", "large", "broken"} :
            CASE xch.route = "stream"                              -> OpenStream(read)
              [] xch.via = "provider" /\ xch.route = "invoke"      -> ReadInvocation(read)
              [] xch.route \in {"catalog", "paged"}                -> ReadCatalogBody(read)
              [] xch.via = "legacy" /\ xch.route = "invoke"        -> ReadLegacyBody(read)
              [] xch.route \in {"info", "models"}                  -> DecodeBounded(read)
              [] xch.via = "extension" /\ xch.route = "invoke"     -> ReadBounded(read)
              [] xch.route \in {"refresh", "oauth"}                -> PostJSON(read)
      BY DEF ReadBody
  <2>2. xch.via \in {"provider", "legacy", "extension"}
        /\ xch.route \in {"invoke", "stream", "catalog", "paged", "info", "models", "refresh", "oauth"}
      BY DEF WireInv, Exchange, Via, RouteKind
  <2> QED BY <2>1, <2>2
<1>2. /\ PermitsNothing \in Permission /\ Unusable \in Permission /\ Transient \in Permission
    BY PermissionsAre
<1>3. CASE OpenStream(read) BY <1>2, <1>3, ReportKinds DEF OpenStream, To
<1>4. CASE ReadInvocation(read)
    BY <1>2, <1>4, ReportKinds DEF ReadInvocation, ReadResponseBody, To
<1>5. CASE ReadCatalogBody(read)
  <2>1. CASE xch' = ReportRefusal(read) \/ xch' = BreaksOff \/ xch' = Ended("upstream", Unusable)
      BY <1>2, <2>1, ReportKinds
  <2>2. ASSUME NEW count \in PageRows, NEW token \in PageToken \cup {NoPage},
               LET rows == xch.rows + count
               IN To(CASE rows > MaxModels  -> Ended("upstream", Unusable)
                       [] rows <= MaxModels /\ token = NoPage ->
                            [Ended("ok", PermitsNothing) EXCEPT !.rows = rows]
                       [] OTHER -> NextPage(rows, token))
        PROVE  Goal
    <3>1. xch.rows + count \in Nat
      <4>1. xch.rows \in Nat BY DEF WireInv, Exchange
      <4>2. count \in Nat BY WireConstants
      <4> QED BY <4>1, <4>2
    <3>2. PICK rows \in Nat : rows = xch.rows + count BY <3>1
    <3>3. \/ xch' = Ended("upstream", Unusable)
          \/ xch' = [Ended("ok", PermitsNothing) EXCEPT !.rows = rows]
          \/ xch' = NextPage(rows, token)
        BY <2>2, <3>2 DEF To
    <3> QED BY <1>2, <3>3, ReportKinds
  <2> QED BY <1>5, <2>1, <2>2 DEF ReadCatalogBody, To
<1>6. CASE ReadLegacyBody(read) BY <1>2, <1>6, ReportKinds DEF ReadLegacyBody, To
<1>7. CASE DecodeBounded(read) BY <1>2, <1>7, ReportKinds DEF DecodeBounded, To
<1>8. CASE ReadBounded(read) BY <1>2, <1>8, ReportKinds DEF ReadBounded, To
<1>9. CASE PostJSON(read) BY <1>2, <1>9, ReportKinds DEF PostJSON, DaemonAnswer, To
<1> QED BY <1>1, <1>3, <1>4, <1>5, <1>6, <1>7, <1>8, <1>9

\* An exchange that has not been sent.
LEMMA InitWireInv == WireInit => WireInv
<1> SUFFICES ASSUME NEW call \in Calls, NEW deadline \in BOOLEAN, xch = NewExchange(call, deadline)
             PROVE  WireInv
    BY DEF WireInit
<1>1. call[1] \in Via /\ call[2] \in RouteKind BY DEF Calls, Via, RouteKind
<1>2. <<NoPage>> \in Pages /\ IsInjective(<<NoPage>>) /\ Len(<<NoPage>>) = 1
    BY DEF Pages, IsInjective
<1>3. /\ PermitsNothing \in Permission /\ "" \in Breaks /\ "none" \in Quotes /\ "send" \in At
      /\ "" \notin Reports
    BY PermissionsAre DEF Breaks, Quotes, At, Reports
<1>4. xch \in Exchange
  <2>1. ASSUME NEW via \in Via, NEW route \in RouteKind, NEW asked \in Pages, NEW gone \in BOOLEAN,
               NEW result \in Reports \cup {"", "transport"}, NEW permits \in Permission,
               NEW at \in At, NEW broke \in Breaks, NEW quote \in Quotes, NEW n \in Nat, NEW i \in Int
        PROVE  [via |-> via, route |-> route, deadline |-> deadline, gone |-> gone,
                expired |-> gone, pc |-> at, status |-> n, broke |-> broke, asked |-> asked,
                rows |-> n, result |-> result, permits |-> permits, quote |-> quote,
                wait |-> i, seconds |-> i] \in Exchange
      BY DEF Exchange
  <2>2. "" \in Reports \cup {"", "transport"} /\ FALSE \in BOOLEAN /\ 0 \in Nat /\ 0 \in Int OBVIOUS
  <2> QED BY <1>1, <1>2, <1>3, <2>1, <2>2, Zenon DEF NewExchange
<1>5. /\ xch.pc = "send" /\ xch.result = "" /\ xch.wait = 0 /\ xch.quote = "none" /\ xch.broke = ""
      /\ xch.asked = <<NoPage>>
    BY DEF NewExchange
<1>6. 1 <= MaxPages BY WireConstants
<1>7. PagesWalkedOnce BY <1>2, <1>5, <1>6 DEF PagesWalkedOnce
<1> QED BY <1>4, <1>5, <1>7 DEF WireInv, NothingYet, Blamed, Broke, DiagnosticsWhole, WaitsAsAsked

\* Every step of an exchange keeps its invariant.
LEMMA StepWireInv == WireInv /\ [WireNext]_wireVars => WireInv'
<1> SUFFICES ASSUME WireInv, [WireNext]_wireVars PROVE WireInv' OBVIOUS
<1>0. xch \in Exchange BY DEF WireInv
<1>1. CASE GiveUp
  <2>1. xch' = [xch EXCEPT !.gone = TRUE] /\ xch.pc # "done" BY <1>1 DEF GiveUp, To
  <2>2. /\ xch' \in Exchange /\ xch'.pc = xch.pc /\ xch'.result = xch.result /\ xch'.quote = xch.quote
        /\ xch'.wait = xch.wait /\ xch'.asked = xch.asked /\ xch'.gone /\ xch'.via = xch.via
        /\ xch'.seconds = xch.seconds
      BY <1>0, <2>1 DEF Exchange
  <2> QED BY <2>1, <2>2
        DEF WireInv, NothingYet, Blamed, Broke, DiagnosticsWhole, PagesWalkedOnce, WaitsAsAsked
<1>2. CASE TimerFires
  <2>1. xch' = [xch EXCEPT !.expired = TRUE] /\ xch.pc # "done" BY <1>2 DEF TimerFires, To
  <2>2. /\ xch' \in Exchange /\ xch'.pc = xch.pc /\ xch'.result = xch.result /\ xch'.quote = xch.quote
        /\ xch'.wait = xch.wait /\ xch'.asked = xch.asked /\ (xch'.gone <=> xch.gone) /\ xch'.via = xch.via
        /\ xch'.seconds = xch.seconds /\ xch'.broke = xch.broke
      BY <1>0, <2>1 DEF Exchange
  <2> QED BY <2>1, <2>2
        DEF WireInv, NothingYet, Blamed, Broke, DiagnosticsWhole, PagesWalkedOnce, WaitsAsAsked
<1>3. CASE Prepare
  <2>1. PICK class \in PrepareFailures, permits \in {PermitsFailover, PermitsNothing} :
            xch' = Ended(class, permits)
      BY <1>3 DEF Prepare, To
  <2>2. class \in Reports /\ permits \in Permission
      BY PermissionsAre, ReportKinds DEF PrepareFailures
  <2>3. xch.pc # "done" BY <1>3 DEF Prepare
  <2> QED BY <2>1, <2>2, <2>3, EndedInv
<1>4. CASE Send
  <2>1. xch.pc # "done" BY <1>4 DEF Send
  <2>2. CASE xch' = BreaksOff BY <2>1, <2>2, BrokenInv
  <2>3. ASSUME NEW status \in Statuses \ {0}, NEW seconds \in {-1, 1, MaxDuration \div Second + 1},
               xch' = [xch EXCEPT !.pc = "body", !.status = status, !.seconds = seconds]
        PROVE  WireInv'
    <3>1. status \in Nat /\ seconds \in Int BY WireConstants DEF Statuses
    <3>2. /\ xch' \in Exchange /\ xch'.pc = "body" /\ xch'.result = xch.result /\ xch'.quote = xch.quote
          /\ xch'.wait = xch.wait /\ xch'.asked = xch.asked /\ (xch'.gone <=> xch.gone)
          /\ xch'.via = xch.via /\ xch'.broke = xch.broke
        BY <1>0, <2>3, <3>1, AtLabels DEF Exchange
    <3> QED BY <2>1, <3>2
          DEF WireInv, NothingYet, Blamed, Broke, DiagnosticsWhole, PagesWalkedOnce, WaitsAsAsked
  <2> QED BY <1>4, <2>2, <2>3 DEF Send, To
<1>5. CASE ReadBody
  <2>1. xch.pc # "done" BY <1>5 DEF ReadBody
  <2> QED BY <1>5, <2>1, BodyStep, EndedInv, RefusalInv, BrokenInv, LastPageInv, NextPageInv
<1>6. CASE Classify
  <2> DEFINE permits == IF xch.via = "extension" THEN TransportError(xch) ELSE TransportFailure(xch)
  <2>1. xch' = [xch EXCEPT !.pc = "done", !.result = "transport", !.permits = permits] /\ xch.pc = "broken"
      BY <1>6 DEF Classify, To, Ended
  <2>2. permits \in Permission BY PermissionsAre DEF TransportError, TransportFailure
  <2> HIDE DEF permits
  <2>3. /\ xch' \in Exchange /\ SameCall(xch, xch') /\ xch'.pc = "done" /\ xch'.permits = permits
        /\ xch'.broke = xch.broke /\ xch'.asked = xch.asked /\ xch'.quote = xch.quote
        /\ xch'.wait = xch.wait
      BY <1>0, <2>1, <2>2, AtLabels DEF Exchange, SameCall
  <2>4. OwnTimer(xch') = OwnTimer(xch) BY <2>3 DEF OwnTimer, SameCall
  <2>5. permits = IF xch'.via = "extension" THEN TransportError(xch') ELSE TransportFailure(xch')
      BY <2>3, <2>4 DEF permits, TransportError, TransportFailure, SameCall
  <2> QED BY <2>1, <2>3, <2>5
        DEF WireInv, NothingYet, Blamed, Broke, DiagnosticsWhole, PagesWalkedOnce, WaitsAsAsked, SameCall
<1>7. CASE ExchangeToken
  <2>1. PICK permits \in TokenFailures : xch' = Ended("token", permits)
      BY <1>7 DEF ExchangeToken, To
  <2>2. permits \in Permission BY PermissionsAre DEF TokenFailures, TransportFailure
  <2>3. "token" \in Reports BY ReportKinds
  <2>4. xch.pc # "done" BY <1>7 DEF ExchangeToken
  <2> QED BY <2>1, <2>2, <2>3, <2>4, EndedInv
<1>8. CASE UNCHANGED wireVars
    BY <1>8 DEF wireVars, WireInv, NothingYet, Blamed, Broke, DiagnosticsWhole, PagesWalkedOnce, WaitsAsAsked,
                TransportError, TransportFailure, OwnTimer
<1> QED BY <1>1, <1>2, <1>3, <1>4, <1>5, <1>6, <1>7, <1>8 DEF WireNext

\* An exchange is reported as it went (transportFailure, catalogFailure,
\* invocationError, readInvocationResponseBody, aiStudioModels, retryAfterDelay):
\* a caller that gave up blames nobody, a slow upstream is not a caller that gave
\* up, no page is asked for twice, and no wait is what an overflow left.
THEOREM ExchangesAreHonest == WireSpec => []ExchangeHonest
<1>1. WireInv => ExchangeHonest
    BY DEF WireInv, Blamed, Broke, TransportError, TransportFailure, ExchangeHonest, GivenUpBlamesNobody,
           SlowIsNotGivenUp
<1> QED BY <1>1, InitWireInv, StepWireInv, PTL DEF WireSpec

----------------------------------------------------------------------------
(* Plans, labels and listings of a stored row.                             *)

\* The row stored is the one reported, completed when a daemon left it silent.
TransportInv ==
    /\ stack \in Stacks /\ sent \in Rows /\ row = Completed(sent)
    /\ refreshedAt \in Nat /\ time \in Nat

\* The fields of a row, of its capabilities and of a provider's layers.
LEMMA RowFields ==
    ASSUME TransportInv
    PROVE  /\ row.reported = sent.reported /\ row.legacy = sent.legacy
           /\ row.reported \in Reported \cup {Unreported}
           /\ sent \in [apis : Seq(Paths), legacy : Legacy, reported : Reported \cup {Unreported}]
           /\ stack \in Seq(Layer)
<1>1. sent \in [apis : Seq(Paths), legacy : Legacy, reported : Reported \cup {Unreported}] /\ stack \in Seq(Layer)
    BY TransportConstants DEF TransportInv
<1>2. row.reported = sent.reported /\ row.legacy = sent.legacy BY <1>1 DEF TransportInv, Completed
<1> QED BY <1>1, <1>2

\* Capabilities are the reported ones, or inferred with medium confidence, and are as
\* fresh as their catalog.
LEMMA CapabilityFields ==
    ASSUME TransportInv
    PROVE  /\ row.reported # Unreported =>
                /\ Capabilities.chat = row.reported.chat /\ Capabilities.confidence = row.reported.confidence
                /\ Capabilities.surfaces = row.reported.surfaces
           /\ row.reported = Unreported =>
                /\ Capabilities.chat = InferCapabilities(row).chat /\ Capabilities.confidence = "medium"
                /\ Capabilities.surfaces = InferCapabilities(row).surfaces
           /\ Capabilities.expires = IF refreshedAt = 0 THEN 0 ELSE refreshedAt + FreshFor
<1>1. ASSUME NEW c \in Reported, NEW e, NEW n, n = [c EXCEPT !.expires = e]
      PROVE  n.chat = c.chat /\ n.confidence = c.confidence /\ n.surfaces = c.surfaces /\ n.expires = e
    BY <1>1 DEF Reported
<1>2. PICK e : e = IF refreshedAt = 0 THEN 0 ELSE refreshedAt + FreshFor OBVIOUS
<1>3. CASE row.reported # Unreported
  <2>1. row.reported \in Reported BY <1>3, RowFields
  <2>2. Capabilities = [row.reported EXCEPT !.expires = e] BY <1>2, <1>3 DEF Capabilities
  <2> QED BY <1>1, <1>2, <1>3, <2>1, <2>2
<1>4. CASE row.reported = Unreported
  <2>1. Capabilities = [InferCapabilities(row) EXCEPT !.expires = e] BY <1>2, <1>4 DEF Capabilities
  <2>2. PICK chat, surfaces : InferCapabilities(row) =
            [schema |-> 1, confidence |-> "medium", expires |-> 0, chat |-> chat, surfaces |-> surfaces]
      BY DEF InferCapabilities
  <2>3. PICK c : c = [schema |-> 1, confidence |-> "medium", expires |-> 0, chat |-> chat,
                      surfaces |-> surfaces] OBVIOUS
  <2>4. PICK n : n = [c EXCEPT !.expires = e] OBVIOUS
  <2>5. /\ n.confidence = "medium" /\ n.expires = e /\ n.chat = chat /\ n.surfaces = surfaces
        /\ c.chat = chat /\ c.surfaces = surfaces
      BY <2>3, <2>4
  <2>6. Capabilities = n /\ InferCapabilities(row) = c BY <2>1, <2>2, <2>3, <2>4
  <2> QED BY <1>2, <1>4, <2>5, <2>6
<1> QED BY <1>3, <1>4

\* A plan's disposition and confidence.
LEMMA PlanFields ==
    ASSUME NEW d, NEW c, NEW r, NEW plan, plan = PlanOf(d, c, r)
    PROVE  plan.disposition = d /\ plan.confidence = c
BY DEF PlanOf

\* A native plan, of high confidence only when the evidence is trusted.
LEMMA NativePlan ==
    ASSUME NEW b \in BOOLEAN
    PROVE  /\ NativeTransport(b).disposition = "native"
           /\ NativeTransport(b).confidence = "high" => Trusted
<1>1. PICK c \in {"high", "low"} : NativeTransport(b) = PlanOf("native", c, "") /\ (c = "high" => Trusted)
    BY DEF NativeTransport, EvidenceConfidence
<1>2. PICK plan : plan = PlanOf("native", c, "") OBVIOUS
<1>3. plan.disposition = "native" /\ plan.confidence = c BY <1>2 DEF PlanOf
<1> QED BY <1>1, <1>2, <1>3

\* A plan is native, or transparent, exactly on this evidence.
LEMMA PlanCases ==
    ASSUME NEW s
    PROVE  /\ Transparent(s) <=> Trusted /\ ConfirmedNative(s) /\ OperationSupport = "supported"
           /\ PlanTransport(s, "any").disposition = "native" <=>
                OperationSupport # "unsupported" /\ (ConfirmedNative(s) \/ UnknownNative(s))
           /\ PlanTransport(s, "any").disposition = "reject" =>
                OperationSupport = "unsupported" \/ ~(ConfirmedNative(s) \/ UnknownNative(s) \/ AdaptedInterface(s))
<1> DEFINE any == PlanTransport(s, "any")
           asked == PlanTransport(s, "transparent")
<1>1. TRUE \in BOOLEAN /\ FALSE \in BOOLEAN OBVIOUS
<1>2. CASE OperationSupport = "unsupported"
  <2>1. PICK plan : plan = PlanOf("reject", IF Trusted THEN "high" ELSE "low", "operation_unsupported") OBVIOUS
  <2>2. plan.disposition = "reject" BY <2>1, PlanFields
  <2>3. any = plan /\ asked = plan BY <1>2, <2>1 DEF PlanTransport, EvidenceConfidence
  <2> QED BY <1>2, <2>2, <2>3 DEF Transparent
<1>3. CASE OperationSupport # "unsupported"
  <2>1. Transparent(s) <=> Trusted /\ ConfirmedNative(s) /\ OperationSupport = "supported"
    <3>1. CASE Trusted /\ ConfirmedNative(s) /\ OperationSupport = "supported"
      <4>1. asked = NativeTransport(TRUE) BY <1>3, <3>1 DEF PlanTransport
      <4> QED BY <1>1, <3>1, <4>1, NativePlan DEF Transparent
    <3>2. CASE ~(Trusted /\ ConfirmedNative(s) /\ OperationSupport = "supported")
      <4>1. PICK c : asked = PlanOf("reject", c, "native_unconfirmed") BY <1>3, <3>2 DEF PlanTransport
      <4>2. PICK plan : plan = PlanOf("reject", c, "native_unconfirmed") OBVIOUS
      <4>3. plan.disposition = "reject" BY <4>2, PlanFields
      <4> QED BY <3>2, <4>1, <4>2, <4>3 DEF Transparent
    <3> QED BY <3>1, <3>2
  <2>2. CASE ConfirmedNative(s)
    <3>1. any = NativeTransport(TRUE) BY <1>3, <2>2 DEF PlanTransport
    <3> QED BY <1>1, <1>3, <2>1, <2>2, <3>1, NativePlan
  <2>3. CASE ~ConfirmedNative(s) /\ UnknownNative(s)
    <3>1. any = NativeTransport(FALSE) BY <1>3, <2>3 DEF PlanTransport
    <3> QED BY <1>1, <1>3, <2>1, <2>3, <3>1, NativePlan
  <2>4. CASE ~ConfirmedNative(s) /\ ~UnknownNative(s)
    <3>1. CASE ~AdaptedInterface(s)
      <4>1. PICK plan : plan = PlanOf("reject", IF Trusted THEN "high" ELSE "low", "no_interface") OBVIOUS
      <4>2. plan.disposition = "reject" BY <4>1 DEF PlanOf
      <4>3. any = plan BY <1>3, <2>4, <3>1, <4>1 DEF PlanTransport, EvidenceConfidence
      <4> QED BY <1>3, <2>1, <2>4, <3>1, <4>2, <4>3
    <3>2. CASE AdaptedInterface(s)
      <4>1. PICK c : c = IF OperationSupport = "unknown" \/ ~Trusted THEN "low" ELSE "medium" OBVIOUS
      <4>2. PICK plan : plan = PlanOf("adapted", c, "") OBVIOUS
      <4>3. plan.disposition = "adapted" BY <4>1, <4>2 DEF PlanOf
      <4>4. any = plan BY <1>3, <2>4, <3>2, <4>1, <4>2 DEF PlanTransport
      <4> QED BY <1>3, <2>1, <2>4, <4>3, <4>4
    <3> QED BY <3>1, <3>2
  <2> QED BY <2>2, <2>3, <2>4
<1> QED BY <1>2, <1>3

\* What is planned on evidence that is not trusted is planned with low confidence.
LEMMA UntrustedIsLow ==
    ASSUME NEW s, NEW requirement, ~Trusted
    PROVE  PlanTransport(s, requirement).confidence = "low"
<1>1. PICK d, why : PlanTransport(s, requirement) = PlanOf(d, "low", why)
    BY DEF PlanTransport, NativeTransport, EvidenceConfidence
<1>2. PICK plan : plan = PlanOf(d, "low", why) OBVIOUS
<1> QED BY <1>1, <1>2, PlanFields

\* A surface confirmed native is listed, and preserved by the provider.
LEMMA ConfirmedIsPreserved ==
    ASSUME NEW s \in Surface, ConfirmedNative(s)
    PROVE  /\ \E i \in DOMAIN row.apis : ParseSurfacePath(row.apis[i]) = s
           /\ TransportInterfaces # {} /\ SurfaceSupport(s) # "unsupported"
           /\ PreservesWireFor(s)
<1>1. PICK face \in TransportInterfaces :
            face.surface = s /\ face.native # "unsupported" /\ SurfaceSupport(s) # "unsupported"
    BY DEF ConfirmedNative
<1>2. PICK x : /\ \E i \in DOMAIN row.apis : ParseSurfacePath(row.apis[i]) = x
               /\ face = [surface |-> x, native |-> IF PreservesWireFor(x) THEN "supported" ELSE "unsupported"]
    BY DEF TransportInterfaces
<1>3. x = s /\ PreservesWireFor(s) BY <1>1, <1>2
<1> QED BY <1>1, <1>2, <1>3

\* The layer whose word that is, and those around it.
LEMMA PreservedByLayers ==
    ASSUME TransportInv, NEW s \in Surface, PreservesWireFor(s)
    PROVE  \E i \in DOMAIN stack :
            /\ s \in stack[i].preserves
            /\ stack[i].declares \in IF keyed THEN {"wire", "credential"} ELSE {"wire"}
            /\ \A k \in 1..i : s \in stack[k].native /\ (k < i => stack[k].declares = "nothing")
<1>1. PICK i \in DOMAIN stack :
        /\ stack[i].declares # "nothing"
        /\ \A k \in 1..(i - 1) : stack[k].declares = "nothing"
        /\ \A k \in 1..i : s \in stack[k].native
        /\ s \in stack[i].preserves
        /\ stack[i].declares = "credential" => keyed
    BY DEF PreservesWireFor
<1>2. stack \in Seq(Layer) BY RowFields
<1>3. i \in 1..Len(stack) /\ stack[i] \in Layer BY <1>1, <1>2
<1>4. stack[i].declares \in {"nothing", "wire", "credential"} BY <1>3 DEF Layer
<1>5. \A k \in 1..i : k < i => k \in 1..(i - 1) BY <1>3
<1> QED BY <1>1, <1>4, <1>5

\* SetToSeq lists every element of a finite set.
LEMMA SetListed ==
    ASSUME NEW S, IsFiniteSet(S), NEW e \in S
    PROVE  \E i \in DOMAIN SetToSeq(S) : SetToSeq(S)[i] = e
<1>1. Cardinality(S) \in Nat /\ ExistsBijection(1..Cardinality(S), S) BY FS_CardinalityType
<1>2. PICK f : f \in [1..Cardinality(S) -> S] /\ IsInjective(f)
    BY <1>1 DEF ExistsBijection, Bijection, Injection
<1>3. SetToSeq(S) \in [1..Cardinality(S) -> S] /\ IsInjective(SetToSeq(S)) BY <1>2 DEF SetToSeq
<1>4. PICK g : g = SetToSeq(S) OBVIOUS
<1>5. g \in Injection(1..Cardinality(S), S) BY <1>3, <1>4 DEF Injection
<1>6. Cardinality(1..Cardinality(S)) = Cardinality(S) BY <1>1, FS_Interval
<1>7. g \in Surjection(1..Cardinality(S), S) BY <1>5, <1>6, FS_Injection
<1>8. \E i \in 1..Cardinality(S) : g[i] = e BY <1>7 DEF Surjection
<1>9. DOMAIN g = 1..Cardinality(S) BY <1>3, <1>4
<1> QED BY <1>4, <1>8, <1>9

\* A daemon's silent row lists every surface of its provider.
LEMMA SilentRowCompleted ==
    ASSUME TransportInv, daemon, sent.apis = <<>>, sent.legacy \in {"absent", "blank"},
           sent.reported # Unreported =>
                sent.reported.chat = "unknown" /\ \A s \in Surface : sent.reported.surfaces[s] = "unknown",
           NEW s \in DaemonSurfaces
    PROVE  \E i \in DOMAIN row.apis : row.apis[i] = SurfacePath(s)
<1> DEFINE paths == {SurfacePath(d) : d \in DaemonSurfaces}
<1>1. LegacySupport(sent.legacy) = "unknown" BY DEF LegacySupport
<1>2. InferCapabilities(sent).chat = "unknown"
  <2>1. {AdaptedSurface(sent.apis[i]) : i \in DOMAIN sent.apis} \ {""} = {} OBVIOUS
  <2>2. PICK surfaces : InferCapabilities(sent) =
            [schema |-> 1, confidence |-> "medium", expires |-> 0, chat |-> "unknown", surfaces |-> surfaces]
      BY <1>1, <2>1 DEF InferCapabilities
  <2>3. PICK c : c = [schema |-> 1, confidence |-> "medium", expires |-> 0, chat |-> "unknown",
                      surfaces |-> surfaces] OBVIOUS
  <2>4. c.chat = "unknown" BY <2>3
  <2> QED BY <2>2, <2>3, <2>4
<1>3. ~ReportsWhatItServes(sent) BY <1>2 DEF ReportsWhatItServes, KnowsService
<1>4. row = [sent EXCEPT !.apis = SetToSeq(paths)] BY <1>3 DEF TransportInv, Completed
<1>5. row.apis = SetToSeq(paths) BY <1>4, RowFields
<1>6. IsFiniteSet(paths)
  <2>1. IsFiniteSet({"/v1/chat/completions", "/v1/responses", "/v1/messages"})
    <3>1. IsFiniteSet({}) BY FS_EmptySet
    <3>2. IsFiniteSet({} \cup {"/v1/chat/completions"}) BY <3>1, FS_AddElement
    <3>3. IsFiniteSet(({} \cup {"/v1/chat/completions"}) \cup {"/v1/responses"}) BY <3>2, FS_AddElement
    <3>4. IsFiniteSet((({} \cup {"/v1/chat/completions"}) \cup {"/v1/responses"}) \cup {"/v1/messages"})
        BY <3>3, FS_AddElement
    <3>5. (({} \cup {"/v1/chat/completions"}) \cup {"/v1/responses"}) \cup {"/v1/messages"}
            = {"/v1/chat/completions", "/v1/responses", "/v1/messages"}
        OBVIOUS
    <3> QED BY <3>4, <3>5
  <2>2. paths \subseteq {"/v1/chat/completions", "/v1/responses", "/v1/messages"}
      BY TransportConstants DEF SurfacePath
  <2> QED BY <2>1, <2>2, FS_Subset
<1>7. SurfacePath(s) \in paths OBVIOUS
<1> HIDE DEF paths
<1> QED BY <1>5, <1>6, <1>7, SetListed

\* What SurfacePath writes, ParseSurfacePath and AdaptModelCapabilities read back.
LEMMA PathsRoundTrip ==
    ASSUME NEW s \in Surface
    PROVE  ParseSurfacePath(SurfacePath(s)) = s /\ AdaptedSurface(SurfacePath(s)) = s /\ s # ""
BY TransportConstants DEF ParseSurfacePath, SurfacePath, AdaptedSurface

\* A row that was stored when its catalog was first read.
LEMMA InitTransportInv == TransportInit => TransportInv
BY DEF TransportInit, TransportInv

\* Time, a refresh and a change of credential keep the stored row the reported one.
LEMMA StepTransportInv == TransportInv /\ [TransportNext]_transportVars => TransportInv'
<1> SUFFICES ASSUME TransportInv, [TransportNext]_transportVars PROVE TransportInv' OBVIOUS
<1>1. \A r : daemon' = daemon => Completed(r)' = Completed(r) BY DEF Completed
<1>2. CASE TimePasses BY <1>1, <1>2 DEF TimePasses, TransportInv, Completed
<1>3. CASE RowRefreshed BY <1>1, <1>3 DEF RowRefreshed, TransportInv, Completed
<1>4. CASE KeyChanges BY <1>1, <1>4 DEF KeyChanges, TransportInv, Completed
<1>5. CASE UNCHANGED transportVars BY <1>1, <1>5 DEF transportVars, TransportInv, Completed
<1> QED BY <1>2, <1>3, <1>4, <1>5 DEF TransportNext

\* What is carried transparently is so on fresh evidence of the provider itself, and the
\* layer whose word it is preserves it while none around it fails to serve it; labels,
\* listings and plans agree; and no plan refuses a surface of a daemon's provider for a
\* row that is silent, which plans know as supported unless the row carries capabilities
\* (PlanTransport, ResponseTransportMode, ListingSurfaces, extension ListModels).
THEOREM PlansAreHonest == TransportSpec => []TransportHonest
<1>1. ASSUME TransportInv, NEW s \in Surface, Transparent(s)
      PROVE  /\ row.reported # Unreported /\ row.reported.confidence = "high"
             /\ row.reported.chat = "supported" /\ row.reported.surfaces[s] # "unsupported"
             /\ refreshedAt # 0 /\ time < refreshedAt + FreshFor
             /\ \E i \in DOMAIN row.apis : ParseSurfacePath(row.apis[i]) = s
             /\ TransportInterfaces # {}
             /\ \E i \in DOMAIN stack :
                    /\ s \in stack[i].preserves
                    /\ stack[i].declares \in IF keyed THEN {"wire", "credential"} ELSE {"wire"}
                    /\ \A k \in 1..i : s \in stack[k].native /\ (k < i => stack[k].declares = "nothing")
  <2>1. Trusted /\ ConfirmedNative(s) /\ OperationSupport = "supported" BY <1>1, PlanCases
  <2>2. /\ Usable /\ Capabilities.confidence = "high" /\ IsFresh(Capabilities)
        /\ Capabilities.chat = "supported"
      BY <2>1 DEF Trusted, Usable, OperationSupport
  <2>3. SurfaceSupport(s) = Capabilities.surfaces[s] BY <2>2 DEF SurfaceSupport
  <2>4. /\ \E i \in DOMAIN row.apis : ParseSurfacePath(row.apis[i]) = s
        /\ TransportInterfaces # {} /\ SurfaceSupport(s) # "unsupported" /\ PreservesWireFor(s)
      BY <2>1, ConfirmedIsPreserved
  <2>5. /\ row.reported # Unreported /\ row.reported.confidence = "high"
        /\ row.reported.chat = "supported" /\ row.reported.surfaces[s] # "unsupported"
        /\ refreshedAt # 0 /\ time < refreshedAt + FreshFor
      BY <1>1, <2>2, <2>3, <2>4, CapabilityFields DEF IsFresh
  <2> QED BY <1>1, <2>4, <2>5, PreservedByLayers
<1>2. TransportInv => TransparencyEarned BY <1>1 DEF TransparencyEarned
<1>3. TransportInv => LabelsAgree
  <2> SUFFICES ASSUME TransportInv, NEW s \in Surface
               PROVE  /\ Transparent(s) => ResponseTransportMode(s) = "native" /\ s \in ListingSurfaces("native")
                      /\ ClaimsChat => (s \in ListingSurfaces("native") <=> ResponseTransportMode(s) = "native")
      BY DEF LabelsAgree
  <2>1. ClaimsChat => (s \in ListingSurfaces("native") <=> ResponseTransportMode(s) = "native")
      BY DEF ListingSurfaces, ResponseTransportMode
  <2>2. ASSUME Transparent(s) PROVE ClaimsChat /\ ResponseTransportMode(s) = "native"
    <3>1. TransportInterfaces # {} BY <1>1, <2>2
    <3>2. PlanTransport(s, "any").disposition = "native" BY <2>2, PlanCases
    <3> QED BY <3>1, <3>2 DEF ClaimsChat, ResponseTransportMode
  <2> QED BY <2>1, <2>2
<1>4. TransportInv => SilentRowsServed
  <2> SUFFICES ASSUME TransportInv, daemon, sent.apis = <<>>, sent.legacy \in {"absent", "blank"},
                      sent.reported # Unreported =>
                        sent.reported.chat = "unknown" /\ \A s \in Surface : sent.reported.surfaces[s] = "unknown",
                      NEW s \in DaemonSurfaces
               PROVE  /\ InferCapabilities(row).surfaces[s] = "supported"
                      /\ Capabilities.surfaces[s] = IF sent.reported = Unreported THEN "supported" ELSE "unknown"
                      /\ stack # <<>> =>
                            /\ \E face \in TransportInterfaces : face.surface = s
                            /\ PlanTransport(s, "any").disposition # "reject"
      BY DEF SilentRowsServed
  <2>1. PICK i \in DOMAIN row.apis : row.apis[i] = SurfacePath(s) BY SilentRowCompleted
  <2>2. s \in Surface BY TransportConstants
  <2>3. ParseSurfacePath(row.apis[i]) = s /\ AdaptedSurface(row.apis[i]) = s /\ s # ""
      BY <2>1, <2>2, PathsRoundTrip
  <2>4. InferCapabilities(row).surfaces[s] = "supported" /\ InferCapabilities(row).chat = "supported"
    <3> DEFINE listed == {AdaptedSurface(row.apis[k]) : k \in DOMAIN row.apis} \ {""}
    <3>1. s \in listed BY <2>3
    <3>2. PICK surfaces : surfaces = [x \in Surface |-> IF x \in listed THEN "supported" ELSE "unknown"] OBVIOUS
    <3>3. surfaces[s] = "supported" BY <2>2, <3>1, <3>2
    <3>4. InferCapabilities(row) =
            [schema |-> 1, confidence |-> "medium", expires |-> 0, chat |-> "supported", surfaces |-> surfaces]
        BY <3>1, <3>2 DEF InferCapabilities
    <3>5. PICK c : c = [schema |-> 1, confidence |-> "medium", expires |-> 0, chat |-> "supported",
                        surfaces |-> surfaces] OBVIOUS
    <3>6. c.surfaces = surfaces /\ c.chat = "supported" BY <3>5
    <3> QED BY <3>3, <3>4, <3>5, <3>6
  <2>5. /\ Capabilities.surfaces[s] = IF sent.reported = Unreported THEN "supported" ELSE "unknown"
        /\ Capabilities.chat # "unsupported"
    <3>1. row.reported = sent.reported BY RowFields
    <3>2. CASE sent.reported = Unreported BY <2>4, <3>1, <3>2, CapabilityFields
    <3>3. CASE sent.reported # Unreported BY <2>2, <3>1, <3>3, CapabilityFields
    <3> QED BY <3>2, <3>3
  <2>6. ASSUME stack # <<>>
        PROVE  /\ \E face \in TransportInterfaces : face.surface = s
               /\ PlanTransport(s, "any").disposition # "reject"
    <3>1. PICK native \in {"supported", "unsupported"} :
            native = IF PreservesWireFor(s) THEN "supported" ELSE "unsupported"
        OBVIOUS
    <3>2. PICK face : face = [surface |-> s, native |-> native] OBVIOUS
    <3>3. face.surface = s /\ face.native = native BY <3>2
    <3>4. s \in {ParseSurfacePath(row.apis[k]) : k \in DOMAIN row.apis} \ {""} BY <2>1, <2>3
    <3>5. face \in TransportInterfaces BY <2>6, <3>1, <3>2, <3>4, Zenon DEF TransportInterfaces
    <3>6. SurfaceSupport(s) # "unsupported" /\ OperationSupport # "unsupported"
        BY <2>5 DEF SurfaceSupport, OperationSupport
    <3>7. CASE native = "supported"
      <4>1. ConfirmedNative(s) BY <3>3, <3>5, <3>6, <3>7 DEF ConfirmedNative
      <4> QED BY <3>3, <3>5, <3>6, <4>1, PlanCases
    <3>8. CASE native = "unsupported"
      <4>1. AdaptedInterface(s) BY <3>3, <3>5, <3>8 DEF AdaptedInterface
      <4> QED BY <3>3, <3>5, <3>6, <4>1, PlanCases
    <3> QED BY <3>1, <3>7, <3>8
  <2> QED BY <2>4, <2>5, <2>6
<1>5. TransportInv => TransportHonest BY <1>2, <1>3, <1>4 DEF TransportHonest
<1> QED BY <1>5, InitTransportInv, StepTransportInv, PTL DEF TransportSpec

\* Time alone never makes a plan transparent, and leaves its confidence or makes it low:
\* evidence only lapses (TransportEvidence.Capabilities).
THEOREM TrustLapses == TransportSpec => TrustOnlyLapses
<1>1. ASSUME TransportInv, TimePasses, NEW s \in Surface
      PROVE  /\ ~Transparent(s) => ~Transparent(s)'
             /\ \A requirement \in {"any", "native", "transparent"} :
                    PlanTransport(s, requirement)'.confidence
                        \in {"low", PlanTransport(s, requirement).confidence}
  <2>1. UNCHANGED <<stack, daemon, sent, row, refreshedAt, keyed>> /\ time' = time + 1 /\ time \in Nat
        /\ refreshedAt \in Nat /\ FreshFor \in Nat
      BY <1>1, TransportConstants DEF TimePasses, TransportInv
  <2>2. Capabilities' = Capabilities BY <2>1 DEF Capabilities, InferCapabilities
  <2>3. Usable' => Usable
      BY <1>1, <2>1, <2>2, CapabilityFields DEF Usable, IsFresh
  <2>4. \A x : PreservesWireFor(x)' <=> PreservesWireFor(x) BY <2>1 DEF PreservesWireFor
  <2>5. TransportInterfaces' = TransportInterfaces BY <2>1, <2>4 DEF TransportInterfaces
  <2>6. CASE ~Usable'
    <3>1. ~Trusted' BY <2>6 DEF Trusted
    <3>2. (Transparent(s) <=> Trusted /\ ConfirmedNative(s) /\ OperationSupport = "supported")'
        BY PlanCases, PTL
    <3>3. ASSUME NEW requirement \in {"any", "native", "transparent"}
          PROVE  PlanTransport(s, requirement)'.confidence = "low"
      <4>1. (~Trusted => PlanTransport(s, requirement).confidence = "low")' BY UntrustedIsLow, PTL
      <4> QED BY <3>1, <4>1
    <3> QED BY <3>1, <3>2, <3>3
  <2>7. CASE Usable'
    <3>1. /\ (Usable' <=> Usable) /\ (Trusted' <=> Trusted) /\ OperationSupport' = OperationSupport
          /\ SurfaceSupport(s)' = SurfaceSupport(s)
        BY <2>2, <2>3, <2>7 DEF Trusted, OperationSupport, SurfaceSupport
    <3>2. /\ ConfirmedNative(s)' <=> ConfirmedNative(s)
          /\ UnknownNative(s)' <=> UnknownNative(s)
          /\ AdaptedInterface(s)' <=> AdaptedInterface(s)
        BY <2>5, <3>1 DEF ConfirmedNative, UnknownNative, AdaptedInterface
    <3>3. \A b \in BOOLEAN : NativeTransport(b)' = NativeTransport(b)
        BY <3>1 DEF NativeTransport, EvidenceConfidence
    <3>4. \A requirement : PlanTransport(s, requirement)' = PlanTransport(s, requirement)
        BY <3>1, <3>2, <3>3 DEF PlanTransport, EvidenceConfidence
    <3> QED BY <3>4 DEF Transparent
  <2> QED BY <2>6, <2>7
<1>2. TransportInv /\ [TransportNext]_transportVars =>
        [TimePasses => \A s \in Surface :
            /\ ~Transparent(s) => ~Transparent(s)'
            /\ \A requirement \in {"any", "native", "transparent"} :
                    PlanTransport(s, requirement)'.confidence
                        \in {"low", PlanTransport(s, requirement).confidence}]_transportVars
    BY <1>1
<1> QED BY <1>2, InitTransportInv, StepTransportInv, PTL DEF TransportSpec, TrustOnlyLapses

----------------------------------------------------------------------------
(* One request of the Engine.                                              *)

RequestKinds == {"chat", "messages", "models"}
Places == {"idle", "authenticate", "targets", "next", "call", "relay", "failed", "closing"}
Outcomes == Ends \cup {"ok"}
Replies == [status : EngineStatuses, body : Seq(Written)]
Trial == [target : Provider, outcome : Outcomes]
UsageRecord == [target : Provider, status : {200, 502}]

\* Where the handler works on a target.
Serving == {"next", "call", "relay", "failed", "closing"}

\* Nothing was written, recorded or called.
Untouched == reply = NoReply /\ usage = <<>> /\ tried = <<>>

\* Everything written came from the target at work.
Sourced == \A i \in DOMAIN reply.body : reply.body[i].from = Target

\* Before the targets are known nothing has happened, and only the first request of
\* a behaviour begins.
Beginning ==
    /\ pc = "idle" /\ reply.status = 0 => Untouched
    /\ pc \in {"authenticate", "targets"} =>
        /\ Untouched /\ req.targets = <<>> /\ req.at = 1 /\ ~req.wrote /\ ~req.terminal
        /\ req.err = "nil" /\ req.pending = "nil"
    /\ pc = "targets" => req.kind # "models"

\* A target at work is one of the route's, and its usage is not recorded yet.
Working ==
    pc \in Serving =>
        /\ usage = <<>> /\ req.kind \in {"chat", "messages"} /\ req.at >= 1
        /\ req.targets # <<>> /\ (pc # "next" => req.at <= Len(req.targets))
        /\ (pc \in {"next", "failed"} => req.kind = "chat")
        /\ (pc = "closing" => req.kind = "messages")
        /\ (req.wrote => reply.status # 0)

\* A chat completion has failed over from targets that permitted it and wrote
\* nothing; only the relay writes, and only what its target sent.
ChatWorking ==
    pc \in Serving /\ req.kind = "chat" =>
        /\ ~req.wrote => reply = NoReply
        /\ pc # "relay" => ~req.wrote
        /\ pc = "relay" =>
            /\ Sourced
            /\ req.terminal => req.wrote /\ \E i \in DOMAIN reply.body : reply.body[i].what = "done"
        /\ \A i \in DOMAIN tried : tried[i].outcome = "eligible" \/ (pc = "failed" /\ i = Len(tried))
        /\ pc = "failed" => tried # <<>> /\ tried[Len(tried)].outcome \in Errors

\* A message is written as data until its stream has ended, and says how it ended.
MessagesWorking ==
    pc \in Serving /\ req.kind = "messages" =>
        /\ req.at = 1 /\ tried = <<>> /\ Sourced
        /\ \A i \in DOMAIN reply.body : reply.body[i].what = "data"
        /\ pc = "call" => reply = NoReply /\ ~req.wrote /\ ~req.terminal
        /\ pc \in {"call", "relay"} => req.err = "nil"
        /\ pc = "relay" => ~req.terminal
        /\ pc = "closing" /\ req.err = "nil" => req.terminal
        /\ ~req.wrote => reply = NoReply

EngineInv ==
    /\ EngineTypeOK
    /\ Beginning /\ Working /\ ChatWorking /\ MessagesWorking
    /\ OneSource /\ FailoverJustified /\ FinishedIsDone /\ UsageHonest

----------------------------------------------------------------------------
(* Replies.                                                                *)

\* Writing adds to the body, under a status.
LEMMA WriteAdds ==
    ASSUME NEW r \in Replies, NEW w \in Written
    PROVE  /\ Write(r, w) \in Replies /\ Write(r, w).status # 0
           /\ Write(r, w).body = Append(r.body, w)
<1>1. r.status \in EngineStatuses /\ r.body \in Seq(Written) BY DEF Replies
<1>2. PICK s \in EngineStatuses : s # 0 /\ s = IF r.status = 0 THEN 200 ELSE r.status
    BY <1>1 DEF EngineStatuses
<1>3. PICK b \in Seq(Written) : b = Append(r.body, w)
  <2>1. PICK old \in Seq(Written) : old = r.body BY <1>1
  <2>2. Append(old, w) \in Seq(Written) OBVIOUS
  <2> QED BY <2>1, <2>2
<1>4. PICK q : q = WriteStatus(r, 200) OBVIOUS
<1>5. q \in Replies /\ q.status = s /\ q.body = r.body BY <1>2, <1>4 DEF WriteStatus, Replies
<1>6. Write(r, w) = [q EXCEPT !.body = b] BY <1>3, <1>4, <1>5 DEF Write
<1>7. PICK x : x = [q EXCEPT !.body = b] OBVIOUS
<1>8. x \in Replies /\ x.status = s /\ x.body = b BY <1>5, <1>7 DEF Replies
<1> QED BY <1>2, <1>3, <1>6, <1>7, <1>8

\* The first status set is the reply's.
LEMMA StatusSet ==
    ASSUME NEW r \in Replies, NEW s \in EngineStatuses
    PROVE  WriteStatus(r, s) \in Replies /\ WriteStatus(r, s).body = r.body
<1>1. PICK q : q = WriteStatus(r, s) OBVIOUS
<1>2. q \in Replies /\ q.body = r.body BY <1>1 DEF WriteStatus, Replies
<1> QED BY <1>1, <1>2

\* An empty reply.
LEMMA EmptyReply == NoReply \in Replies /\ NoReply.body = <<>> /\ NoReply.status = 0
<1>1. PICK r : r = NoReply OBVIOUS
<1>2. <<>> \in Seq(Written) /\ 0 \in EngineStatuses BY DEF EngineStatuses
<1>3. r \in Replies /\ r.body = <<>> /\ r.status = 0 BY <1>1, <1>2 DEF NoReply, Replies
<1> QED BY <1>1, <1>3

\* A reply that was begun with its only line.
LEMMA OnlyLine ==
    ASSUME NEW w \in Written, NEW s \in EngineStatuses, NEW r,
           r = Write(WriteStatus(NoReply, s), w) \/ r = Write(NoReply, w)
    PROVE  /\ r \in Replies /\ r.status # 0 /\ Len(r.body) = 1
           /\ DOMAIN r.body = {1} /\ r.body[1] = w
<1>1. PICK q \in Replies : q.body = <<>> /\ r = Write(q, w) BY EmptyReply, StatusSet
<1>2. r \in Replies /\ r.status # 0 /\ r.body = Append(<<>>, w) BY <1>1, WriteAdds
<1> QED BY <1>2

\* The lines of a sequence that grew by one.
LEMMA Grown ==
    ASSUME NEW S, NEW s \in Seq(S), NEW e \in S, NEW t, t = Append(s, e)
    PROVE  /\ t \in Seq(S) /\ t # <<>> /\ Len(t) = Len(s) + 1 /\ t[Len(t)] = e /\ Len(s) \in Nat
           /\ DOMAIN s = 1..Len(s) /\ DOMAIN t = 1..Len(t)
           /\ \A i \in DOMAIN t : (i \in DOMAIN s /\ t[i] = s[i]) \/ (i = Len(t) /\ t[i] = e)
           /\ \A i \in DOMAIN s : i \in DOMAIN t /\ t[i] = s[i] /\ i < Len(t)
           /\ Len(t) \in DOMAIN t
<1>1. Len(s) \in Nat /\ DOMAIN s = 1..Len(s) OBVIOUS
<1>2. t \in Seq(S) /\ Len(t) = Len(s) + 1 /\ t[Len(s) + 1] = e /\ \A i \in 1..Len(s) : t[i] = s[i]
    BY <1>1
<1>3. DOMAIN t = 1..(Len(s) + 1) /\ t # <<>> BY <1>1, <1>2
<1>4. \A i \in 1..(Len(s) + 1) : i \in 1..Len(s) \/ i = Len(s) + 1 BY <1>1
<1>5. \A i \in 1..Len(s) : i \in 1..(Len(s) + 1) /\ i < Len(s) + 1 BY <1>1
<1>6. Len(s) + 1 \in 1..(Len(s) + 1) BY <1>1
<1> QED BY <1>1, <1>2, <1>3, <1>4, <1>5, <1>6

\* A place of a sequence before its last.
LEMMA ButLast ==
    ASSUME NEW S, NEW s \in Seq(S), NEW i \in 1..(Len(s) - 1)
    PROVE  i \in DOMAIN s /\ i # Len(s)
OBVIOUS

----------------------------------------------------------------------------
(* The ends of a request.                                                  *)

ErrorLine == [from |-> "engine", what |-> "error"]

\* The Engine's error is a line of its own.
LEMMA ErrorLineType == ErrorLine \in Written /\ ErrorLine.from = "engine" /\ ErrorLine.what = "error"
BY DEF ErrorLine, Written

\* A request refused before any target's usage is due.
LEMMA RefusedInv ==
    ASSUME reply = NoReply, usage = <<>>, usage' = usage, providers' \in [Provider -> Offers],
           req' \in Request, NEW status \in EngineStatuses, Refused(status),
           tried' \in Seq(Trial), Len(tried') <= 1,
           ~(req'.kind = "chat" /\ req'.targets # <<>>)
    PROVE  EngineInv'
<1>1. /\ reply' \in Replies /\ reply'.status # 0 /\ Len(reply'.body) = 1 /\ DOMAIN reply'.body = {1}
      /\ reply'.body[1] = ErrorLine
    BY OnlyLine, ErrorLineType DEF Refused, ErrorLine
<1>2. pc' = "idle" BY DEF Refused, Goto
<1>3. Len(tried') \in Nat /\ Len(usage') = 0 /\ usage' \in Seq([target : Provider, status : {200, 502}]) OBVIOUS
<1>4. EngineTypeOK' BY <1>1, <1>2, <1>3 DEF EngineTypeOK, Replies, Trial, Outcomes
<1>5. Beginning' /\ Working' /\ ChatWorking' /\ MessagesWorking'
    BY <1>1, <1>2 DEF Beginning, Working, ChatWorking, MessagesWorking, Serving
<1>6. OneSource' BY <1>1, ErrorLineType DEF OneSource
<1>7. FailoverJustified' BY <1>3 DEF FailoverJustified
<1>8. FinishedIsDone' BY <1>1, ErrorLineType DEF FinishedIsDone
<1>9. UsageHonest' BY <1>3 DEF UsageHonest
<1> QED BY <1>4, <1>5, <1>6, <1>7, <1>8, <1>9 DEF EngineInv

\* A chat completion no target is left for, or whose failure no other would make up.
LEMMA ExhaustedInv ==
    ASSUME reply = NoReply, usage = <<>>, NEW at, req.targets[at] \in Provider, Exhausted(at),
           providers' \in [Provider -> Offers], req' \in Request, req'.kind = "chat",
           tried' \in Seq(Trial), FailoverJustified',
           tried' # <<>> => tried'[Len(tried')].outcome # "ok"
    PROVE  EngineInv'
<1>1. /\ reply' \in Replies /\ reply'.status # 0 /\ Len(reply'.body) = 1 /\ DOMAIN reply'.body = {1}
      /\ reply'.body[1] = ErrorLine
    BY OnlyLine, ErrorLineType DEF Exhausted, ErrorLine, EngineStatuses
<1>2. pc' = "idle" BY DEF Exhausted, Goto
<1>3. PICK u : u = [target |-> req.targets[at], status |-> 502] OBVIOUS
<1>4. u \in UsageRecord /\ u.status = 502 BY <1>3 DEF UsageRecord
<1>5. usage' = <<u>> BY <1>3 DEF Exhausted, Telemetry
<1>6. usage' \in Seq(UsageRecord) /\ Len(usage') = 1 /\ usage'[1] = u BY <1>4, <1>5
<1>7. EngineTypeOK' BY <1>1, <1>2, <1>6 DEF EngineTypeOK, Replies, Trial, Outcomes, UsageRecord
<1>8. Beginning' /\ Working' /\ ChatWorking' /\ MessagesWorking'
    BY <1>1, <1>2 DEF Beginning, Working, ChatWorking, MessagesWorking, Serving
<1>9. OneSource' BY <1>1, ErrorLineType DEF OneSource
<1>10. FinishedIsDone' BY <1>1, ErrorLineType DEF FinishedIsDone
<1>11. UsageHonest' BY <1>4, <1>6 DEF UsageHonest
<1> QED BY <1>7, <1>8, <1>9, <1>10, <1>11 DEF EngineInv

----------------------------------------------------------------------------
(* The steps of a request that goes on.                                    *)

\* A chat completion that has written nothing.
LEMMA ChatGoesOn ==
    ASSUME providers' \in [Provider -> Offers], req' \in Request, req'.kind = "chat", req'.at >= 1,
           req'.targets # <<>>, pc' \in {"next", "call", "relay", "failed"},
           pc' # "next" => req'.at <= Len(req'.targets),
           ~req'.wrote, pc' = "relay" => ~req'.terminal, reply' = NoReply, usage' = <<>>,
           tried' \in Seq(Trial),
           \A i \in DOMAIN tried' :
              tried'[i].outcome = "eligible" \/ (pc' = "failed" /\ i = Len(tried')),
           pc' = "failed" => tried' # <<>> /\ tried'[Len(tried')].outcome \in Errors
    PROVE  EngineInv'
<1>1. reply' \in Replies /\ reply'.status = 0 /\ DOMAIN reply'.body = {} BY EmptyReply
<1>2. usage' \in Seq(UsageRecord) /\ Len(usage') = 0 OBVIOUS
<1>3. EngineTypeOK' BY <1>1, <1>2 DEF EngineTypeOK, Replies, Trial, Outcomes, UsageRecord
<1>4. Beginning' BY DEF Beginning
<1>5. Working' BY DEF Working
<1>6. ChatWorking' BY <1>1 DEF ChatWorking, Sourced
<1>7. MessagesWorking' BY DEF MessagesWorking
<1>8. OneSource' /\ FinishedIsDone' BY <1>1 DEF OneSource, FinishedIsDone
<1>9. FailoverJustified'
  <2>1. SUFFICES ASSUME NEW i \in 1..(Len(tried') - 1) PROVE tried'[i].outcome = "eligible"
      BY DEF FailoverJustified
  <2>2. i \in DOMAIN tried' /\ i # Len(tried') BY ButLast
  <2> QED BY <2>2
<1>10. UsageHonest' BY <1>2 DEF UsageHonest
<1> QED BY <1>3, <1>4, <1>5, <1>6, <1>7, <1>8, <1>9, <1>10 DEF EngineInv

\* A chat stream that has written what its target sent.
LEMMA ChatWritten ==
    ASSUME providers' \in [Provider -> Offers], req' \in Request, req'.kind = "chat", req'.at >= 1,
           req'.targets # <<>>, pc' = "relay", req'.at <= Len(req'.targets), req'.wrote,
           reply' \in Replies, reply'.status # 0, usage' = <<>>, tried' \in Seq(Trial), Sourced',
           req'.terminal => \E i \in DOMAIN reply'.body : reply'.body[i].what = "done",
           \A i \in DOMAIN tried' : tried'[i].outcome = "eligible"
    PROVE  EngineInv'
<1>1. Target' \in Provider
  <2>1. PICK ts \in Seq(Provider) : ts = req'.targets BY DEF Request
  <2>2. PICK at \in Nat : at = req'.at BY DEF Request
  <2>3. ts[at] \in Provider BY <2>1, <2>2
  <2> QED BY <2>1, <2>2, <2>3 DEF Target
<1>2. usage' \in Seq(UsageRecord) /\ Len(usage') = 0 OBVIOUS
<1>3. EngineTypeOK' BY <1>2 DEF EngineTypeOK, Replies, Trial, Outcomes, UsageRecord
<1>4. Beginning' BY DEF Beginning
<1>5. Working' BY DEF Working
<1>6. ChatWorking' BY DEF ChatWorking
<1>7. MessagesWorking' BY DEF MessagesWorking
<1>8. OneSource' BY <1>1, EngineConstants DEF OneSource, Sourced
<1>9. FinishedIsDone' BY DEF FinishedIsDone
<1>10. FailoverJustified'
  <2>1. SUFFICES ASSUME NEW i \in 1..(Len(tried') - 1) PROVE tried'[i].outcome = "eligible"
      BY DEF FailoverJustified
  <2>2. i \in DOMAIN tried' BY ButLast
  <2> QED BY <2>2
<1>11. UsageHonest' BY <1>2 DEF UsageHonest
<1> QED BY <1>3, <1>4, <1>5, <1>6, <1>7, <1>8, <1>9, <1>10, <1>11 DEF EngineInv

\* A chat completion that ends with what its target wrote.
LEMMA ChatServed ==
    ASSUME providers' \in [Provider -> Offers], req' \in Request, req'.kind = "chat", pc' = "idle",
           reply' \in Replies, reply'.status # 0, NEW p \in Provider,
           \A i \in DOMAIN reply'.body : reply'.body[i].from = p,
           NEW old \in Seq(Trial), \A i \in DOMAIN old : old[i].outcome = "eligible",
           NEW outcome \in Outcomes,
           tried' = Append(old, [target |-> p, outcome |-> outcome]), usage = <<>>,
           Telemetry(p, IF outcome = "ok" THEN 200 ELSE 502),
           outcome = "ok" => \E i \in DOMAIN reply'.body : reply'.body[i].what \in {"done", "complete"}
    PROVE  EngineInv'
<1>1. PICK e : e = [target |-> p, outcome |-> outcome] OBVIOUS
<1>2. e \in Trial BY <1>1 DEF Trial
<1>3. tried' = Append(old, e) BY <1>1
<1>4. /\ tried' \in Seq(Trial) /\ tried' # <<>> /\ tried'[Len(tried')] = e
      /\ DOMAIN tried' = 1..Len(tried') /\ Len(tried') \in Nat
      /\ \A i \in DOMAIN tried' : (i \in DOMAIN old /\ tried'[i] = old[i]) \/ (i = Len(tried') /\ tried'[i] = e)
    BY <1>2, <1>3, Grown
<1>5. PICK status \in {200, 502} : status = IF outcome = "ok" THEN 200 ELSE 502
  <2>1. CASE outcome = "ok" BY <2>1
  <2>2. CASE outcome # "ok" BY <2>2
  <2> QED BY <2>1, <2>2
<1>6. PICK u : u = [target |-> p, status |-> status]
    BY ZenonT(30)
<1>7. /\ u \in UsageRecord /\ u.target = p /\ (u.status = 200 => outcome = "ok") /\ (u.status = 502 => outcome # "ok")
      /\ usage' = <<u>>
  <2>1. u \in UsageRecord /\ u.target = p /\ u.status = status BY <1>6 DEF UsageRecord
  <2>2. (status = 200 => outcome = "ok") /\ (status = 502 => outcome # "ok") BY <1>5
  <2>3. Telemetry(p, status) BY <1>5
  <2>4. usage' = <<u>> BY <2>3, <1>6 DEF Telemetry
  <2> QED BY <2>1, <2>2, <2>4
<1>8. usage' \in Seq(UsageRecord) /\ Len(usage') = 1 /\ usage'[1] = u BY <1>7
<1>9. EngineTypeOK' BY <1>4, <1>8 DEF EngineTypeOK, Replies, Trial, Outcomes, UsageRecord
<1>10. Beginning' /\ Working' /\ ChatWorking' /\ MessagesWorking'
    BY DEF Beginning, Working, ChatWorking, MessagesWorking, Serving
<1>11. OneSource' BY EngineConstants DEF OneSource
<1>12. FinishedIsDone' BY DEF FinishedIsDone
<1>13. FailoverJustified'
  <2>1. SUFFICES ASSUME NEW i \in 1..(Len(tried') - 1) PROVE tried'[i].outcome = "eligible"
      BY DEF FailoverJustified
  <2>2. i \in DOMAIN tried' /\ i # Len(tried') BY <1>4
  <2> QED BY <2>2, <1>4
<1>14. UsageHonest'
  <2>1. usage'[1].status = 200 => tried'[Len(tried')] = [target |-> usage'[1].target, outcome |-> "ok"]
      BY <1>1, <1>4, <1>7, <1>8
  <2>2. usage'[1].status = 502 => tried'[Len(tried')].outcome # "ok"
    <3>1. e.outcome = outcome BY <1>1
    <3> QED BY <3>1, <1>4, <1>7, <1>8
  <2>3. usage'[1].status = 200 => \E i \in DOMAIN reply'.body :
            reply'.body[i].from = usage'[1].target /\ reply'.body[i].what \in {"done", "complete"}
      BY <1>7, <1>8
  <2> QED BY <2>1, <2>2, <2>3, <1>8 DEF UsageHonest
<1> QED BY <1>9, <1>10, <1>11, <1>12, <1>13, <1>14 DEF EngineInv

\* A message that is being relayed.
LEMMA MessagesGoOn ==
    ASSUME providers' \in [Provider -> Offers], req' \in Request, req'.kind = "messages", req'.at = 1,
           req'.targets # <<>>, pc' \in {"call", "relay", "closing"}, reply' \in Replies,
           usage' = <<>>, tried' = <<>>, MessagesWorking', req'.wrote => reply'.status # 0
    PROVE  EngineInv'
<1>1. Target' \in Provider /\ Len(req'.targets) >= 1
  <2>1. PICK ts \in Seq(Provider) : ts = req'.targets BY DEF Request
  <2>2. ts[1] \in Provider /\ Len(ts) >= 1 BY <2>1
  <2> QED BY <2>1, <2>2 DEF Target
<1>2. usage' \in Seq(UsageRecord) /\ Len(usage') = 0 OBVIOUS
<1>3. tried' \in Seq(Trial) /\ Len(tried') = 0 OBVIOUS
<1>4. EngineTypeOK' BY <1>2, <1>3 DEF EngineTypeOK, Replies, Trial, Outcomes, UsageRecord
<1>5. Beginning' BY DEF Beginning
<1>6. Working' BY <1>1 DEF Working
<1>7. ChatWorking' BY DEF ChatWorking
<1>8. /\ \A i \in DOMAIN reply'.body : reply'.body[i].from = Target'
      /\ \A i \in DOMAIN reply'.body : reply'.body[i].what = "data"
    BY DEF MessagesWorking, Sourced, Serving
<1>9. OneSource' BY <1>8 DEF OneSource
<1>10. FinishedIsDone' BY <1>8 DEF FinishedIsDone
<1>11. FailoverJustified' BY <1>3 DEF FailoverJustified
<1>12. UsageHonest' BY <1>2 DEF UsageHonest
<1> QED BY <1>4, <1>5, <1>6, <1>7, <1>9, <1>10, <1>11, <1>12 DEF EngineInv

\* A message that ended.
LEMMA MessagesEnded ==
    ASSUME providers' \in [Provider -> Offers], req' \in Request, req'.kind = "messages", pc' = "idle",
           reply' \in Replies, reply'.status # 0, usage' = <<>>, NEW p,
           \A i \in DOMAIN reply'.body : reply'.body[i].from = p \/ reply'.body[i].from = "engine",
           tried' \in Seq(Trial), Len(tried') <= 1, FinishedIsDone'
    PROVE  EngineInv'
<1>1. usage' \in Seq(UsageRecord) /\ Len(usage') = 0 OBVIOUS
<1>2. EngineTypeOK' BY <1>1 DEF EngineTypeOK, Replies, Trial, Outcomes, UsageRecord
<1>3. Beginning' /\ Working' /\ ChatWorking' /\ MessagesWorking'
    BY DEF Beginning, Working, ChatWorking, MessagesWorking, Serving
<1>4. OneSource' BY DEF OneSource
<1>5. FailoverJustified'
  <2>1. Len(tried') \in Nat OBVIOUS
  <2> QED BY <2>1 DEF FailoverJustified
<1>6. UsageHonest' BY <1>1 DEF UsageHonest
<1> QED BY <1>2, <1>3, <1>4, <1>5, <1>6 DEF EngineInv

----------------------------------------------------------------------------
(* The steps of a handler.                                                 *)

\* What a step finds: the types of the request and of its histories.
LEMMA Found ==
    ASSUME EngineInv
    PROVE  /\ providers \in [Provider -> Offers] /\ req \in Request /\ reply \in Replies
           /\ usage \in Seq(UsageRecord) /\ tried \in Seq(Trial)
           /\ req.targets \in Seq(Provider) /\ req.at \in Nat /\ req.frames \in Nat
           /\ req.pending \in Ends /\ req.err \in Ends
           /\ pc \in Serving /\ pc # "next" => Target \in Provider
<1>1. /\ providers \in [Provider -> Offers] /\ req \in Request /\ reply \in Replies
      /\ usage \in Seq(UsageRecord) /\ tried \in Seq(Trial)
    BY DEF EngineInv, EngineTypeOK, Replies, UsageRecord, Trial, Outcomes
<1>2. req.targets \in Seq(Provider) /\ req.at \in Nat /\ req.frames \in Nat
      /\ req.pending \in Ends /\ req.err \in Ends
    BY <1>1 DEF Request
<1>3. ASSUME pc \in Serving, pc # "next" PROVE Target \in Provider
  <2>1. req.at >= 1 /\ req.at <= Len(req.targets) BY <1>3 DEF EngineInv, Working
  <2>2. PICK ts \in Seq(Provider) : ts = req.targets BY <1>2
  <2>3. PICK at \in Nat : at = req.at BY <1>2
  <2>4. ts[at] \in Provider BY <2>1, <2>2, <2>3
  <2> QED BY <2>2, <2>3, <2>4 DEF Target
<1> QED BY <1>1, <1>2, <1>3

\* A request begins.
LEMMA BeginInv ==
    ASSUME EngineInv, NEW kind \in RequestKinds, NEW stream \in BOOLEAN, Begin(kind, stream)
    PROVE  EngineInv'
<1>1. Untouched BY EmptyReply DEF Begin, EngineInv, Beginning
<1>2. /\ UNCHANGED <<providers, reply, usage, tried>> /\ pc' = "authenticate"
      /\ req' = [NoRequest EXCEPT !.kind = kind, !.stream = stream]
    BY DEF Begin, Goto
<1>3. PICK r : r = NoRequest OBVIOUS
<1>4. <<>> \in Seq(Provider) /\ "nil" \in Ends BY DEF Ends
<1>5. /\ r \in Request /\ r.targets = <<>> /\ r.at = 1 /\ ~r.wrote /\ ~r.terminal
      /\ r.err = "nil" /\ r.pending = "nil"
    BY <1>3, <1>4 DEF NoRequest, Request
<1>6. req' = [r EXCEPT !.kind = kind, !.stream = stream] BY <1>2, <1>3
<1>7. /\ req' \in Request /\ req'.targets = <<>> /\ req'.at = 1 /\ ~req'.wrote /\ ~req'.terminal
      /\ req'.err = "nil" /\ req'.pending = "nil"
    BY <1>5, <1>6 DEF Request, RequestKinds
<1>8. reply \in Replies /\ DOMAIN reply.body = {} BY <1>1, EmptyReply DEF Untouched
<1>9. Len(usage) = 0 /\ Len(tried) = 0 BY <1>1 DEF Untouched
<1>10. EngineTypeOK' BY <1>2, <1>7 DEF EngineInv, EngineTypeOK
<1>11. Beginning' /\ Working' /\ ChatWorking' /\ MessagesWorking'
    BY <1>1, <1>2, <1>7 DEF Untouched, Beginning, Working, ChatWorking, MessagesWorking, Serving
<1>12. OneSource' /\ FinishedIsDone' BY <1>2, <1>8 DEF OneSource, FinishedIsDone
<1>13. FailoverJustified' /\ UsageHonest' BY <1>1, <1>2, <1>9 DEF Untouched, FailoverJustified, UsageHonest
<1> QED BY <1>10, <1>11, <1>12, <1>13 DEF EngineInv

\* A product replaces a provider, or a client leaves: nothing the invariant is about.
LEMMA OutsideInv ==
    ASSUME EngineInv, Disconnect \/ \E id \in Provider, offer \in Offers : Register(id, offer)
    PROVE  EngineInv'
<1>1. providers' \in [Provider -> Offers] /\ UNCHANGED <<pc, reply, usage, tried>>
    BY Found DEF Disconnect, Register
<1>2. req' = req \/ req' = [req EXCEPT !.ended = TRUE] BY DEF Disconnect, Register
<1>3. /\ req' \in Request /\ req'.kind = req.kind /\ req'.stream = req.stream
      /\ req'.targets = req.targets /\ req'.at = req.at /\ req'.wrote = req.wrote
      /\ req'.terminal = req.terminal /\ req'.err = req.err /\ req'.pending = req.pending
    BY <1>2, Found DEF Request
<1>4. Target' = Target BY <1>3 DEF Target
<1>5. EngineTypeOK' BY <1>1, <1>3 DEF EngineInv, EngineTypeOK
<1>6. Beginning' /\ Working' BY <1>1, <1>3 DEF EngineInv, Beginning, Working, Untouched
<1>7. ChatWorking' BY <1>1, <1>3, <1>4 DEF EngineInv, ChatWorking, Sourced
<1>8. MessagesWorking' BY <1>1, <1>3, <1>4 DEF EngineInv, MessagesWorking, Sourced
<1>9. OneSource' /\ FinishedIsDone' BY <1>1, <1>3 DEF EngineInv, OneSource, FinishedIsDone
<1>10. FailoverJustified' /\ UsageHonest' BY <1>1, <1>3 DEF EngineInv, FailoverJustified, UsageHonest
<1> QED BY <1>5, <1>6, <1>7, <1>8, <1>9, <1>10 DEF EngineInv

\* A request is refused, answered with the models, or let through.
LEMMA AuthenticateInv ==
    ASSUME EngineInv, Authenticate
    PROVE  EngineInv'
<1>1. /\ Untouched /\ req.targets = <<>> /\ UNCHANGED <<providers, req, usage, tried>>
      /\ req.at = 1 /\ ~req.wrote /\ ~req.terminal /\ req.err = "nil" /\ req.pending = "nil"
    BY DEF Authenticate, EngineInv, Beginning
<1>2. providers' \in [Provider -> Offers] /\ req' \in Request BY <1>1, Found
<1>3. tried' \in Seq(Trial) /\ Len(tried') = 0 /\ reply = NoReply /\ usage' = <<>> BY <1>1 DEF Untouched
<1>4. ASSUME NEW status \in {401, 400}, Refused(status) PROVE EngineInv'
  <2>1. status \in EngineStatuses BY DEF EngineStatuses
  <2> QED BY <1>1, <1>2, <1>3, <1>4, <2>1, RefusedInv
<1>5. ASSUME req.kind = "models", reply' = Write(reply, [from |-> "engine", what |-> "models"]), pc' = "idle"
      PROVE  EngineInv'
  <2>1. PICK w : w = [from |-> "engine", what |-> "models"] OBVIOUS
  <2>2. w \in Written /\ w.from = "engine" /\ w.what = "models" BY <2>1 DEF Written
  <2>3. reply' = Write(NoReply, w) /\ 200 \in EngineStatuses BY <1>3, <1>5, <2>1 DEF EngineStatuses
  <2>4. reply' \in Replies /\ reply'.status # 0 /\ Len(reply'.body) = 1
        /\ DOMAIN reply'.body = {1} /\ reply'.body[1] = w
      BY <2>2, <2>3, OnlyLine
  <2>5. EngineTypeOK' BY <1>1, <1>2, <1>5, <2>4 DEF EngineInv, EngineTypeOK, Replies
  <2>6. Beginning' /\ Working' /\ ChatWorking' /\ MessagesWorking'
      BY <1>5, <2>4 DEF Beginning, Working, ChatWorking, MessagesWorking, Serving
  <2>7. OneSource' /\ FinishedIsDone' BY <2>2, <2>4 DEF OneSource, FinishedIsDone
  <2>8. FailoverJustified' /\ UsageHonest' BY <1>1, <1>3 DEF FailoverJustified, UsageHonest
  <2> QED BY <2>5, <2>6, <2>7, <2>8 DEF EngineInv
<1>6. ASSUME req.kind # "models", pc' = "targets", reply' = reply PROVE EngineInv'
  <2>1. EngineTypeOK' BY <1>1, <1>6 DEF EngineInv, EngineTypeOK
  <2>2. Beginning' /\ Working' /\ ChatWorking' /\ MessagesWorking'
      BY <1>1, <1>6 DEF Untouched, Beginning, Working, ChatWorking, MessagesWorking, Serving
  <2>3. OneSource' /\ FinishedIsDone' BY <1>3, <1>6, EmptyReply DEF OneSource, FinishedIsDone
  <2>4. FailoverJustified' /\ UsageHonest' BY <1>1, <1>3, <1>6 DEF FailoverJustified, UsageHonest
  <2> QED BY <2>1, <2>2, <2>3, <2>4 DEF EngineInv
<1> QED BY <1>4, <1>5, <1>6 DEF Authenticate, Goto

\* What is left of a route is a list of providers.
LEMMA PickedType ==
    ASSUME NEW route \in Routes, NEW n \in 0..Len(route), NEW places \in [1..n -> 1..Len(route)]
    PROVE  Picked(route, places) \in Seq(Provider)
<1>1. route \in Seq(Provider) BY EngineConstants
<1>2. Len(route) \in Nat /\ \A k \in 1..Len(route) : route[k] \in Provider BY <1>1
<1>3. n \in Nat /\ DOMAIN places = 1..n BY <1>2
<1>4. Picked(route, places) \in [1..n -> Provider] BY <1>2, <1>3 DEF Picked
<1> QED BY <1>3, <1>4

\* The targets are resolved.
LEMMA ResolveTargetsInv ==
    ASSUME EngineInv, NEW route \in Routes, NEW allowed, NEW n \in 0..Len(route),
           NEW places \in [1..n -> 1..Len(route)], ResolveTargets(route, allowed, places)
    PROVE  EngineInv'
<1>1. PICK targets \in Seq(Provider) : targets = Picked(route, places) BY PickedType
<1>2. /\ pc = "targets" /\ req' = [req EXCEPT !.targets = targets]
      /\ UNCHANGED <<providers, usage, tried>>
    BY <1>1 DEF ResolveTargets
<1>3. /\ Untouched /\ req.at = 1 /\ ~req.wrote /\ ~req.terminal /\ req.kind # "models"
      /\ req.err = "nil" /\ req.pending = "nil"
    BY <1>2 DEF EngineInv, Beginning
<1>4. /\ req' \in Request /\ req'.targets = targets /\ req'.kind = req.kind /\ req'.at = 1
      /\ ~req'.wrote /\ ~req'.terminal /\ req'.err = "nil" /\ req'.pending = "nil"
    BY <1>2, <1>3, Found DEF Request
<1>5. /\ providers' \in [Provider -> Offers] /\ reply = NoReply /\ usage = <<>> /\ usage' = usage
      /\ tried' = <<>> /\ tried' \in Seq(Trial) /\ Len(tried') = 0 /\ DOMAIN tried' = {}
    BY <1>2, <1>3, Found DEF Untouched
<1>6. 404 \in EngineStatuses /\ 502 \in EngineStatuses BY DEF EngineStatuses
<1>7. ASSUME targets = <<>>, Refused(404) PROVE EngineInv'
    BY <1>4, <1>5, <1>6, <1>7, RefusedInv
<1>8. ASSUME targets # <<>>, req.kind = "chat", pc' = "next", reply' = reply PROVE EngineInv'
    BY <1>4, <1>5, <1>8, ChatGoesOn
<1>9. ASSUME req.kind = "messages", Refused(502) PROVE EngineInv'
    BY <1>4, <1>5, <1>6, <1>9, RefusedInv
<1>10. ASSUME targets # <<>>, req.kind = "messages", pc' = "call", reply' = reply PROVE EngineInv'
  <2>1. reply' \in Replies /\ DOMAIN reply'.body = {} BY <1>5, <1>10, EmptyReply
  <2>2. MessagesWorking' BY <1>4, <1>5, <1>10, <2>1 DEF MessagesWorking, Sourced
  <2> QED BY <1>4, <1>5, <1>10, <2>1, <2>2, MessagesGoOn
<1> QED BY <1>1, <1>7, <1>8, <1>9, <1>10 DEF ResolveTargets, Goto

\* The handler turns to the next target.
LEMMA Advanced ==
    ASSUME req \in Request, NextTarget
    PROVE  /\ req' \in Request /\ req'.kind = req.kind /\ req'.targets = req.targets
           /\ req'.wrote = req.wrote /\ req'.at >= 1
<1>1. req.at \in Nat BY DEF Request
<1>2. PICK n \in Nat : n = req.at + 1 BY <1>1
<1>3. req' = [req EXCEPT !.at = n, !.open = FALSE, !.frames = 0] BY <1>2 DEF NextTarget
<1>4. /\ req' \in Request /\ req'.kind = req.kind /\ req'.targets = req.targets
      /\ req'.wrote = req.wrote /\ req'.at = n
    BY <1>3 DEF Request
<1> QED BY <1>1, <1>2, <1>4

\* A target failed before anything was written: another is tried, or the error sent.
LEMMA FailOverInv ==
    ASSUME EngineInv, pc \in {"next", "call", "failed"}, req.kind = "chat",
           req.at <= Len(req.targets), NEW err \in Errors, FailOver(err), providers' = providers,
           tried' \in Seq(Trial),
           \A i \in DOMAIN tried' :
              tried'[i].outcome = "eligible" \/ (i = Len(tried') /\ tried'[i].outcome = err)
    PROVE  EngineInv'
<1>1. /\ usage = <<>> /\ req.at >= 1 /\ req.targets # <<>> /\ ~req.wrote /\ reply = NoReply
    BY DEF EngineInv, Working, ChatWorking, Serving
<1>2. req \in Request /\ providers' \in [Provider -> Offers] /\ req.at \in Nat BY Found
<1>3. ASSUME MayFailOver(err), NextTarget, pc' = "next", UNCHANGED <<reply, usage>> PROVE EngineInv'
  <2>1. /\ req' \in Request /\ req'.kind = "chat" /\ req'.targets = req.targets
        /\ ~req'.wrote /\ req'.at >= 1
      BY <1>1, <1>2, <1>3, Advanced
  <2>2. err = "eligible" BY <1>3 DEF MayFailOver
  <2> QED BY <1>1, <1>2, <1>3, <2>1, <2>2, ChatGoesOn
<1>4. ASSUME req' = [req EXCEPT !.open = FALSE], Exhausted(req.at) PROVE EngineInv'
  <2>1. req' \in Request /\ req'.kind = "chat" BY <1>2, <1>4 DEF Request
  <2>2. req.targets[req.at] \in Provider
    <3>1. PICK ts \in Seq(Provider) : ts = req.targets BY Found
    <3>2. PICK at \in Nat : at = req.at BY <1>2
    <3>3. ts[at] \in Provider BY <1>1, <3>1, <3>2
    <3> QED BY <3>1, <3>2, <3>3
  <2>3. FailoverJustified'
    <3>1. SUFFICES ASSUME NEW i \in 1..(Len(tried') - 1) PROVE tried'[i].outcome = "eligible"
        BY DEF FailoverJustified
    <3>2. i \in DOMAIN tried' /\ i # Len(tried') BY ButLast
    <3> QED BY <3>2
  <2>4. ASSUME tried' # <<>> PROVE tried'[Len(tried')].outcome # "ok"
    <3>1. Len(tried') \in DOMAIN tried' BY <2>4
    <3>2. "eligible" # "ok" /\ err # "ok" BY DEF Errors
    <3> QED BY <3>1, <3>2
  <2> QED BY <1>1, <1>2, <1>4, <2>1, <2>2, <2>3, <2>4, ExhaustedInv
<1> QED BY <1>3, <1>4 DEF FailOver, Goto

\* The head of the loop over the targets.
LEMMA ChatTargetInv ==
    ASSUME EngineInv, ChatTarget
    PROVE  EngineInv'
<1>1. /\ pc = "next" /\ usage = <<>> /\ req.at >= 1 /\ req.targets # <<>> /\ req.kind = "chat"
      /\ ~req.wrote /\ reply = NoReply /\ \A i \in DOMAIN tried : tried[i].outcome = "eligible"
    BY DEF ChatTarget, EngineInv, Working, ChatWorking, Serving
<1>2. req \in Request /\ req.targets \in Seq(Provider) /\ tried \in Seq(Trial) BY Found
<1>3. providers' = providers /\ providers' \in [Provider -> Offers] /\ tried' = tried
    BY Found DEF ChatTarget
<1>4. ASSUME Exhausted(Len(req.targets)), req' = req PROVE EngineInv'
  <2>1. PICK ts \in Seq(Provider) : ts = req.targets BY <1>2
  <2>2. ts[Len(ts)] \in Provider BY <1>1, <2>1
  <2>3. FailoverJustified'
    <3>1. SUFFICES ASSUME NEW i \in 1..(Len(tried) - 1) PROVE tried[i].outcome = "eligible"
        BY <1>3 DEF FailoverJustified
    <3>2. i \in DOMAIN tried BY <1>2, ButLast
    <3> QED BY <1>1, <3>2
  <2>4. ASSUME tried # <<>> PROVE tried[Len(tried)].outcome # "ok"
    <3>1. Len(tried) \in DOMAIN tried BY <1>2, <2>4
    <3> QED BY <1>1, <3>1
  <2> QED BY <1>1, <1>2, <1>3, <1>4, <2>1, <2>2, <2>3, <2>4, ExhaustedInv
<1>5. ASSUME req.at <= Len(req.targets), NEW err \in Errors, FailOver(err) PROVE EngineInv'
    BY <1>1, <1>2, <1>3, <1>5, FailOverInv
<1>6. ASSUME req.at <= Len(req.targets), pc' = "call", UNCHANGED <<req, reply, usage>> PROVE EngineInv'
    BY <1>1, <1>2, <1>3, <1>6, ChatGoesOn
<1>7. ASSUME NextTarget, pc' = "next", UNCHANGED <<reply, usage>> PROVE EngineInv'
  <2>1. /\ req' \in Request /\ req'.kind = "chat" /\ req'.targets = req.targets
        /\ ~req'.wrote /\ req'.at >= 1
      BY <1>1, <1>2, <1>7, Advanced
  <2> QED BY <1>1, <1>2, <1>3, <1>7, <2>1, ChatGoesOn
<1> QED BY <1>4, <1>5, <1>6, <1>7 DEF ChatTarget, Goto

\* A reply written by one target.
LEMMA LineOf ==
    ASSUME NEW p \in Provider, NEW what \in {"data", "done", "comment", "complete"}, NEW w,
           w = [from |-> p, what |-> what]
    PROVE  w \in Written /\ w.from = p /\ w.what = what
<1>1. p \in Provider \cup {"engine"}
      /\ what \in {"data", "done", "comment", "complete", "models", "error"} OBVIOUS
<1> QED BY <1>1 DEF Written

\* The call of a target: it fails, opens a stream, or completes.
LEMMA ChatCallInv ==
    ASSUME EngineInv, ChatCall
    PROVE  EngineInv'
<1>1. /\ pc = "call" /\ usage = <<>> /\ req.at >= 1 /\ req.targets # <<>> /\ req.kind = "chat"
      /\ req.at <= Len(req.targets)
      /\ ~req.wrote /\ reply = NoReply /\ \A i \in DOMAIN tried : tried[i].outcome = "eligible"
    BY DEF ChatCall, EngineInv, Working, ChatWorking, Serving
<1>2. req \in Request /\ tried \in Seq(Trial) BY Found
<1>3. Target \in Provider BY <1>1, Found DEF Serving
<1>4. providers' = providers /\ providers' \in [Provider -> Offers] BY Found DEF ChatCall
<1>5. ASSUME NEW err \in Errors, Tried(err), FailOver(err) PROVE EngineInv'
  <2>1. PICK e : e = [target |-> Target, outcome |-> err] OBVIOUS
  <2>2. e \in Trial /\ e.outcome = err BY <1>3, <2>1 DEF Trial, Outcomes, Ends
  <2>3. tried' = Append(tried, e) BY <1>5, <2>1 DEF Tried
  <2>4. /\ tried' \in Seq(Trial)
        /\ \A i \in DOMAIN tried' : (i \in DOMAIN tried /\ tried'[i] = tried[i]) \/ (i = Len(tried') /\ tried'[i] = e)
      BY <1>2, <2>2, <2>3, Grown
  <2> QED BY <1>1, <1>4, <1>5, <2>2, <2>4, FailOverInv
<1>6. ASSUME req' = [req EXCEPT !.open = TRUE, !.terminal = FALSE], pc' = "relay",
             UNCHANGED <<reply, usage, tried>>
      PROVE  EngineInv'
  <2>1. /\ req' \in Request /\ req'.kind = "chat" /\ req'.targets = req.targets
        /\ req'.at = req.at /\ ~req'.wrote /\ ~req'.terminal
      BY <1>1, <1>2, <1>6 DEF Request
  <2> QED BY <1>1, <1>2, <1>4, <1>6, <2>1, ChatGoesOn
<1>7. ASSUME Tried("ok"), reply' = Write(reply, [from |-> Target, what |-> "complete"]),
             Telemetry(Target, 200), pc' = "idle", req' = req
      PROVE  EngineInv'
  <2>1. PICK w : w = [from |-> Target, what |-> "complete"] OBVIOUS
  <2>2. w \in Written /\ w.from = Target /\ w.what = "complete" BY <1>3, <2>1, LineOf
  <2>3. reply' = Write(NoReply, w) /\ 200 \in EngineStatuses BY <1>1, <1>7, <2>1 DEF EngineStatuses
  <2>4. reply' \in Replies /\ reply'.status # 0 /\ DOMAIN reply'.body = {1} /\ reply'.body[1] = w
      BY <2>2, <2>3, OnlyLine
  <2>5. "ok" \in Outcomes BY DEF Outcomes
  <2>6. tried' = Append(tried, [target |-> Target, outcome |-> "ok"]) BY <1>7 DEF Tried
  <2> QED BY <1>1, <1>2, <1>3, <1>4, <1>7, <2>2, <2>4, <2>5, <2>6, ChatServed
<1> QED BY <1>5, <1>6, <1>7 DEF ChatCall, Goto

\* A stream that failed before it wrote anything.
LEMMA ChatUnwrittenInv ==
    ASSUME EngineInv, ChatUnwritten
    PROVE  EngineInv'
<1>1. pc = "failed" /\ FailOver(tried[Len(tried)].outcome) /\ providers' = providers /\ tried' = tried
    BY DEF ChatUnwritten
<1>2. /\ req.kind = "chat" /\ req.at <= Len(req.targets)
      /\ tried # <<>> /\ tried[Len(tried)].outcome \in Errors
      /\ \A i \in DOMAIN tried : tried[i].outcome = "eligible" \/ i = Len(tried)
    BY <1>1 DEF EngineInv, Working, ChatWorking, Serving
<1>3. tried \in Seq(Trial) BY Found
<1> QED BY <1>1, <1>2, <1>3, FailOverInv

\* The end of a chat stream: it failed with nothing written, or its usage is recorded.
LEMMA ChatEndInv ==
    ASSUME EngineInv, pc = "relay", req.kind = "chat", providers' = providers,
           req' \in Request, req'.kind = "chat", req'.targets = req.targets, req'.at = req.at,
           reply' \in Replies, \A i \in DOMAIN reply'.body : reply'.body[i].from = Target,
           ~req'.wrote => reply' = NoReply, req'.wrote => reply'.status # 0,
           NEW err \in Errors \cup {"nil"}, ChatEnd(err),
           err = "nil" => \E i \in DOMAIN reply'.body : reply'.body[i].what = "done"
    PROVE  EngineInv'
<1>1. /\ usage = <<>> /\ req.at >= 1 /\ req.targets # <<>> /\ req.at <= Len(req.targets)
      /\ \A i \in DOMAIN tried : tried[i].outcome = "eligible"
    BY DEF EngineInv, Working, ChatWorking, Serving
<1>2. tried \in Seq(Trial) /\ providers' \in [Provider -> Offers] /\ Target \in Provider
    BY Found DEF Serving
<1>3. PICK closing \in Errors \cup {"nil"} :
        LET failed == IF err = "nil" THEN closing ELSE err
        IN /\ Tried(IF failed = "nil" THEN "ok" ELSE failed)
           /\ \/ /\ failed # "nil" /\ ~req'.wrote
                 /\ Goto("failed") /\ UNCHANGED usage
              \/ /\ failed = "nil" \/ req'.wrote
                 /\ Telemetry(Target, IF failed = "nil" THEN 200 ELSE 502)
                 /\ Goto("idle")
    BY DEF ChatEnd
<1>4. PICK failed \in Errors \cup {"nil"} : failed = IF err = "nil" THEN closing ELSE err OBVIOUS
<1>5. PICK outcome \in Outcomes : outcome = IF failed = "nil" THEN "ok" ELSE failed
    BY DEF Outcomes, Ends
<1>6. (outcome = "ok" <=> failed = "nil") /\ (failed # "nil" => outcome = failed)
    BY <1>5 DEF Errors
<1>7. tried' = Append(tried, [target |-> Target, outcome |-> outcome]) BY <1>3, <1>4, <1>5 DEF Tried
<1>8. \/ failed # "nil" /\ ~req'.wrote /\ pc' = "failed" /\ usage' = usage
      \/ /\ failed = "nil" \/ req'.wrote
         /\ Telemetry(Target, IF failed = "nil" THEN 200 ELSE 502) /\ pc' = "idle"
    BY <1>3, <1>4 DEF Goto
<1>9. ASSUME failed # "nil", ~req'.wrote, pc' = "failed", usage' = usage PROVE EngineInv'
  <2>1. PICK e : e = [target |-> Target, outcome |-> outcome] OBVIOUS
  <2>2. e \in Trial /\ e.outcome = failed /\ failed \in Errors BY <1>2, <1>6, <1>9, <2>1 DEF Trial
  <2>3. tried' = Append(tried, e) BY <1>7, <2>1
  <2>4. /\ tried' \in Seq(Trial) /\ tried' # <<>> /\ tried'[Len(tried')] = e
        /\ \A i \in DOMAIN tried' : (i \in DOMAIN tried /\ tried'[i] = tried[i]) \/ (i = Len(tried') /\ tried'[i] = e)
      BY <1>2, <2>2, <2>3, Grown
  <2>5. \A i \in DOMAIN tried' : tried'[i].outcome = "eligible" \/ (pc' = "failed" /\ i = Len(tried'))
      BY <1>1, <1>9, <2>4
  <2> QED BY <1>1, <1>2, <1>9, <2>2, <2>4, <2>5, ChatGoesOn
<1>10. ASSUME failed = "nil" \/ req'.wrote, Telemetry(Target, IF failed = "nil" THEN 200 ELSE 502), pc' = "idle"
       PROVE  EngineInv'
  <2>1. err = "nil" => req'.wrote BY EmptyReply
  <2>2. reply'.status # 0
    <3>1. failed = "nil" => err = "nil" BY <1>4
    <3> QED BY <1>10, <2>1, <3>1
  <2>3. outcome = "ok" => \E i \in DOMAIN reply'.body : reply'.body[i].what \in {"done", "complete"}
    <3>1. outcome = "ok" => err = "nil" BY <1>4, <1>6
    <3> QED BY <3>1
  <2>4. Telemetry(Target, IF outcome = "ok" THEN 200 ELSE 502) BY <1>6, <1>10
  <2> QED BY <1>1, <1>2, <1>7, <1>10, <2>2, <2>3, <2>4, ChatServed
<1> QED BY <1>8, <1>9, <1>10

\* One record of a chat stream.
LEMMA ChatRelayInv ==
    ASSUME EngineInv, NEW frame \in Frames, NEW end \in Ends, ChatRelay(frame, end)
    PROVE  EngineInv'
<1>1. /\ pc = "relay" /\ req.kind = "chat" /\ providers' = providers
      /\ frame # "none" \/ end # "nil"
    BY DEF ChatRelay
<1>2. /\ usage = <<>> /\ req.at >= 1 /\ req.targets # <<>> /\ req.at <= Len(req.targets)
      /\ (~req.wrote => reply = NoReply) /\ (req.wrote => reply.status # 0)
      /\ (req.terminal => req.wrote /\ \E i \in DOMAIN reply.body : reply.body[i].what = "done")
      /\ \A i \in DOMAIN tried : tried[i].outcome = "eligible"
      /\ \A i \in DOMAIN reply.body : reply.body[i].from = Target
    BY <1>1 DEF EngineInv, Working, ChatWorking, Sourced, Serving
<1>3. /\ req \in Request /\ reply \in Replies /\ tried \in Seq(Trial) /\ req.frames \in Nat
      /\ providers' \in [Provider -> Offers] /\ Target \in Provider
    BY <1>1, Found DEF Serving
<1>4. CASE frame # "none" /\ req.terminal
  <2>1. req' = [req EXCEPT !.open = FALSE, !.err = "terminal"] /\ reply' = reply /\ ChatEnd("terminal")
      BY <1>4 DEF ChatRelay
  <2>2. "terminal" \in Errors /\ "terminal" \in Ends /\ "terminal" # "nil" BY DEF Errors, Ends
  <2>3. /\ req' \in Request /\ req'.kind = "chat" /\ req'.targets = req.targets
        /\ req'.at = req.at /\ req'.wrote = req.wrote
      BY <1>1, <1>3, <2>1, <2>2 DEF Request
  <2> QED BY <1>1, <1>2, <1>3, <2>1, <2>2, <2>3, ChatEndInv
<1>5. CASE ~(frame # "none" /\ req.terminal)
  <2>1. PICK terminal \in BOOLEAN : terminal <=> (req.terminal \/ frame = "done") OBVIOUS
  <2>2. PICK err \in Errors \cup {"nil"} :
            /\ err = CASE end = "eof" -> IF req.terminal \/ frame = "done" THEN "nil" ELSE "terminal" [] OTHER -> end
            /\ err = "nil" /\ end # "nil" => req.terminal \/ frame = "done"
      BY DEF Ends, Errors
  <2>3. err \in Ends BY DEF Ends
  <2>4. PICK wrote \in BOOLEAN : wrote <=> (req.wrote \/ frame # "none") OBVIOUS
  <2>5. PICK n \in Nat : n = req.frames + 1 BY <1>3
  <2>6. PICK open \in BOOLEAN : open <=> end = "nil" OBVIOUS
  <2>7. /\ req'.wrote = wrote /\ req'.terminal = terminal /\ req' \in Request /\ req'.kind = "chat"
        /\ req'.targets = req.targets /\ req'.at = req.at
    <3>1. req' = [req EXCEPT !.wrote = req.wrote \/ frame # "none", !.terminal = (req.terminal \/ frame = "done"),
                             !.frames = n, !.open = (end = "nil"), !.err = err]
        BY <1>5, <2>2, <2>5 DEF ChatRelay
    <3>2. req' = [req EXCEPT !.wrote = wrote, !.terminal = terminal, !.frames = n, !.open = open, !.err = err]
      <4>1. req.wrote \in BOOLEAN BY <1>3 DEF Request
      <4>2. req.terminal \in BOOLEAN BY <1>3 DEF Request
      <4> QED BY <3>1, <4>1, <4>2, <2>1, <2>4, <2>6
    <3> QED BY <1>1, <1>3, <2>3, <3>2 DEF Request
  <2>8. \/ end # "nil" /\ ChatEnd(err)
        \/ end = "nil" /\ pc' = "relay" /\ UNCHANGED <<usage, tried>>
      BY <1>5, <2>2 DEF ChatRelay, Goto
  <2>9. reply' = IF frame = "none" THEN reply ELSE Write(reply, [from |-> Target, what |-> frame])
      BY <1>5 DEF ChatRelay
  <2>10. /\ reply' \in Replies /\ \A i \in DOMAIN reply'.body : reply'.body[i].from = Target
         /\ (~wrote => reply' = NoReply) /\ (wrote => reply'.status # 0)
         /\ (terminal => \E i \in DOMAIN reply'.body : reply'.body[i].what = "done")
    <3>1. CASE frame = "none" BY <1>2, <1>3, <2>1, <2>4, <2>9, <3>1
    <3>2. CASE frame # "none"
      <4>1. frame \in {"data", "done", "comment", "complete"} BY <3>2 DEF Frames
      <4>2. PICK w : w = [from |-> Target, what |-> frame] OBVIOUS
      <4>3. w \in Written /\ w.from = Target /\ w.what = frame BY <1>3, <4>1, <4>2, LineOf
      <4>4. reply' = Write(reply, w) BY <2>9, <3>2, <4>2
      <4>5. reply' \in Replies /\ reply'.status # 0 /\ reply'.body = Append(reply.body, w)
          BY <1>3, <4>3, <4>4, WriteAdds
      <4>6. PICK old \in Seq(Written) : old = reply.body BY <1>3 DEF Replies
      <4>7. PICK new : new = reply'.body OBVIOUS
      <4>8. new = Append(old, w) BY <4>5, <4>6, <4>7
      <4>9. /\ \A i \in DOMAIN new : (i \in DOMAIN old /\ new[i] = old[i]) \/ (i = Len(new) /\ new[i] = w)
            /\ \A i \in DOMAIN old : i \in DOMAIN new /\ new[i] = old[i]
            /\ Len(new) \in DOMAIN new /\ new[Len(new)] = w
          BY <4>3, <4>8, Grown
      <4>10. \A i \in DOMAIN new : new[i].from = Target BY <1>2, <4>3, <4>6, <4>9
      <4>11. terminal => \E i \in DOMAIN new : new[i].what = "done"
          BY <1>2, <2>1, <4>3, <4>6, <4>9
      <4> QED BY <2>4, <3>2, <4>5, <4>7, <4>10, <4>11
    <3> QED BY <3>1, <3>2
  <2>11. ASSUME end # "nil", ChatEnd(err) PROVE EngineInv'
    <3>1. err = "nil" => \E i \in DOMAIN reply'.body : reply'.body[i].what = "done"
        BY <2>1, <2>2, <2>10, <2>11
    <3> QED BY <1>1, <2>7, <2>10, <2>11, <3>1, ChatEndInv
  <2>12. ASSUME end = "nil", pc' = "relay", UNCHANGED <<usage, tried>> PROVE EngineInv'
    <3>1. wrote BY <1>1, <2>4, <2>12
    <3>2. Target' = Target BY <2>7 DEF Target
    <3>3. Sourced' BY <2>10, <3>2 DEF Sourced
    <3> QED BY <1>2, <1>3, <2>7, <2>10, <2>12, <3>1, <3>3, ChatWritten
  <2> QED BY <2>8, <2>11, <2>12
<1> QED BY <1>4, <1>5

\* A handler of messages finds its first target at work, and what it wrote is data.
LEMMA MessagesFound ==
    ASSUME EngineInv, pc \in {"call", "relay", "closing"}, req.kind = "messages"
    PROVE  /\ usage = <<>> /\ tried = <<>> /\ req.at = 1 /\ req.targets # <<>> /\ Target \in Provider
           /\ \A i \in DOMAIN reply.body : reply.body[i].from = Target /\ reply.body[i].what = "data"
           /\ (req.wrote => reply.status # 0) /\ (~req.wrote => reply = NoReply)
<1>1. pc \in Serving /\ pc # "next" BY DEF Serving
<1> QED BY <1>1, Found DEF EngineInv, Working, MessagesWorking, Sourced

\* A line of the target is added to the reply.
LEMMA LineAdded ==
    ASSUME NEW r \in Replies, NEW w \in Written, NEW new, new = Write(r, w)
    PROVE  /\ new \in Replies /\ new.status # 0
           /\ \A i \in DOMAIN new.body : (i \in DOMAIN r.body /\ new.body[i] = r.body[i]) \/ new.body[i] = w
<1>1. new \in Replies /\ new.status # 0 /\ new.body = Append(r.body, w) BY WriteAdds
<1>2. PICK old \in Seq(Written) : old = r.body BY DEF Replies
<1>3. PICK body : body = new.body OBVIOUS
<1>4. body = Append(old, w) BY <1>1, <1>2, <1>3
<1>5. \A i \in DOMAIN body : (i \in DOMAIN old /\ body[i] = old[i]) \/ body[i] = w BY <1>4, Grown
<1> QED BY <1>1, <1>2, <1>3, <1>5

\* One call recorded in the history.
LEMMA TriedOnce ==
    ASSUME NEW p \in Provider, NEW outcome \in Outcomes, tried = <<>>,
           tried' = Append(tried, [target |-> p, outcome |-> outcome])
    PROVE  tried' \in Seq(Trial) /\ Len(tried') = 1
<1>1. PICK e : e = [target |-> p, outcome |-> outcome] OBVIOUS
<1>2. e \in Trial BY <1>1 DEF Trial
<1>3. tried' = <<e>> BY <1>1
<1> QED BY <1>2, <1>3

\* The call of a message's target: it fails, opens a stream, completes, or cannot.
LEMMA MessagesCallInv ==
    ASSUME EngineInv, MessagesCall
    PROVE  EngineInv'
<1>1. pc = "call" /\ req.kind = "messages" /\ UNCHANGED <<providers, usage>> BY DEF MessagesCall
<1>2. /\ usage = <<>> /\ tried = <<>> /\ req.at = 1 /\ req.targets # <<>> /\ Target \in Provider
    BY <1>1, MessagesFound
<1>3. reply = NoReply /\ ~req.wrote /\ ~req.terminal /\ req.err = "nil"
    BY <1>1 DEF EngineInv, MessagesWorking, Serving
<1>4. req \in Request /\ providers' \in [Provider -> Offers] BY <1>1, Found
<1>5. 501 \in EngineStatuses /\ 502 \in EngineStatuses /\ 200 \in EngineStatuses BY DEF EngineStatuses
<1>6. ASSUME NEW err \in Errors, Tried(err), Refused(502), req' = req PROVE EngineInv'
  <2>1. err \in Outcomes BY DEF Outcomes, Ends
  <2>2. tried' \in Seq(Trial) /\ Len(tried') = 1 BY <1>2, <1>6, <2>1, TriedOnce DEF Tried
  <2> QED BY <1>1, <1>2, <1>3, <1>4, <1>5, <1>6, <2>2, RefusedInv
<1>7. ASSUME req' = [req EXCEPT !.open = TRUE], pc' = "relay", UNCHANGED <<reply, tried>> PROVE EngineInv'
  <2>1. /\ req' \in Request /\ req'.kind = "messages" /\ req'.targets = req.targets /\ req'.at = 1
        /\ ~req'.wrote /\ ~req'.terminal /\ req'.err = "nil"
      BY <1>1, <1>2, <1>3, <1>4, <1>7 DEF Request
  <2>2. reply' = NoReply /\ reply' \in Replies /\ DOMAIN reply'.body = {} BY <1>3, <1>7, EmptyReply
  <2>3. MessagesWorking' BY <1>2, <1>7, <2>1, <2>2 DEF MessagesWorking, Sourced
  <2> QED BY <1>1, <1>2, <1>4, <1>7, <2>1, <2>2, <2>3, MessagesGoOn
<1>8. ASSUME Tried("ok"), reply' = Write(reply, [from |-> Target, what |-> "complete"]), pc' = "idle", req' = req
      PROVE  EngineInv'
  <2>1. PICK w : w = [from |-> Target, what |-> "complete"] OBVIOUS
  <2>2. w \in Written /\ w.from = Target /\ w.what = "complete" BY <1>2, <2>1, LineOf
  <2>3. reply' = Write(NoReply, w) BY <1>3, <1>8, <2>1
  <2>4. reply' \in Replies /\ reply'.status # 0 /\ DOMAIN reply'.body = {1} /\ reply'.body[1] = w
      BY <1>5, <2>2, <2>3, OnlyLine
  <2>5. "ok" \in Outcomes BY DEF Outcomes
  <2>6. tried' \in Seq(Trial) /\ Len(tried') = 1 BY <1>2, <1>8, <2>5, TriedOnce DEF Tried
  <2>7. FinishedIsDone' BY <2>2, <2>4 DEF FinishedIsDone
  <2>8. PICK p : p = Target OBVIOUS
  <2>9. \A i \in DOMAIN reply'.body : reply'.body[i].from = p \/ reply'.body[i].from = "engine"
      BY <2>2, <2>4, <2>8
  <2>10. usage' = <<>> /\ req' \in Request /\ req'.kind = "messages" /\ Len(tried') <= 1
      BY <1>1, <1>2, <1>4, <1>8, <2>6
  <2> QED BY <1>4, <1>8, <2>4, <2>6, <2>7, <2>9, <2>10, MessagesEnded
<1>9. ASSUME Refused(501), UNCHANGED <<req, tried>> PROVE EngineInv'
  <2>1. tried' \in Seq(Trial) /\ Len(tried') = 0 BY <1>2, <1>9
  <2> QED BY <1>1, <1>2, <1>3, <1>4, <1>5, <1>9, <2>1, RefusedInv
<1> QED BY <1>6, <1>7, <1>8, <1>9 DEF MessagesCall, Goto

\* One record of a message's stream.
LEMMA MessagesRelayInv ==
    ASSUME EngineInv, NEW frame \in Frames, NEW end \in Ends, MessagesRelay(frame, end)
    PROVE  EngineInv'
<1>1. /\ pc = "relay" /\ req.kind = "messages" /\ UNCHANGED <<providers, usage, tried>>
      /\ frame # "none" \/ end # "nil"
    BY DEF MessagesRelay
<1>2. /\ usage = <<>> /\ tried = <<>> /\ req.at = 1 /\ req.targets # <<>> /\ Target \in Provider
      /\ \A i \in DOMAIN reply.body : reply.body[i].from = Target /\ reply.body[i].what = "data"
      /\ (req.wrote => reply.status # 0) /\ (~req.wrote => reply = NoReply)
    BY <1>1, MessagesFound
<1>3. ~req.terminal /\ req.err = "nil" BY <1>1 DEF EngineInv, MessagesWorking, Serving
<1>4. req \in Request /\ reply \in Replies /\ req.frames \in Nat /\ providers' \in [Provider -> Offers]
    BY <1>1, Found
<1>5. PICK n \in Nat : n = req.frames + 1 BY <1>4
<1>6. PICK next : next = [req EXCEPT !.frames = n, !.pending = end] OBVIOUS
<1>7. next = [req EXCEPT !.frames = @ + 1, !.pending = end] BY <1>5, <1>6
<1>8. /\ next \in Request /\ next.kind = "messages" /\ next.targets = req.targets /\ next.at = 1
      /\ next.wrote = req.wrote /\ next.terminal = req.terminal /\ next.err = "nil"
    BY <1>1, <1>2, <1>3, <1>4, <1>6 DEF Request
<1>9. ASSUME frame = "none", req' = [req EXCEPT !.err = IF end = "eof" THEN "terminal" ELSE end],
             pc' = "closing", reply' = reply
      PROVE  EngineInv'
  <2>1. PICK err \in Ends : err # "nil" /\ err = IF end = "eof" THEN "terminal" ELSE end
      BY <1>1, <1>9 DEF Ends, Errors
  <2>2. req' = [req EXCEPT !.err = err] BY <1>9, <2>1
  <2>3. /\ req' \in Request /\ req'.kind = "messages" /\ req'.targets = req.targets /\ req'.at = 1
        /\ req'.wrote = req.wrote /\ req'.err = err
      BY <1>1, <1>2, <1>4, <2>2 DEF Request
  <2>4. Target' = Target BY <1>2, <2>3 DEF Target
  <2>5. MessagesWorking' BY <1>1, <1>2, <1>9, <2>1, <2>3, <2>4 DEF MessagesWorking, Sourced
  <2> QED BY <1>1, <1>2, <1>4, <1>9, <2>3, <2>5, MessagesGoOn
<1>10. ASSUME req' = [next EXCEPT !.pending = "nil", !.terminal = TRUE], pc' = "closing", reply' = reply
       PROVE  EngineInv'
  <2>1. "nil" \in Ends BY DEF Ends
  <2>2. /\ req' \in Request /\ req'.kind = "messages" /\ req'.targets = req.targets /\ req'.at = 1
        /\ req'.wrote = req.wrote /\ req'.terminal
      BY <1>8, <1>10, <2>1 DEF Request
  <2>3. Target' = Target BY <1>2, <2>2 DEF Target
  <2>4. MessagesWorking' BY <1>1, <1>2, <1>10, <2>2, <2>3 DEF MessagesWorking, Sourced
  <2> QED BY <1>1, <1>2, <1>4, <1>10, <2>2, <2>4, MessagesGoOn
<1>11. ASSUME req' = [next EXCEPT !.wrote = TRUE], pc' = pc,
              reply' = Write(reply, [from |-> Target, what |-> "data"])
       PROVE  EngineInv'
  <2>1. /\ req' \in Request /\ req'.kind = "messages" /\ req'.targets = req.targets /\ req'.at = 1
        /\ req'.wrote /\ req'.terminal = req.terminal /\ req'.err = "nil"
      BY <1>8, <1>11 DEF Request
  <2>2. PICK w : w = [from |-> Target, what |-> "data"] OBVIOUS
  <2>3. w \in Written /\ w.from = Target /\ w.what = "data" BY <1>2, <2>2, LineOf
  <2>4. reply' = Write(reply, w) BY <1>11, <2>2
  <2>5. /\ reply' \in Replies /\ reply'.status # 0
        /\ \A i \in DOMAIN reply'.body : (i \in DOMAIN reply.body /\ reply'.body[i] = reply.body[i]) \/ reply'.body[i] = w
      BY <1>4, <2>3, <2>4, LineAdded
  <2>6. \A i \in DOMAIN reply'.body : reply'.body[i].from = Target /\ reply'.body[i].what = "data"
      BY <1>2, <2>3, <2>5
  <2>7. Target' = Target BY <1>2, <2>1 DEF Target
  <2>8. MessagesWorking' BY <1>1, <1>2, <1>3, <1>11, <2>1, <2>6, <2>7 DEF MessagesWorking, Sourced
  <2> QED BY <1>1, <1>2, <1>4, <1>11, <2>1, <2>5, <2>8, MessagesGoOn
<1>12. ASSUME req' = next, pc' = pc, reply' = reply PROVE EngineInv'
  <2>1. Target' = Target BY <1>2, <1>8, <1>12 DEF Target
  <2>2. MessagesWorking' BY <1>1, <1>2, <1>3, <1>8, <1>12, <2>1 DEF MessagesWorking, Sourced
  <2> QED BY <1>1, <1>2, <1>4, <1>8, <1>12, <2>2, MessagesGoOn
<1> QED BY <1>7, <1>9, <1>10, <1>11, <1>12 DEF MessagesRelay, Goto

\* The error that came beside the last frame.
LEMMA MessagesPendingInv ==
    ASSUME EngineInv, MessagesPending
    PROVE  EngineInv'
<1>1. /\ pc = "relay" /\ req.kind = "messages" /\ req.pending # "nil" /\ pc' = "closing"
      /\ req' = [req EXCEPT !.err = req.pending] /\ UNCHANGED <<providers, reply, usage, tried>>
    BY DEF MessagesPending, Goto
<1>2. /\ usage = <<>> /\ tried = <<>> /\ req.at = 1 /\ req.targets # <<>> /\ Target \in Provider
      /\ \A i \in DOMAIN reply.body : reply.body[i].from = Target /\ reply.body[i].what = "data"
      /\ (req.wrote => reply.status # 0) /\ (~req.wrote => reply = NoReply)
    BY <1>1, MessagesFound
<1>3. req \in Request /\ reply \in Replies /\ req.pending \in Ends /\ providers' \in [Provider -> Offers]
    BY <1>1, Found
<1>4. /\ req' \in Request /\ req'.kind = "messages" /\ req'.targets = req.targets /\ req'.at = 1
      /\ req'.wrote = req.wrote /\ req'.err = req.pending
    BY <1>1, <1>2, <1>3 DEF Request
<1>5. Target' = Target BY <1>2, <1>4 DEF Target
<1>6. MessagesWorking' BY <1>1, <1>2, <1>4, <1>5 DEF MessagesWorking, Sourced
<1> QED BY <1>1, <1>2, <1>3, <1>4, <1>6, MessagesGoOn

\* A message ends as its stream did: closed, refused, or broken off.
LEMMA MessagesEndInv ==
    ASSUME EngineInv, MessagesEnd
    PROVE  EngineInv'
<1>1. /\ pc = "closing" /\ req.kind = "messages" /\ pc' = "idle" /\ UNCHANGED <<providers, usage>>
      /\ req' = [req EXCEPT !.open = FALSE] /\ Tried(IF req.err = "nil" THEN "ok" ELSE req.err)
    BY DEF MessagesEnd, Goto
<1>2. /\ usage = <<>> /\ tried = <<>> /\ Target \in Provider
      /\ \A i \in DOMAIN reply.body : reply.body[i].from = Target /\ reply.body[i].what = "data"
      /\ (req.wrote => reply.status # 0) /\ (~req.wrote => reply = NoReply)
    BY <1>1, MessagesFound
<1>3. req.err = "nil" => req.terminal BY <1>1 DEF EngineInv, MessagesWorking, Serving
<1>4. req \in Request /\ reply \in Replies /\ req.err \in Ends /\ providers' \in [Provider -> Offers]
    BY <1>1, Found
<1>5. req' \in Request /\ req'.kind = "messages" /\ req'.terminal = req.terminal /\ req'.err = req.err
    BY <1>1, <1>4 DEF Request
<1>6. tried' \in Seq(Trial) /\ Len(tried') = 1
  <2>1. PICK outcome \in Outcomes : outcome = IF req.err = "nil" THEN "ok" ELSE req.err
      BY <1>4 DEF Outcomes
  <2>2. tried' = Append(tried, [target |-> Target, outcome |-> outcome]) BY <1>1, <2>1 DEF Tried
  <2> QED BY <1>2, <2>1, <2>2, TriedOnce
<1>7. SUFFICES /\ reply' \in Replies /\ reply'.status # 0
               /\ \A i \in DOMAIN reply'.body : reply'.body[i].from = Target \/ reply'.body[i].from = "engine"
               /\ req.err = "nil" \/ \A i \in DOMAIN reply'.body : reply'.body[i].what # "done"
  <2>1. FinishedIsDone' BY <1>3, <1>5, <1>7 DEF FinishedIsDone
  <2>2. PICK p : p = Target OBVIOUS
  <2>3. \A i \in DOMAIN reply'.body : reply'.body[i].from = p \/ reply'.body[i].from = "engine"
      BY <1>7, <2>2
  <2>4. usage' = <<>> /\ Len(tried') <= 1 BY <1>1, <1>2, <1>6
  <2> QED BY <1>1, <1>4, <1>5, <1>6, <1>7, <2>1, <2>3, <2>4, MessagesEnded
<1>8. CASE req.err = "nil"
  <2>1. PICK w : w = [from |-> Target, what |-> "done"] OBVIOUS
  <2>2. w \in Written /\ w.from = Target BY <1>2, <2>1, LineOf
  <2>3. reply' = Write(reply, w) BY <1>8, <2>1 DEF MessagesEnd, Closing
  <2> QED BY <1>2, <1>4, <1>8, <2>2, <2>3, LineAdded
<1>9. CASE req.err # "nil" /\ ~req.wrote
  <2>1. reply' = Write(WriteStatus(NoReply, 502), ErrorLine) BY <1>2, <1>9 DEF MessagesEnd, Closing, ErrorLine
  <2>2. 502 \in EngineStatuses BY DEF EngineStatuses
  <2>3. reply' \in Replies /\ reply'.status # 0 /\ DOMAIN reply'.body = {1} /\ reply'.body[1] = ErrorLine
      BY <2>1, <2>2, ErrorLineType, OnlyLine
  <2> QED BY <2>3, ErrorLineType
<1>10. CASE req.err # "nil" /\ req.wrote
  <2>1. reply' = reply \/ reply' = Write(reply, ErrorLine) BY <1>10 DEF MessagesEnd, Closing, ErrorLine
  <2>2. CASE reply' = reply BY <1>2, <1>4, <1>10, <2>2
  <2>3. CASE reply' = Write(reply, ErrorLine)
    <3>1. /\ reply' \in Replies /\ reply'.status # 0
          /\ \A i \in DOMAIN reply'.body :
                (i \in DOMAIN reply.body /\ reply'.body[i] = reply.body[i]) \/ reply'.body[i] = ErrorLine
        BY <1>4, <2>3, ErrorLineType, LineAdded
    <3> QED BY <1>2, <3>1, ErrorLineType
  <2> QED BY <2>1, <2>2, <2>3
<1> QED BY <1>8, <1>9, <1>10

----------------------------------------------------------------------------
(* The theorem.                                                            *)

\* The Engine starts within the invariant.
LEMMA EngineInitInv == EngineInit => EngineInv
<1> SUFFICES ASSUME EngineInit PROVE EngineInv OBVIOUS
<1>1. /\ providers \in [Provider -> Offers] /\ req = NoRequest /\ pc = "idle" /\ reply = NoReply
      /\ usage = <<>> /\ tried = <<>>
    BY DEF EngineInit
<1>2. <<>> \in Seq(Provider) /\ "nil" \in Ends BY DEF Ends
<1>3. req \in Request /\ req.kind = "models" BY <1>1, <1>2 DEF NoRequest, Request
<1>4. reply \in Replies /\ DOMAIN reply.body = {} BY <1>1, EmptyReply
<1>5. usage \in Seq(UsageRecord) /\ Len(usage) = 0 BY <1>1
<1>6. tried \in Seq(Trial) /\ Len(tried) = 0 BY <1>1
<1>7. EngineTypeOK BY <1>1, <1>3, <1>4, <1>5, <1>6 DEF EngineTypeOK, Replies, UsageRecord, Trial, Outcomes
<1>8. Beginning /\ Working /\ ChatWorking /\ MessagesWorking
    BY <1>1 DEF Untouched, Beginning, Working, ChatWorking, MessagesWorking, Serving
<1>9. OneSource /\ FinishedIsDone BY <1>4 DEF OneSource, FinishedIsDone
<1>10. FailoverJustified /\ UsageHonest BY <1>1, <1>3, <1>5, <1>6 DEF FailoverJustified, UsageHonest
<1> QED BY <1>7, <1>8, <1>9, <1>10 DEF EngineInv

\* Every step of the Engine, its products and its clients keeps the invariant.
LEMMA EngineStepInv == EngineInv /\ [EngineNext]_engineVars => EngineInv'
<1> SUFFICES ASSUME EngineInv, [EngineNext]_engineVars PROVE EngineInv' OBVIOUS
<1>1. ASSUME NEW kind \in {"chat", "messages", "models"}, NEW stream \in BOOLEAN, Begin(kind, stream)
      PROVE  EngineInv'
    BY <1>1, BeginInv DEF RequestKinds
<1>2. ASSUME Disconnect \/ \E id \in Provider, offer \in Offers : Register(id, offer) PROVE EngineInv'
    BY <1>2, OutsideInv
<1>3. ASSUME NEW route \in Routes, NEW allowed \in SUBSET Provider, NEW n \in 0..Len(route),
             NEW places \in [1..n -> 1..Len(route)], ResolveTargets(route, allowed, places)
      PROVE  EngineInv'
    BY <1>3, ResolveTargetsInv
<1>4. ASSUME NEW frame \in Frames, NEW end \in Ends, ChatRelay(frame, end) \/ MessagesRelay(frame, end)
      PROVE  EngineInv'
    BY <1>4, ChatRelayInv, MessagesRelayInv
<1>5. Authenticate \/ ChatTarget \/ ChatCall \/ ChatUnwritten => EngineInv'
    BY AuthenticateInv, ChatTargetInv, ChatCallInv, ChatUnwrittenInv
<1>6. MessagesCall \/ MessagesPending \/ MessagesEnd => EngineInv'
    BY MessagesCallInv, MessagesPendingInv, MessagesEndInv
<1>7. ASSUME UNCHANGED engineVars PROVE EngineInv'
  <2>1. UNCHANGED <<providers, req, pc, reply, usage, tried>> BY <1>7 DEF engineVars
  <2>2. EngineTypeOK' /\ Beginning' /\ Working'
      BY <2>1 DEF EngineInv, EngineTypeOK, Beginning, Working, Untouched
  <2>3. ChatWorking' /\ MessagesWorking'
      BY <2>1 DEF EngineInv, ChatWorking, MessagesWorking, Sourced, Target
  <2>4. OneSource' /\ FailoverJustified' /\ FinishedIsDone' /\ UsageHonest'
      BY <2>1 DEF EngineInv, OneSource, FailoverJustified, FinishedIsDone, UsageHonest
  <2> QED BY <2>2, <2>3, <2>4 DEF EngineInv
<1> QED BY <1>1, <1>2, <1>3, <1>4, <1>5, <1>6, <1>7 DEF EngineNext, Handler

\* For every route, registry and sequence of failures, a client receives the output
\* of one target, reached by failures that permit failover, marked finished only when
\* the upstream finished, and the usage hook hears of it once and truly
\* (handleChatCompletions, writeSSEStream, handleMessages, chunksIter, recordTelemetry).
THEOREM AnswersAreHonest == EngineSpec => []AnswersHonest
<1>1. EngineInv => AnswersHonest BY DEF EngineInv, AnswersHonest
<1> QED BY <1>1, EngineInitInv, EngineStepInv, PTL DEF EngineSpec

----------------------------------------------------------------------------
(* The automation of anonymous providers.                                  *)

Probes == [model : RawId, ok : BOOLEAN]
HealthRecord ==
    [status : {"", "healthy", "degraded", "unhealthy"},
     class : {"", "none", "auth", "forbidden", "rate_limited", "transport", "upstream"},
     permanent : BOOLEAN, retryable : BOOLEAN]

\* Nothing has been seen yet.
Unstarted(run) ==
    run.models = <<>> /\ run.targets = <<>> /\ run.probes = <<>> /\ ~run.err /\ ~run.foul

\* What the locals of a run say of each other: probes are of the catalog's own
\* models, follow a catalog, and never of Codex.
RunSound(run) ==
    /\ run \in Run
    /\ Len(run.probes) + Len(run.targets) <= Len(run.models)
    /\ run.foul => run.ended
    /\ run.pc \notin {"probe", "record"} => Unstarted(run)
    /\ run.pc = "probe" =>
        /\ run.targets # <<>> /\ Profiles[run.at] \notin Codex
        /\ ~run.err /\ run.catalog = "discovered"
    /\ run.pc = "record" =>
        /\ run.err => run.probes = <<>>
        /\ run.probes # <<>> => run.catalog = "discovered"

\* Probing everything, a run probes what the catalog names.
ProbesOfCatalog(run) ==
    options.probe = "all" =>
        /\ \A i \in DOMAIN run.targets : \E k \in DOMAIN Distinct(run.models) : run.targets[i] = Distinct(run.models)[k]
        /\ \A i \in DOMAIN run.probes : \E k \in DOMAIN Distinct(run.models) : run.probes[i].model = Distinct(run.models)[k]

\* The generation a check took is no newer than what it saw, which is no newer
\* than the provider's.
Dated(run) ==
    /\ run.pc = "discover" => run.generation <= generation[Profiles[run.at]]
    /\ run.pc \in {"probe", "record"} =>
        run.generation <= run.seen /\ run.seen <= generation[Profiles[run.at]]

\* A scheduled check made while the automation is on knows that it was.
KnowsOn(run) ==
    /\ run.kind = "scheduler" /\ run.pc = "confirm" /\ enabled => run.on
    /\ run.kind = "scheduler" /\ run.pc \in {"generation", "discover", "probe", "record"} => run.on

HooksTypeOK ==
    /\ options \in [probe : {"all", "verification"}, publish : {"inference_verified", "catalog_discovered"}]
    /\ enabled \in BOOLEAN /\ instant \in Nat /\ edits \in 0..MaxEdits
    /\ claims \in [Providers -> Nat] /\ generation \in [Providers -> Nat]
    /\ stops \in [Stopper -> {"none", "first", "waits", "returned"}]

Good(run) == RunSound(run) /\ ProbesOfCatalog(run) /\ Dated(run) /\ KnowsOn(run)

RunsSound == runs \in [Runner -> Run] /\ \A r \in Runner : Good(runs[r])

AnonymousInv ==
    /\ HooksTypeOK /\ RunsSound /\ CodexNeverReached /\ OneCheckPerInterval /\ StoppedIsOver
    /\ StopIsNotEvidence /\ EvidenceOfItsGeneration

----------------------------------------------------------------------------
(* What the loops over a catalog and its probes keep.                      *)

\* The models a catalog names, once each.
LEMMA DistinctKeeps ==
    ASSUME NEW models \in Seq(RawId)
    PROVE  /\ Distinct(models) \in Seq(RawId) /\ Len(Distinct(models)) <= Len(models)
           /\ \A i, j \in 1..Len(Distinct(models)) : i < j => Distinct(models)[i] # Distinct(models)[j]
           /\ \A i \in 1..Len(Distinct(models)) :
                Distinct(models)[i] # BlankId
                /\ \E k \in 1..Len(models) : Distinct(models)[i] = TrimOf[models[k]]
           /\ \A k \in 1..Len(models) : TrimOf[models[k]] # BlankId =>
                \E i \in 1..Len(Distinct(models)) : Distinct(models)[i] = TrimOf[models[k]]
<1>1. PICK names : names = Names(models) OBVIOUS
<1>0. PICK Allowed : Allowed = RawId \cup {BlankId} OBVIOUS
<1>2. names \in Seq(Allowed) /\ Len(names) = Len(models)
      /\ \A k \in 1..Len(models) : names[k] = TrimOf[models[k]]
  <2>1. names = [k \in 1..Len(models) |-> TrimOf[models[k]]] BY <1>1 DEF Names
  <2>2. \A k \in 1..Len(models) : TrimOf[models[k]] \in Allowed BY <1>0, ContractsConstants
  <2>3. names \in [1..Len(models) -> Allowed] BY <2>1, <2>2
  <2>4. names \in Seq(Allowed) /\ Len(names) = Len(models) BY <2>3
  <2> QED BY <2>1, <2>4
<1>3. PICK places : places = {i \in Firsts(names) : names[i] # BlankId} OBVIOUS
<1>4. PICK only : only = Only(names, places) OBVIOUS
<1>5. only = Distinct(models) BY <1>1, <1>3, <1>4 DEF Distinct
<1>6. only \in Seq(Allowed) /\ Keeps(only, names, places) BY <1>2, <1>4, OnlyKeeps
<1>7. \A i \in 1..Len(only) :
        only[i] \in RawId /\ only[i] # BlankId /\ \E k \in 1..Len(models) : only[i] = TrimOf[models[k]]
  <2>1. ASSUME NEW i \in 1..Len(only)
        PROVE  /\ only[i] \in RawId /\ only[i] # BlankId
               /\ \E k \in 1..Len(models) : only[i] = TrimOf[models[k]]
    <3>1. PICK p \in 1..Len(names) : p \in places /\ only[i] = names[p] BY <1>6 DEF Keeps
    <3>2. names[p] # BlankId /\ names[p] \in RawId \cup {BlankId} BY <3>1, <1>0, <1>2, <1>3
    <3> QED BY <3>1, <3>2, <1>2
  <2> QED BY <2>1
<1>8. only \in Seq(RawId)
  <2>1. \A i \in 1..Len(only) : only[i] \in RawId BY <1>7
  <2> QED BY <2>1, <1>6
<1>9. \A i, j \in 1..Len(only) : i < j => only[i] # only[j]
  <2>1. ASSUME NEW i \in 1..Len(only), NEW j \in 1..Len(only), i < j PROVE only[i] # only[j]
    <3>1. PICK p, q \in 1..Len(names) :
            p \in places /\ only[i] = names[p] /\ q \in places /\ only[j] = names[q] /\ p < q
        BY <2>1, <1>6 DEF Keeps
    <3>2. \A k \in 1..(q - 1) : names[k] # names[q] BY <3>1, <1>3 DEF Firsts
    <3>3. p \in 1..(q - 1) BY <3>1, <1>2
    <3> QED BY <3>1, <3>2, <3>3
  <2> QED BY <2>1
<1>10. Len(only) <= Len(models) BY <1>2, <1>6 DEF Keeps
<1>11. PICK n \in Nat : n = Len(names) BY <1>2
<1>12. PICK Met : Met = {k \in 0..n : \A j \in 1..k : \E p \in Firsts(names) : names[p] = names[j]} OBVIOUS
<1>13. 0..n \subseteq Met
  <2>1. 0 \in Met BY <1>11, <1>12
  <2>2. ASSUME NEW i \in 1..n, i - 1 \in Met PROVE i \in Met
    <3>1. \A j \in 1..(i - 1) : \E p \in Firsts(names) : names[p] = names[j] BY <2>2, <1>12
    <3>2. \E p \in Firsts(names) : names[p] = names[i]
      <4>1. CASE i \in Firsts(names) BY <4>1
      <4>2. CASE i \notin Firsts(names)
        <5>1. PICK k \in 1..(i - 1) : names[k] = names[i] BY <4>2, <2>2, <1>2, <1>11 DEF Firsts
        <5> QED BY <5>1, <3>1
      <4> QED BY <4>1, <4>2
    <3>3. \A j \in 1..i : j = i \/ j \in 1..(i - 1) OBVIOUS
    <3> QED BY <3>1, <3>2, <3>3, <1>12
  <2> QED BY <2>1, <2>2, <1>11, UpTo
<1>14. \A k \in 1..Len(models) : TrimOf[models[k]] # BlankId =>
            \E i \in 1..Len(only) : only[i] = TrimOf[models[k]]
  <2>1. ASSUME NEW k \in 1..Len(models), TrimOf[models[k]] # BlankId
        PROVE  \E i \in 1..Len(only) : only[i] = TrimOf[models[k]]
    <3>1. k \in 0..n /\ k \in 1..k BY <1>2, <1>11
    <3>2. k \in Met BY <3>1, <1>13, Zenon
    <3>3. \A j \in 1..k : \E q \in Firsts(names) : names[q] = names[j] BY <3>2, <1>12, Zenon
    <3>4. \E q \in Firsts(names) : names[q] = names[k] BY <3>1, <3>3, Zenon
    <3>5. PICK p \in Firsts(names) : names[p] = names[k] BY <3>4, Zenon
    <3>6. p \in places /\ p \in 1..Len(names) BY <3>5, <2>1, <1>2, <1>3 DEF Firsts
    <3>7. PICK i \in 1..Len(only) : only[i] = names[p] BY <3>6, <1>6 DEF Keeps
    <3> QED BY <3>5, <3>7, <1>2
  <2> QED BY <2>1
<1> QED BY <1>5, <1>7, <1>8, <1>9, <1>10, <1>14

\* What is probed are models, no more than the catalog has rows.
LEMMA ProbeTargetsKeep ==
    ASSUME NEW models \in Seq(RawId)
    PROVE  /\ ProbeTargets(models) \in Seq(RawId) /\ Len(ProbeTargets(models)) <= Len(models)
           /\ options.probe = "all" => ProbeTargets(models) = Distinct(models)
<1>1. options.probe # "verification" => ProbeTargets(models) = Distinct(models) BY DEF ProbeTargets
<1>2. SelectVerificationModel(models) \in Seq(RawId) /\ Len(SelectVerificationModel(models)) <= Len(models)
  <2> DEFINE Listed(name) == {id \in Free(models) \ {BlankId} : LowerOf[id] = LowerOf[name]}
  <2>1. \A id \in Free(models) : id \in RawId /\ Len(models) >= 1 BY DEF Free
  <2>2. Preferred \in Seq(RawId) /\ Lexical \in Seq(RawId) BY AnonymousConstants
  <2>3. PICK places : places = {i \in DOMAIN Preferred : Listed(Preferred[i]) # {}} OBVIOUS
  <2>4. PICK reviewed : reviewed = Only(Preferred, places) OBVIOUS
  <2>5. reviewed \in Seq(RawId) /\ Keeps(reviewed, Preferred, places) BY <2>2, <2>4, OnlyKeeps
  <2>6. PICK free : free = {i \in DOMAIN Lexical : Lexical[i] \in Free(models)} OBVIOUS
  <2>7. PICK ordered : ordered = Only(Lexical, free) OBVIOUS
  <2>8. ordered \in Seq(RawId) /\ Keeps(ordered, Lexical, free) BY <2>2, <2>7, OnlyKeeps
  <2>9. SelectVerificationModel(models) =
            CASE reviewed # <<>> -> <<CHOOSE id \in Listed(Head(reviewed)) : TRUE>>
              [] reviewed = <<>> /\ (ordered = <<>> \/ BlankId \in Free(models)) -> <<>>
              [] OTHER -> <<Head(ordered)>>
    BY <2>3, <2>4, <2>6, <2>7, Zenon DEF SelectVerificationModel
  <2>10. ASSUME NEW id \in Free(models), SelectVerificationModel(models) = <<id>>
         PROVE  SelectVerificationModel(models) \in Seq(RawId) /\ Len(SelectVerificationModel(models)) <= Len(models)
    <3>1. id \in RawId /\ Len(models) >= 1 BY <2>1
    <3>2. <<id>> \in Seq(RawId) /\ Len(<<id>>) = 1 BY <3>1
    <3> QED BY <3>1, <3>2, <2>10
  <2>11. CASE reviewed # <<>>
    <3>1. PICK chosen : chosen = (CHOOSE id \in Listed(Head(reviewed)) : TRUE) OBVIOUS
    <3>2. 1 \in 1..Len(reviewed) /\ Head(reviewed) = reviewed[1] BY <2>5, <2>11
    <3>3. PICK p \in 1..Len(Preferred) : p \in places /\ reviewed[1] = Preferred[p] BY <3>2, <2>5 DEF Keeps
    <3>4. Listed(Preferred[p]) # {} BY <3>3, <2>3
    <3>5. Listed(Head(reviewed)) # {} BY <3>2, <3>3, <3>4
    <3>6. chosen \in Listed(Head(reviewed)) BY <3>1, <3>5
    <3>7. chosen \in Free(models) BY <3>6
    <3>8. SelectVerificationModel(models) = <<chosen>> BY <2>9, <2>11, <3>1
    <3> QED BY <3>7, <3>8, <2>10
  <2>12. CASE reviewed = <<>> /\ (ordered = <<>> \/ BlankId \in Free(models))
    <3>1. SelectVerificationModel(models) = <<>> BY <2>9, <2>12
    <3> QED BY <3>1
  <2>13. CASE reviewed = <<>> /\ ~(ordered = <<>> \/ BlankId \in Free(models))
    <3>1. SelectVerificationModel(models) = <<Head(ordered)>> BY <2>9, <2>13
    <3>2. 1 \in 1..Len(ordered) /\ Head(ordered) = ordered[1] BY <2>8, <2>13
    <3>3. PICK p \in 1..Len(Lexical) : p \in free /\ ordered[1] = Lexical[p] BY <3>2, <2>8 DEF Keeps
    <3>4. Lexical[p] \in Free(models) BY <3>3, <2>6
    <3>5. Head(ordered) \in Free(models) BY <3>2, <3>3, <3>4
    <3> QED BY <3>1, <3>5, <2>10
  <2> QED BY <2>11, <2>12, <2>13
<1>3. options.probe = "verification" => ProbeTargets(models) = SelectVerificationModel(models) BY DEF ProbeTargets
<1>4. Distinct(models) \in Seq(RawId) /\ Len(Distinct(models)) <= Len(models) BY DistinctKeeps
<1>5. CASE options.probe = "verification" BY <1>2, <1>3, <1>5
<1>6. CASE options.probe # "verification" BY <1>1, <1>4, <1>6
<1> QED BY <1>5, <1>6

\* The probes that verified are these, and they are all there.
AreVerified(ok, probes) ==
    /\ ok \in Seq(Probes) /\ Len(ok) <= Len(probes)
    /\ \A i \in 1..Len(ok) : \E k \in 1..Len(probes) : probes[k].ok /\ ok[i] = probes[k]
    /\ \A k \in 1..Len(probes) : probes[k].ok => \E i \in 1..Len(ok) : ok[i] = probes[k]

LEMMA VerifiedKeeps ==
    ASSUME NEW run, NEW probes \in Seq(Probes), probes = run.probes
    PROVE  AreVerified(Verified(run), probes)
<1>0. PICK ok : ok = Verified(run) OBVIOUS
<1>1. PICK places : places = {i \in DOMAIN probes : probes[i].ok} OBVIOUS
<1>2. ok = Only(probes, places) BY <1>0, <1>1 DEF Verified
<1>3. ok \in Seq(Probes) /\ Keeps(ok, probes, places) BY <1>2, OnlyKeeps
<1>4. Len(ok) <= Len(probes) BY <1>3 DEF Keeps
<1>5. \A i \in 1..Len(ok) : \E k \in 1..Len(probes) : probes[k].ok /\ ok[i] = probes[k]
  BY <1>1, <1>3 DEF Keeps
<1>6. \A k \in 1..Len(probes) : probes[k].ok => \E i \in 1..Len(ok) : ok[i] = probes[k]
  <2>1. \A k \in 1..Len(probes) : k \in places => \E i \in 1..Len(ok) : ok[i] = probes[k]
    BY <1>3 DEF Keeps
  <2> QED BY <2>1, <1>1
<1> QED BY <1>0, <1>3, <1>4, <1>5, <1>6 DEF AreVerified

\* The targets evidence publishes: the catalog's, once each, and on their own
\* verified probe unless everything discovered is published.
ArePublished(targets, catalog, models, probes, publication) ==
    /\ targets \in Seq(RawId)
    /\ \A i, j \in 1..Len(targets) : i < j => targets[i] # targets[j]
    /\ \A i \in 1..Len(targets) :
        targets[i] # BlankId /\ \E k \in 1..Len(models) : targets[i] = TrimOf[models[k]]
    /\ publication # "catalog_discovered" => \A i \in 1..Len(targets) :
        \E k \in 1..Len(probes) : probes[k] = [model |-> targets[i], ok |-> TRUE]
    /\ catalog = "discovered" => \A k \in 1..Len(models) :
        TrimOf[models[k]] # BlankId /\ (\/ publication = "catalog_discovered"
                                        \/ \E j \in 1..Len(probes) : probes[j].ok /\ probes[j].model = TrimOf[models[k]])
            => \E i \in 1..Len(targets) : targets[i] = TrimOf[models[k]]

LEMMA Published ==
    ASSUME NEW models \in Seq(RawId), NEW probes \in Seq(Probes), NEW catalog, NEW publication
    PROVE  ArePublished(PublishExactTargets(catalog, models, probes, publication), catalog, models, probes, publication)
<1>0. PICK targets : targets = PublishExactTargets(catalog, models, probes, publication) OBVIOUS
<1>1. CASE catalog # "discovered"
  <2>1. targets = <<>> BY <1>0, <1>1 DEF PublishExactTargets
  <2> QED BY <1>0, <1>1, <2>1 DEF ArePublished
<1>2. CASE catalog = "discovered"
  <2>1. PICK ids : ids = Distinct(models) OBVIOUS
  <2>2. /\ ids \in Seq(RawId)
        /\ \A i, j \in 1..Len(ids) : i < j => ids[i] # ids[j]
        /\ \A i \in 1..Len(ids) : ids[i] # BlankId /\ \E k \in 1..Len(models) : ids[i] = TrimOf[models[k]]
        /\ \A k \in 1..Len(models) : TrimOf[models[k]] # BlankId => \E i \in 1..Len(ids) : ids[i] = TrimOf[models[k]]
    <3>1. /\ Distinct(models) \in Seq(RawId)
          /\ \A i, j \in 1..Len(Distinct(models)) : i < j => Distinct(models)[i] # Distinct(models)[j]
          /\ \A i \in 1..Len(Distinct(models)) :
                Distinct(models)[i] # BlankId
                /\ \E k \in 1..Len(models) : Distinct(models)[i] = TrimOf[models[k]]
          /\ \A k \in 1..Len(models) : TrimOf[models[k]] # BlankId =>
                \E i \in 1..Len(Distinct(models)) : Distinct(models)[i] = TrimOf[models[k]]
      BY DistinctKeeps
    <3> QED BY <2>1, <3>1, Zenon
  <2>3. PICK places : places = {i \in DOMAIN ids :
            \/ publication = "catalog_discovered"
            \/ \E k \in DOMAIN probes : probes[k] = [model |-> ids[i], ok |-> TRUE]} OBVIOUS
  <2>4. targets = Only(ids, places) BY <1>0, <1>2, <2>1, <2>3 DEF PublishExactTargets
  <2>5. targets \in Seq(RawId) /\ Keeps(targets, ids, places) BY <2>2, <2>4, OnlyKeeps
  <2>6. \A i, j \in 1..Len(targets) : i < j => targets[i] # targets[j]
    <3>1. ASSUME NEW i \in 1..Len(targets), NEW j \in 1..Len(targets), i < j PROVE targets[i] # targets[j]
      <4>1. PICK p, q \in 1..Len(ids) : targets[i] = ids[p] /\ targets[j] = ids[q] /\ p < q
        BY <3>1, <2>5 DEF Keeps
      <4> QED BY <4>1, <2>2
    <3> QED BY <3>1
  <2>7. \A i \in 1..Len(targets) : \E p \in 1..Len(ids) : p \in places /\ targets[i] = ids[p]
    BY <2>5 DEF Keeps
  <2>8. \A i \in 1..Len(targets) :
            targets[i] # BlankId /\ \E k \in 1..Len(models) : targets[i] = TrimOf[models[k]]
    BY <2>2, <2>7
  <2>9. publication # "catalog_discovered" => \A i \in 1..Len(targets) :
            \E k \in 1..Len(probes) : probes[k] = [model |-> targets[i], ok |-> TRUE]
    <3>1. ASSUME publication # "catalog_discovered", NEW i \in 1..Len(targets)
          PROVE  \E k \in 1..Len(probes) : probes[k] = [model |-> targets[i], ok |-> TRUE]
      <4>1. PICK p \in 1..Len(ids) : p \in places /\ targets[i] = ids[p] BY <3>1, <2>7
      <4>2. PICK k \in DOMAIN probes : probes[k] = [model |-> ids[p], ok |-> TRUE] BY <3>1, <4>1, <2>3
      <4>3. k \in 1..Len(probes) BY <4>2
      <4> QED BY <4>1, <4>2, <4>3
    <3> QED BY <3>1
  <2>10. ASSUME NEW k \in 1..Len(models), TrimOf[models[k]] # BlankId,
                \/ publication = "catalog_discovered"
                \/ \E j \in 1..Len(probes) : probes[j].ok /\ probes[j].model = TrimOf[models[k]]
         PROVE  \E i \in 1..Len(targets) : targets[i] = TrimOf[models[k]]
    <3>1. PICK p \in 1..Len(ids) : ids[p] = TrimOf[models[k]] BY <2>10, <2>2
    <3>2. p \in places
      <4>1. CASE publication = "catalog_discovered" BY <4>1, <2>2, <2>3
      <4>2. ASSUME NEW j \in 1..Len(probes), probes[j].ok, probes[j].model = TrimOf[models[k]]
            PROVE  p \in places
        <5>1. probes[j] \in Probes OBVIOUS
        <5>2. probes[j] = [model |-> ids[p], ok |-> TRUE] BY <3>1, <4>2, <5>1 DEF Probes
        <5> QED BY <5>2, <2>2, <2>3
      <4> QED BY <2>10, <4>1, <4>2
    <3>3. \E i \in 1..Len(targets) : targets[i] = ids[p] BY <3>2, <2>5 DEF Keeps
    <3> QED BY <3>1, <3>3
  <2> QED BY <1>0, <2>5, <2>6, <2>8, <2>9, <2>10 DEF ArePublished
<1> QED BY <1>1, <1>2

\* The result of a check that is sound is honest.
LEMMA HonestResult ==
    ASSUME NEW run, RunSound(run), ProbesOfCatalog(run), run.pc = "record",
           options.publish \in {"inference_verified", "catalog_discovered"},
           NEW result, result = ResultOf(run),
           NEW verified, verified = {probe.model : probe \in ToSet(Verified(run))},
           NEW named, named = {TrimOf[id] : id \in ToSet(run.models)} \ {BlankId}
    PROVE  /\ result.verified + result.failed = result.probed
           /\ (result.status = "passed") <=> (verified # {})
           /\ (result.completion = "verified") <=> (result.probed > 0 /\ result.failed = 0)
           /\ IsInjective(result.targets)
           /\ ToSet(result.targets) =
                CASE result.probed = 0 -> {}
                  [] result.probed > 0 /\ options.publish = "catalog_discovered" -> named
                  [] OTHER -> named \cap verified
           /\ options.probe = "all" /\ result.status = "passed" => result.targets # <<>>
           /\ result.auth = "rejected" => verified = {}
           /\ (result.status = "passed") <=> (result.code = "")
<1>1. PICK probes \in Seq(Probes) : probes = run.probes BY DEF RunSound, Run, Probes
<1>2. PICK models \in Seq(RawId) : models = run.models BY DEF RunSound, Run
<1>3. PICK ok : ok = Verified(run) OBVIOUS
<1>4. /\ ok \in Seq(Probes) /\ Len(ok) <= Len(probes)
      /\ \A i \in 1..Len(ok) : \E k \in 1..Len(probes) : probes[k].ok /\ ok[i] = probes[k]
      /\ \A k \in 1..Len(probes) : probes[k].ok => \E i \in 1..Len(ok) : ok[i] = probes[k]
  <2>1. AreVerified(ok, probes) BY <1>1, <1>3, VerifiedKeeps
  <2> QED BY <2>1 DEF AreVerified
<1>5. verified = {ok[i].model : i \in 1..Len(ok)}
  <2>1. ToSet(ok) = {ok[i] : i \in 1..Len(ok)} BY <1>4 DEF ToSet
  <2> QED BY <1>3, <2>1
<1>6. verified # {} <=> Len(ok) > 0
  <2>1. ASSUME Len(ok) > 0 PROVE verified # {}
    <3>1. 1 \in 1..Len(ok) BY <2>1, <1>4
    <3>2. ok[1].model \in verified BY <3>1, <1>5
    <3> QED BY <3>2
  <2>2. ASSUME verified # {} PROVE Len(ok) > 0
    <3>1. PICK i \in 1..Len(ok) : ok[i].model \in verified BY <2>2, <1>5
    <3> QED BY <3>1, <1>4
  <2> QED BY <2>1, <2>2
<1>7. PICK targets : targets = PublishExactTargets(run.catalog, run.models, run.probes, options.publish) OBVIOUS
<1>8. /\ targets \in Seq(RawId)
      /\ \A i, j \in 1..Len(targets) : i < j => targets[i] # targets[j]
      /\ \A i \in 1..Len(targets) :
            targets[i] # BlankId /\ \E k \in 1..Len(models) : targets[i] = TrimOf[models[k]]
      /\ options.publish # "catalog_discovered" => \A i \in 1..Len(targets) :
            \E k \in 1..Len(probes) : probes[k] = [model |-> targets[i], ok |-> TRUE]
      /\ run.catalog = "discovered" => \A k \in 1..Len(models) :
            TrimOf[models[k]] # BlankId
              /\ (\/ options.publish = "catalog_discovered"
                  \/ \E j \in 1..Len(probes) : probes[j].ok /\ probes[j].model = TrimOf[models[k]])
                => \E i \in 1..Len(targets) : targets[i] = TrimOf[models[k]]
  <2>1. targets = PublishExactTargets(run.catalog, models, probes, options.publish) BY <1>1, <1>2, <1>7
  <2>2. ArePublished(targets, run.catalog, models, probes, options.publish) BY <2>1, Published
  <2> QED BY <2>2 DEF ArePublished
<1>9. IsInjective(targets)
  <2>1. ASSUME NEW i \in DOMAIN targets, NEW j \in DOMAIN targets, targets[i] = targets[j] PROVE i = j
    <3>1. i \in 1..Len(targets) /\ j \in 1..Len(targets) BY <1>8
    <3>2. i < j \/ j < i \/ i = j BY <3>1
    <3> QED BY <2>1, <3>1, <3>2, <1>8
  <2> QED BY <2>1 DEF IsInjective
<1>10. ToSet(targets) \subseteq named
  <2>1. ASSUME NEW t \in ToSet(targets) PROVE t \in named
    <3>1. PICK i \in 1..Len(targets) : t = targets[i] BY <2>1, <1>8 DEF ToSet
    <3>2. PICK k \in 1..Len(models) : t = TrimOf[models[k]] /\ t # BlankId BY <3>1, <1>8
    <3>3. models[k] \in ToSet(models) BY <3>2 DEF ToSet
    <3> QED BY <3>2, <3>3, <1>2
  <2> QED BY <2>1
<1>11. options.publish = "inference_verified" => ToSet(targets) \subseteq verified
  <2>1. ASSUME options.publish = "inference_verified", NEW t \in ToSet(targets) PROVE t \in verified
    <3>1. PICK i \in 1..Len(targets) : t = targets[i] BY <2>1, <1>8 DEF ToSet
    <3>2. PICK k \in 1..Len(probes) : probes[k] = [model |-> t, ok |-> TRUE] BY <2>1, <3>1, <1>8
    <3>0. probes[k].ok BY <3>2
    <3>3. PICK j \in 1..Len(ok) : ok[j] = probes[k] BY <3>0, <3>2, <1>4
    <3>4. ok[j].model = t BY <3>2, <3>3
    <3> QED BY <3>4, <1>5
  <2> QED BY <2>1
<1>23. ASSUME probes # <<>>, NEW t \in named, options.publish = "catalog_discovered" \/ t \in verified
       PROVE  t \in ToSet(targets)
  <2>1. PICK id \in ToSet(models) : t = TrimOf[id] /\ t # BlankId BY <1>23, <1>2
  <2>2. PICK k \in 1..Len(models) : id = models[k] BY <2>1 DEF ToSet
  <2>3. run.catalog = "discovered" BY <1>1, <1>23 DEF RunSound
  <2>4. \/ options.publish = "catalog_discovered"
        \/ \E j \in 1..Len(probes) : probes[j].ok /\ probes[j].model = TrimOf[models[k]]
    <3>1. ASSUME t \in verified PROVE \E j \in 1..Len(probes) : probes[j].ok /\ probes[j].model = TrimOf[models[k]]
      <4>1. PICK i \in 1..Len(ok) : t = ok[i].model BY <3>1, <1>5
      <4>2. PICK j \in 1..Len(probes) : probes[j].ok /\ ok[i] = probes[j] BY <4>1, <1>4
      <4> QED BY <4>1, <4>2, <2>1, <2>2
    <3> QED BY <3>1, <1>23
  <2>5. PICK i \in 1..Len(targets) : targets[i] = TrimOf[models[k]] BY <2>1, <2>2, <2>3, <2>4, <1>8
  <2> QED BY <2>1, <2>2, <2>5, <1>8 DEF ToSet
<1>24. probes # <<>> => ToSet(targets) =
            IF options.publish = "catalog_discovered" THEN named ELSE named \cap verified
  BY <1>10, <1>11, <1>23
<1>12. options.probe = "all" /\ Len(ok) > 0 => targets # <<>>
  <2>1. SUFFICES ASSUME options.probe = "all", Len(ok) > 0, targets = <<>> PROVE FALSE OBVIOUS
  <2>0. 1 \in 1..Len(ok)
    <3>1. Len(ok) \in Nat BY <1>4
    <3> QED BY <2>1, <3>1
  <2>2. PICK k \in 1..Len(probes) : probes[k].ok /\ ok[1] = probes[k] BY <2>0, <1>4, Zenon
  <2>3. k \in DOMAIN run.probes BY <1>1, <2>2
  <2>4. PICK i \in DOMAIN Distinct(models) : probes[k].model = Distinct(models)[i]
    BY <1>1, <1>2, <2>1, <2>3 DEF ProbesOfCatalog
  <2>5. i \in 1..Len(Distinct(models)) BY <2>4, <1>2, DistinctKeeps
  <2>6. PICK m \in 1..Len(models) : Distinct(models)[i] # BlankId /\ Distinct(models)[i] = TrimOf[models[m]]
    BY <2>5, DistinctKeeps
  <2>7. probes[k].model \in named
    <3>1. models[m] \in ToSet(models) BY DEF ToSet
    <3> QED BY <3>1, <2>4, <2>6, <1>2
  <2>8. probes[k].model \in verified BY <2>0, <2>2, <1>5
  <2>9. probes # <<>> BY <2>2
  <2>10. probes[k].model \in ToSet(targets) BY <2>7, <2>8, <2>9, <1>23
  <2> QED BY <2>1, <2>10 DEF ToSet
<1>13. IsInjective(<<>>) /\ ToSet(<<>>) = {} BY DEF IsInjective, ToSet
<1>14. run.err => probes = <<>> /\ Len(ok) = 0 BY <1>1, <1>4 DEF RunSound
<1>15. probes = <<>> <=> Len(probes) = 0 BY <1>1
<1>16. Len(ok) \in Nat /\ Len(probes) \in Nat BY <1>1, <1>4
<1>17. \A code \in {"catalog_failed", "verification_failed"} :
        HealthFailureCode(run.health, code) # "" BY DEF HealthFailureCode
<1>18. AuthenticationState(run.health) \in {"rejected", "accepted", "unknown"}
  BY DEF AuthenticationState
<1> DEFINE failed == [status |-> "failed", auth |-> AuthenticationState(run.health), code |-> "",
                      completion |-> "not_probed", probed |-> 0, verified |-> 0, failed |-> 0,
                      targets |-> <<>>]
           probed == [failed EXCEPT
                !.probed = Len(probes), !.verified = Len(ok), !.failed = Len(probes) - Len(ok),
                !.completion = IF Len(ok) = Len(probes) THEN "verified" ELSE "failed",
                !.targets = targets]
<1>19. CASE run.err
  <2>1. result = [failed EXCEPT !.code = HealthFailureCode(run.health, "catalog_failed")]
    BY <1>19 DEF ResultOf
  <2>2. /\ result.verified = 0 /\ result.failed = 0 /\ result.probed = 0 /\ result.status = "failed"
        /\ result.completion = "not_probed" /\ result.targets = <<>>
        /\ result.code = HealthFailureCode(run.health, "catalog_failed")
    BY <2>1
  <2>3. result.code # "" BY <2>2, <1>17
  <2>10. result.verified + result.failed = result.probed BY <2>2
  <2>11. (result.status = "passed") <=> (verified # {}) BY <2>2, <1>6, <1>14, <1>19
  <2>12. (result.completion = "verified") <=> (result.probed > 0 /\ result.failed = 0) BY <2>2
  <2>13. IsInjective(result.targets) BY <2>2, <1>13
  <2>14. result.probed = 0 /\ ToSet(result.targets) = {} BY <2>2, <1>13
  <2>15. ToSet(result.targets) =
            CASE result.probed = 0 -> {}
              [] result.probed > 0 /\ options.publish = "catalog_discovered" -> named
              [] OTHER -> named \cap verified
    BY <2>14
  <2>16. options.probe = "all" /\ result.status = "passed" => result.targets # <<>> BY <2>2
  <2>17. result.auth = "rejected" => verified = {} BY <2>2, <1>6, <1>14, <1>19
  <2>18. (result.status = "passed") <=> (result.code = "") BY <2>2, <2>3
  <2> QED BY <2>10, <2>11, <2>12, <2>13, <2>15, <2>16, <2>17, <2>18
<1>20. CASE ~run.err /\ probes = <<>>
  <2>1. result = [failed EXCEPT !.code = "model_unavailable"] BY <1>1, <1>20 DEF ResultOf
  <2>2. Len(ok) = 0 BY <1>4, <1>15, <1>16, <1>20
  <2>3. /\ result.verified = 0 /\ result.failed = 0 /\ result.probed = 0 /\ result.status = "failed"
        /\ result.completion = "not_probed"
    BY <2>1
  <2>4. result.targets = <<>> /\ result.code # "" BY <2>1
  <2>10. result.verified + result.failed = result.probed BY <2>3
  <2>11. (result.status = "passed") <=> (verified # {}) BY <2>2, <2>3, <1>6
  <2>12. (result.completion = "verified") <=> (result.probed > 0 /\ result.failed = 0) BY <2>3
  <2>13. IsInjective(result.targets) BY <2>4, <1>13
  <2>14. result.probed = 0 /\ ToSet(result.targets) = {} BY <2>3, <2>4, <1>13
  <2>15. ToSet(result.targets) =
            CASE result.probed = 0 -> {}
              [] result.probed > 0 /\ options.publish = "catalog_discovered" -> named
              [] OTHER -> named \cap verified
    BY <2>14
  <2>16. options.probe = "all" /\ result.status = "passed" => result.targets # <<>> BY <2>3
  <2>17. result.auth = "rejected" => verified = {} BY <2>2, <2>3, <1>6
  <2>18. (result.status = "passed") <=> (result.code = "") BY <2>3, <2>4
  <2> QED BY <2>10, <2>11, <2>12, <2>13, <2>15, <2>16, <2>17, <2>18
<1>21. CASE ~run.err /\ probes # <<>> /\ Len(ok) > 0
  <2>1. result = [probed EXCEPT !.status = "passed", !.auth = "accepted"]
    BY <1>1, <1>3, <1>7, <1>21 DEF ResultOf
  <2>2. /\ result.verified = Len(ok) /\ result.failed = Len(probes) - Len(ok)
        /\ result.probed = Len(probes) /\ result.status = "passed" /\ result.targets = targets
        /\ result.completion = IF Len(ok) = Len(probes) THEN "verified" ELSE "failed"
        /\ result.code = "" /\ result.auth = "accepted"
    BY <2>1
  <2>3. Len(probes) > 0 BY <1>15, <1>16, <1>21
  <2>4. PICK m \in Nat, n \in Nat : m = Len(probes) /\ n = Len(ok) BY <1>16
  <2>5. result.verified = n /\ result.failed = m - n /\ result.probed = m BY <2>2, <2>4
  <2>10. result.verified + result.failed = result.probed
    <3>1. n + (m - n) = m OBVIOUS
    <3> QED BY <2>5, <3>1
  <2>11. (result.status = "passed") <=> (verified # {}) BY <2>2, <1>6, <1>21
  <2>12. (result.completion = "verified") <=> (result.probed > 0 /\ result.failed = 0)
    <3>1. m > 0 BY <2>3, <2>4
    <3>2. m - n = 0 <=> n = m OBVIOUS
    <3>3. result.completion = "verified" <=> n = m BY <2>2, <2>4
    <3> QED BY <2>5, <3>1, <3>2, <3>3
  <2>13. IsInjective(result.targets) BY <2>2, <1>9
  <2>14. /\ result.probed > 0
         /\ ToSet(result.targets) = IF options.publish = "catalog_discovered" THEN named ELSE named \cap verified
    BY <2>2, <2>3, <1>21, <1>24
  <2>15. ToSet(result.targets) =
            CASE result.probed = 0 -> {}
              [] result.probed > 0 /\ options.publish = "catalog_discovered" -> named
              [] OTHER -> named \cap verified
    BY <2>14
  <2>16. options.probe = "all" /\ result.status = "passed" => result.targets # <<>> BY <2>2, <1>12, <1>21
  <2>17. result.auth = "rejected" => verified = {} BY <2>2
  <2>18. (result.status = "passed") <=> (result.code = "") BY <2>2
  <2> QED BY <2>10, <2>11, <2>12, <2>13, <2>15, <2>16, <2>17, <2>18
<1>22. CASE ~run.err /\ probes # <<>> /\ ~(Len(ok) > 0)
  <2>1. result = [probed EXCEPT !.code = HealthFailureCode(run.health, "verification_failed")]
    BY <1>1, <1>3, <1>7, <1>22 DEF ResultOf
  <2>2. /\ result.verified = Len(ok) /\ result.failed = Len(probes) - Len(ok)
        /\ result.probed = Len(probes) /\ result.status = "failed" /\ result.targets = targets
        /\ result.completion = IF Len(ok) = Len(probes) THEN "verified" ELSE "failed"
        /\ result.code = HealthFailureCode(run.health, "verification_failed")
    BY <2>1
  <2>3. result.code # "" BY <2>2, <1>17
  <2>4. Len(ok) = 0 BY <1>16, <1>22
  <2>5. Len(probes) > 0 BY <1>15, <1>16, <1>22
  <2>6. verified = {} BY <2>4, <1>6
  <2>10. result.verified + result.failed = result.probed BY <2>2, <1>16
  <2>11. (result.status = "passed") <=> (verified # {}) BY <2>2, <2>6
  <2>12. (result.completion = "verified") <=> (result.probed > 0 /\ result.failed = 0) BY <2>2, <2>4, <2>5, <1>16
  <2>13. IsInjective(result.targets) BY <2>2, <1>9
  <2>14. /\ result.probed > 0
         /\ ToSet(result.targets) = IF options.publish = "catalog_discovered" THEN named ELSE named \cap verified
    BY <2>2, <2>5, <1>22, <1>24
  <2>15. ToSet(result.targets) =
            CASE result.probed = 0 -> {}
              [] result.probed > 0 /\ options.publish = "catalog_discovered" -> named
              [] OTHER -> named \cap verified
    BY <2>14
  <2>16. options.probe = "all" /\ result.status = "passed" => result.targets # <<>> BY <2>2
  <2>17. result.auth = "rejected" => verified = {} BY <2>2, <2>6
  <2>18. (result.status = "passed") <=> (result.code = "") BY <2>2, <2>3
  <2> QED BY <2>10, <2>11, <2>12, <2>13, <2>15, <2>16, <2>17, <2>18
<1> QED BY <1>19, <1>20, <1>21, <1>22

----------------------------------------------------------------------------
(* The steps of the automation.                                            *)

LEMMA IdleIsRun == Idle \in Run
<1>1. 1 \in 1..Len(Profiles)
  <2>1. Profiles \in Seq(ToSet(Profiles)) /\ Profiles # <<>> BY AnonymousConstants
  <2> QED BY <2>1
<1>2. PICK none : none = <<>> OBVIOUS
<1>3. none \in Seq(RawId) /\ none \in Seq([model : RawId, ok : BOOLEAN])
  <2>1. <<>> \in Seq(RawId) /\ <<>> \in Seq([model : RawId, ok : BOOLEAN]) OBVIOUS
  <2> QED BY <1>2, <2>1
<1>4. PICK unknown : unknown = UnknownHealth OBVIOUS
<1>5. unknown \in [status : {"", "healthy", "degraded", "unhealthy"},
                   class : {"", "none", "auth", "forbidden", "rate_limited", "transport", "upstream"},
                   permanent : BOOLEAN, retryable : BOOLEAN]
  BY <1>4 DEF UnknownHealth, Health
<1>6. Idle = [kind |-> "scheduler", pc |-> "run", at |-> 1, ended |-> FALSE, on |-> TRUE, claimed |-> 0,
              generation |-> 0, seen |-> 0, models |-> none, targets |-> none, probes |-> none,
              health |-> unknown, catalog |-> "not_probed", err |-> FALSE, foul |-> FALSE]
  BY <1>2, <1>4 DEF Idle
<1> HIDE <1>2, <1>4
<1> QED BY <1>1, <1>3, <1>5, <1>6 DEF Run

\* Where a run is over, or at a profile's gate, nothing has been seen.
LEMMA LeavesGood ==
    ASSUME NEW run \in Run
    PROVE  /\ Good(Leave(run)) /\ Leave(run).kind = run.kind /\ Leave(run).pc \in {"wait", "exited"}
           /\ Good(NextProfile(run)) /\ NextProfile(run).kind = run.kind
           /\ NextProfile(run).pc \in {"wait", "exited", "gate"}
<1>1. Len(Profiles) \in Nat /\ 1 \in 1..Len(Profiles) /\ run.at \in 1..Len(Profiles)
  <2>1. Profiles \in Seq(ToSet(Profiles)) /\ Profiles # <<>> BY AnonymousConstants
  <2>2. Len(Profiles) \in Nat /\ Len(Profiles) # 0 BY <2>1
  <2>3. run.at \in 1..Len(Profiles) BY DEF Run
  <2> QED BY <2>2, <2>3
<1>2. ASSUME NEW label \in {"wait", "exited", "gate"}, NEW at \in 1..Len(Profiles), NEW new,
             new = [Idle EXCEPT !.kind = run.kind, !.ended = run.ended, !.pc = label, !.at = at]
      PROVE  Good(new) /\ new.pc = label /\ new.kind = run.kind
  <2>1. run.kind \in {"scheduler", "manual"} /\ run.ended \in BOOLEAN BY DEF Run
  <2>2. new \in Run /\ new.pc = label /\ new.kind = run.kind
    <3>1. PICK idle \in Run : idle = Idle BY IdleIsRun
    <3>2. new = [idle EXCEPT !.kind = run.kind, !.ended = run.ended, !.pc = label, !.at = at] BY <1>2, <3>1
    <3> HIDE <3>1
    <3> QED BY <2>1, <3>2 DEF Run
  <2>3. Unstarted(new) /\ ~new.foul BY <1>2 DEF Unstarted, Idle
  <2>4. RunSound(new)
    <3>1. Len(new.probes) + Len(new.targets) <= Len(new.models)
      <4>1. new.probes = <<>> /\ new.targets = <<>> /\ new.models = <<>> BY <2>3 DEF Unstarted
      <4> QED BY <4>1
    <3>2. new.pc \notin {"probe", "record"} BY <1>2, <2>2
    <3> QED BY <2>2, <2>3, <3>1, <3>2 DEF RunSound
  <2> QED BY <1>2, <2>2, <2>3, <2>4 DEF Good, ProbesOfCatalog, Dated, KnowsOn, Unstarted
<1>3. PICK label \in {"wait", "exited"} : label = IF run.kind = "scheduler" THEN "wait" ELSE "exited" OBVIOUS
<1>4. Leave(run) = [Idle EXCEPT !.kind = run.kind, !.ended = run.ended, !.pc = label, !.at = 1]
  <2>1. Leave(run) = [Idle EXCEPT !.kind = run.kind, !.ended = run.ended, !.pc = label] BY <1>3 DEF Leave
  <2>2. Leave(run) =
            [kind |-> run.kind, pc |-> label, at |-> 1, ended |-> run.ended, on |-> TRUE, claimed |-> 0,
             generation |-> 0, seen |-> 0, models |-> <<>>, targets |-> <<>>, probes |-> <<>>,
             health |-> UnknownHealth, catalog |-> "not_probed", err |-> FALSE, foul |-> FALSE]
    BY <2>1 DEF Idle
  <2>3. ASSUME NEW new, new = [Idle EXCEPT !.kind = run.kind, !.ended = run.ended, !.pc = label, !.at = 1]
        PROVE  new = [kind |-> run.kind, pc |-> label, at |-> 1, ended |-> run.ended, on |-> TRUE, claimed |-> 0,
             generation |-> 0, seen |-> 0, models |-> <<>>, targets |-> <<>>, probes |-> <<>>,
             health |-> UnknownHealth, catalog |-> "not_probed", err |-> FALSE, foul |-> FALSE]
    BY <2>3 DEF Idle
  <2> QED BY <2>2, <2>3
<1>5. Good(Leave(run)) /\ Leave(run).pc \in {"wait", "exited"} /\ Leave(run).kind = run.kind
  <2>1. PICK next \in {"wait", "exited", "gate"} : next = label OBVIOUS
  <2>2. PICK first \in 1..Len(Profiles) : first = 1 BY <1>1
  <2>3. PICK left : left = Leave(run) OBVIOUS
  <2>4. left = [Idle EXCEPT !.kind = run.kind, !.ended = run.ended, !.pc = next, !.at = first]
    BY <1>4, <2>1, <2>2, <2>3
  <2>5. Good(left) /\ left.pc = next /\ left.kind = run.kind BY <1>2, <2>4
  <2> QED BY <2>1, <2>3, <2>5
<1>6. CASE run.at = Len(Profiles)
  <2>1. NextProfile(run) = Leave(run) BY <1>6 DEF NextProfile
  <2> QED BY <1>5, <2>1
<1>7. CASE run.at # Len(Profiles)
  <2>1. run.at + 1 \in 1..Len(Profiles) BY <1>1, <1>7
  <2>2. NextProfile(run) = [Leave(run) EXCEPT !.pc = "gate", !.at = run.at + 1] BY <1>7 DEF NextProfile
  <2>3. NextProfile(run) = [Idle EXCEPT !.kind = run.kind, !.ended = run.ended, !.pc = "gate", !.at = run.at + 1]
    BY <1>4, <2>2 DEF Idle
  <2>4. "gate" \in {"wait", "exited", "gate"} OBVIOUS
  <2>5. PICK left : left = NextProfile(run) OBVIOUS
  <2>6. left = [Idle EXCEPT !.kind = run.kind, !.ended = run.ended, !.pc = "gate", !.at = run.at + 1]
    BY <2>3, <2>5
  <2>7. Good(left) /\ left.pc = "gate" /\ left.kind = run.kind BY <1>2, <2>1, <2>4, <2>6
  <2> QED BY <1>5, <2>5, <2>7
<1> QED BY <1>6, <1>7

\* A run is where its checks may be.
CheckPCs == {"confirm", "generation", "discover", "probe", "record"}

\* A step of one run that leaves the hooks and the stop alone: the run is as good
\* as before, makes no scheduled check without its claim, and records no failure
\* of the stop.
LEMMA RunSteps ==
    ASSUME AnonymousInv, NEW r \in Runner, NEW run, Set(r, run),
           UNCHANGED <<hooks, stops>>, reached' = {}, runs[r].pc # "exited", Good(run),
           \/ run.pc \notin CheckPCs \/ run.kind # "scheduler"
           \/ /\ run.at = runs[r].at /\ run.claimed = runs[r].claimed /\ run.kind = runs[r].kind
              /\ runs[r].pc \in CheckPCs,
           \/ Unrecorded
           \/ recorded'.foul = FALSE /\ (recorded'.generation = recorded'.current => recorded'.seen = recorded'.current)
    PROVE  AnonymousInv'
<1>1. runs \in [Runner -> Run] /\ \A q \in Runner : Good(runs[q]) BY DEF AnonymousInv, RunsSound
<1>2. run \in Run BY DEF Good, RunSound
<1>3. runs' = [runs EXCEPT ![r] = run] BY DEF Set
<1>4. runs' \in [Runner -> Run] BY <1>1, <1>2, <1>3
<1>5. /\ options' = options /\ enabled' = enabled /\ claims' = claims /\ generation' = generation
      /\ instant' = instant /\ edits' = edits /\ stops' = stops
  BY DEF hooks
<1>6. ASSUME NEW q \in Runner PROVE Good(runs[q])'
  <2>1. Good(runs'[q]) BY <1>1, <1>3
  <2> QED BY <2>1, <1>5 DEF Good, ProbesOfCatalog, Dated, KnowsOn
<1>7. RunsSound' BY <1>4, <1>6 DEF RunsSound
<1>8. HooksTypeOK' BY <1>5 DEF AnonymousInv, HooksTypeOK
<1>9. CodexNeverReached' BY DEF CodexNeverReached
<1>10. OneCheckPerInterval'
  <2>1. OneCheckPerInterval BY DEF AnonymousInv
  <2>2. ASSUME NEW q \in Runner, Checking(q)'
        PROVE  Checking(q) /\ Of(q)' = Of(q) /\ runs'[q].claimed = runs[q].claimed
    <3>1. CASE q # r BY <1>1, <1>3, <2>2, <3>1 DEF Checking, Of
    <3>2. CASE q = r
      <4>1. runs'[r] = run BY <1>1, <1>3
      <4> QED BY <2>2, <3>2, <4>1 DEF Checking, Of, CheckPCs
    <3> QED BY <3>1, <3>2
  <2> QED BY <2>1, <2>2, <1>5 DEF OneCheckPerInterval
<1>11. StoppedIsOver'
  <2>1. StoppedIsOver BY DEF AnonymousInv
  <2>2. runs[Stopped].pc = "exited" => runs'[Stopped] = runs[Stopped] BY <1>1, <1>3
  <2> QED BY <2>1, <2>2, <1>5 DEF StoppedIsOver
<1>12. StopIsNotEvidence' /\ EvidenceOfItsGeneration'
  BY DEF Unrecorded, StopIsNotEvidence, EvidenceOfItsGeneration
<1> QED BY <1>7, <1>8, <1>9, <1>10, <1>11, <1>12 DEF AnonymousInv

\* The state the automation starts in.
LEMMA AnonymousInit ==
    ASSUME Init PROVE AnonymousInv
<1>1. PICK kind \in [Runner -> {"scheduler", "manual"}] : runs = [r \in Runner |-> [Idle EXCEPT !.kind = kind[r]]]
  BY AnonymousConstants DEF Init
<1>2. ASSUME NEW r \in Runner PROVE Good(runs[r]) /\ runs[r].pc = "run"
  <2>1. PICK new : new = runs[r] OBVIOUS
  <2>2. new = [Idle EXCEPT !.kind = kind[r]] BY <1>1, <2>1
  <2>3. new = [kind |-> kind[r], pc |-> "run", at |-> 1, ended |-> FALSE, on |-> TRUE, claimed |-> 0,
               generation |-> 0, seen |-> 0, models |-> <<>>, targets |-> <<>>, probes |-> <<>>,
               health |-> UnknownHealth, catalog |-> "not_probed", err |-> FALSE, foul |-> FALSE]
    BY <2>2 DEF Idle
  <2>4. new \in Run
    <3>1. UnknownHealth \in HealthRecord BY DEF HealthRecord, UnknownHealth, Health
    <3>2. <<>> \in Seq(RawId) /\ <<>> \in Seq([model : RawId, ok : BOOLEAN]) /\ 0 \in Nat OBVIOUS
    <3>3. 1 \in 1..Len(Profiles)
      <4>1. Profiles \in Seq(ToSet(Profiles)) /\ Profiles # <<>> BY AnonymousConstants
      <4> QED BY <4>1
    <3>4. kind[r] \in {"scheduler", "manual"} OBVIOUS
    <3> QED BY <2>3, <3>1, <3>2, <3>3, <3>4 DEF Run, HealthRecord
  <2>5. Unstarted(new) /\ new.pc = "run" BY <2>3 DEF Unstarted
  <2>6. RunSound(new)
    <3>1. Len(new.probes) + Len(new.targets) <= Len(new.models)
      <4>1. new.probes = <<>> /\ new.targets = <<>> /\ new.models = <<>> BY <2>5 DEF Unstarted
      <4> QED BY <4>1
    <3> QED BY <2>4, <2>5, <3>1 DEF RunSound, Unstarted
  <2> QED BY <2>1, <2>5, <2>6 DEF Good, ProbesOfCatalog, Dated, KnowsOn, Unstarted
<1>3. RunsSound
  <2>1. runs \in [Runner -> Run] BY <1>1, <1>2 DEF Good, RunSound
  <2> QED BY <2>1, <1>2 DEF RunsSound
<1>4. HooksTypeOK BY AnonymousConstants DEF Init, HooksTypeOK, Stopper
<1>5. CodexNeverReached /\ StopIsNotEvidence /\ EvidenceOfItsGeneration
  BY DEF Init, CodexNeverReached, StopIsNotEvidence, EvidenceOfItsGeneration
<1>6. OneCheckPerInterval BY <1>2 DEF OneCheckPerInterval, Checking
<1>7. StoppedIsOver BY DEF Init, StoppedIsOver
<1> QED BY <1>3, <1>4, <1>5, <1>6, <1>7 DEF AnonymousInv

\* What a step of a run starts from.
LEMMA RunFacts ==
    ASSUME AnonymousInv, NEW r \in Runner, NEW run, run = runs[r]
    PROVE  /\ run \in Run /\ Good(run) /\ reached = {}
           /\ Of(r) = Profiles[run.at] /\ Of(r) \in Providers /\ run.at \in 1..Len(Profiles)
           /\ claims \in [Providers -> Nat] /\ generation \in [Providers -> Nat] /\ instant \in Nat
<1>1. run \in Run /\ Good(run) BY DEF AnonymousInv, RunsSound
<1>2. run.at \in 1..Len(Profiles) BY <1>1 DEF Run
<1>3. Profiles \in Seq(ToSet(Profiles)) BY AnonymousConstants
<1>4. Profiles[run.at] \in Providers BY <1>2, <1>3 DEF Providers
<1> QED BY <1>1, <1>2, <1>4 DEF AnonymousInv, HooksTypeOK, CodexNeverReached, Of

\* The hooks' own steps.
LEMMA HooksStep ==
    ASSUME AnonymousInv, Toggle \/ ClockAdvances \/ \E p \in Providers : Reconfigure(p)
    PROVE  AnonymousInv'
<1>1. ASSUME Toggle PROVE AnonymousInv'
  <2>1. runs \in [Runner -> Run] /\ \A r \in Runner : Good(runs[r]) BY DEF AnonymousInv, RunsSound
  <2>2. /\ enabled' = ~enabled /\ edits' = edits + 1 /\ edits < MaxEdits /\ edits \in 0..MaxEdits
        /\ options' = options /\ claims' = claims /\ generation' = generation /\ instant' = instant
        /\ stops' = stops /\ reached' = reached /\ recorded' = NoResult
        /\ enabled \in BOOLEAN
    BY <1>1 DEF Toggle, Unrecorded, AnonymousInv, HooksTypeOK
  <2>3. ASSUME NEW r \in Runner
        PROVE  /\ Good(runs[r])' /\ runs'[r] \in Run
               /\ runs'[r] = [runs[r] EXCEPT !.on = @ \/ ~enabled]
               /\ runs'[r].pc = runs[r].pc /\ runs'[r].at = runs[r].at
               /\ runs'[r].kind = runs[r].kind /\ runs'[r].claimed = runs[r].claimed
    <3>1. runs'[r] = [runs[r] EXCEPT !.on = @ \/ ~enabled] BY <1>1 DEF Toggle
    <3>2. PICK new : new = runs'[r] OBVIOUS
    <3>3. PICK run \in Run : run = runs[r] BY <2>1
    <3>4. PICK on \in BOOLEAN : on = (run.on \/ ~enabled) OBVIOUS
    <3>5. new = [run EXCEPT !.on = on] BY <3>1, <3>2, <3>3, <3>4
    <3>6. new \in Run BY <3>5 DEF Run
    <3>7. /\ new.kind = run.kind /\ new.pc = run.pc /\ new.at = run.at /\ new.ended = run.ended
          /\ new.generation = run.generation /\ new.seen = run.seen /\ new.models = run.models
          /\ new.targets = run.targets /\ new.probes = run.probes /\ new.catalog = run.catalog
          /\ new.err = run.err /\ new.foul = run.foul /\ new.on = on /\ new.claimed = run.claimed
      BY <3>5 DEF Run
    <3>8. Good(run) BY <2>1, <3>3
    <3>9. RunSound(new) BY <3>6, <3>7, <3>8 DEF Good, RunSound, Unstarted
    <3>10. Dated(new)' /\ ProbesOfCatalog(new)' BY <2>2, <3>7, <3>8 DEF Good, Dated, ProbesOfCatalog
    <3>11. KnowsOn(new)' BY <2>2, <3>4, <3>7, <3>8 DEF Good, KnowsOn
    <3> QED BY <3>1, <3>2, <3>3, <3>6, <3>7, <3>9, <3>10, <3>11 DEF Good
  <2>4. RunsSound'
    <3>1. runs' = [r \in Runner |-> [runs[r] EXCEPT !.on = @ \/ ~enabled]] BY <1>1 DEF Toggle
    <3> QED BY <2>3, <3>1 DEF RunsSound
  <2>5. HooksTypeOK' BY <2>2, AnonymousConstants DEF AnonymousInv, HooksTypeOK
  <2>6. \A r \in Runner : /\ runs'[r].pc = runs[r].pc /\ runs'[r].at = runs[r].at
                          /\ runs'[r].kind = runs[r].kind /\ runs'[r].claimed = runs[r].claimed
    BY <2>3
  <2>7. OneCheckPerInterval' BY <2>2, <2>6 DEF AnonymousInv, OneCheckPerInterval, Checking, Of
  <2>8. StoppedIsOver' BY <2>2, <2>6, AnonymousConstants DEF AnonymousInv, StoppedIsOver
  <2>9. CodexNeverReached' BY <2>2 DEF AnonymousInv, CodexNeverReached
  <2>10. StopIsNotEvidence' /\ EvidenceOfItsGeneration' BY <2>2 DEF StopIsNotEvidence, EvidenceOfItsGeneration
  <2> QED BY <2>4, <2>5, <2>7, <2>8, <2>9, <2>10 DEF AnonymousInv
<1>2. ASSUME ClockAdvances PROVE AnonymousInv'
  <2>1. /\ instant' = instant + 1 /\ options' = options /\ enabled' = enabled /\ claims' = claims
        /\ generation' = generation /\ runs' = runs /\ stops' = stops /\ reached' = reached
        /\ edits' = edits /\ recorded' = NoResult
    BY <1>2 DEF ClockAdvances, Unrecorded
  <2>2. HooksTypeOK' BY <2>1 DEF AnonymousInv, HooksTypeOK
  <2>3. RunsSound' BY <2>1 DEF AnonymousInv, RunsSound, Good, Dated, KnowsOn, ProbesOfCatalog
  <2>4. OneCheckPerInterval' BY <2>1 DEF AnonymousInv, OneCheckPerInterval, Checking, Of
  <2>5. StoppedIsOver' /\ CodexNeverReached' BY <2>1 DEF AnonymousInv, StoppedIsOver, CodexNeverReached
  <2>6. StopIsNotEvidence' /\ EvidenceOfItsGeneration' BY <2>1 DEF StopIsNotEvidence, EvidenceOfItsGeneration
  <2> QED BY <2>2, <2>3, <2>4, <2>5, <2>6 DEF AnonymousInv
<1>3. ASSUME NEW p \in Providers, Reconfigure(p) PROVE AnonymousInv'
  <2>1. /\ instant' = instant /\ options' = options /\ enabled' = enabled /\ claims' = claims
        /\ runs' = runs /\ stops' = stops /\ reached' = reached /\ recorded' = NoResult
        /\ edits' = edits + 1 /\ edits < MaxEdits /\ edits \in 0..MaxEdits
        /\ generation' = [generation EXCEPT ![p] = @ + 1] /\ generation \in [Providers -> Nat]
    BY <1>3 DEF Reconfigure, Unrecorded, AnonymousInv, HooksTypeOK
  <2>2. generation' \in [Providers -> Nat] /\ \A o \in Providers : generation[o] <= generation'[o] BY <2>1
  <2>3. HooksTypeOK' BY <2>1, <2>2, AnonymousConstants DEF AnonymousInv, HooksTypeOK
  <2>4. RunsSound'
    <3>1. ASSUME NEW r \in Runner PROVE Good(runs[r])'
      <4>1. PICK run : run = runs[r] OBVIOUS
      <4>2. run \in Run /\ Good(run) /\ Profiles[run.at] \in Providers BY <4>1, RunFacts
      <4>3. run.generation \in Nat /\ run.seen \in Nat BY <4>2 DEF Run
      <4>4. PICK o \in Providers : o = Profiles[run.at] BY <4>2
      <4>5. generation[o] \in Nat /\ generation'[o] \in Nat /\ generation[o] <= generation'[o] BY <2>1, <2>2
      <4>6. Dated(run)' BY <4>2, <4>3, <4>4, <4>5 DEF Good, Dated
      <4>7. ProbesOfCatalog(run)' /\ KnowsOn(run)' BY <2>1, <4>2 DEF Good, ProbesOfCatalog, KnowsOn
      <4> QED BY <2>1, <4>1, <4>2, <4>6, <4>7 DEF Good
    <3> QED BY <2>1, <3>1 DEF AnonymousInv, RunsSound
  <2>5. OneCheckPerInterval' BY <2>1 DEF AnonymousInv, OneCheckPerInterval, Checking, Of
  <2>6. StoppedIsOver' /\ CodexNeverReached' BY <2>1 DEF AnonymousInv, StoppedIsOver, CodexNeverReached
  <2>7. StopIsNotEvidence' /\ EvidenceOfItsGeneration' BY <2>1 DEF StopIsNotEvidence, EvidenceOfItsGeneration
  <2> QED BY <2>3, <2>4, <2>5, <2>6, <2>7 DEF AnonymousInv
<1> QED BY <1>1, <1>2, <1>3

\* A run that has seen nothing may go where no check has begun, and on with a
\* check made while the automation was on.
LEMMA MovesGood ==
    ASSUME NEW run \in Run, Good(run), run.pc \notin {"probe", "record"},
           NEW label \in {"run", "claim", "generation", "wait", "exited"},
           run.kind = "scheduler" /\ label = "generation" => run.on,
           NEW new, new = [run EXCEPT !.pc = label]
    PROVE  Good(new) /\ new.kind = run.kind /\ new.at = run.at /\ new.claimed = run.claimed /\ new.pc = label
<1>1. /\ new \in Run /\ new.pc = label
      /\ new.kind = run.kind /\ new.at = run.at /\ new.ended = run.ended /\ new.claimed = run.claimed
      /\ new.models = run.models /\ new.targets = run.targets /\ new.probes = run.probes
      /\ new.err = run.err /\ new.foul = run.foul /\ new.on = run.on
  BY DEF Run
<1>2. RunSound(new) BY <1>1 DEF Good, RunSound, Unstarted
<1>3. ProbesOfCatalog(new) BY <1>1 DEF Good, ProbesOfCatalog
<1>4. Dated(new) /\ KnowsOn(new) BY <1>1 DEF Good, Dated, KnowsOn
<1> QED BY <1>1, <1>2, <1>3, <1>4 DEF Good

LEMMA EnrollStep ==
    ASSUME AnonymousInv, NEW r \in Runner, Enroll(r) PROVE AnonymousInv'
<1>1. PICK run : run = runs[r] OBVIOUS
<1>2. run \in Run /\ Good(run) /\ reached = {} BY <1>1, RunFacts
<1>3. /\ run.pc \in {"run", "gate"} /\ Unrecorded /\ UNCHANGED <<hooks, stops>> /\ reached' = {}
      /\ \/ Set(r, Leave(run)) \/ Set(r, NextProfile(run))
         \/ Set(r, [run EXCEPT !.pc = IF run.kind = "scheduler" THEN "claim" ELSE "generation"])
  BY <1>1, <1>2 DEF Enroll, Move
<1>4. CASE Set(r, Leave(run))
  <2>1. PICK new : new = Leave(run) OBVIOUS
  <2>2. Good(new) /\ new.pc \notin CheckPCs BY <1>2, <2>1, LeavesGood DEF CheckPCs
  <2> QED BY <1>1, <1>3, <1>4, <2>1, <2>2, RunSteps
<1>5. CASE Set(r, NextProfile(run))
  <2>1. PICK new : new = NextProfile(run) OBVIOUS
  <2>2. Good(new) /\ new.pc \notin CheckPCs BY <1>2, <2>1, LeavesGood DEF CheckPCs
  <2> QED BY <1>1, <1>3, <1>5, <2>1, <2>2, RunSteps
<1>6. CASE Set(r, [run EXCEPT !.pc = IF run.kind = "scheduler" THEN "claim" ELSE "generation"])
  <2>1. PICK label \in {"claim", "generation"} :
          label = (IF run.kind = "scheduler" THEN "claim" ELSE "generation") OBVIOUS
  <2>2. PICK new : new = [run EXCEPT !.pc = label] OBVIOUS
  <2>3. Good(new) /\ new.kind = run.kind /\ new.pc = label BY <1>2, <1>3, <2>1, <2>2, MovesGood
  <2>4. new.pc \notin CheckPCs \/ new.kind # "scheduler" BY <2>1, <2>3 DEF CheckPCs
  <2>5. Set(r, new) BY <1>6, <2>1, <2>2
  <2> QED BY <1>1, <1>3, <2>3, <2>4, <2>5, RunSteps
<1> QED BY <1>3, <1>4, <1>5, <1>6

LEMMA ConfirmStep ==
    ASSUME AnonymousInv, NEW r \in Runner, Confirm(r) PROVE AnonymousInv'
<1>1. PICK run : run = runs[r] OBVIOUS
<1>2. run \in Run /\ Good(run) /\ reached = {} BY <1>1, RunFacts
<1>3. /\ run.pc = "confirm" /\ Unrecorded /\ UNCHANGED <<hooks, stops>> /\ reached' = {}
      /\ \/ enabled /\ Set(r, [run EXCEPT !.pc = "generation"])
         \/ Set(r, Leave(run))
  BY <1>1, <1>2 DEF Confirm, Move
<1>4. CASE Set(r, Leave(run))
  <2>1. PICK new : new = Leave(run) OBVIOUS
  <2>2. Good(new) /\ new.pc \notin CheckPCs BY <1>2, <2>1, LeavesGood DEF CheckPCs
  <2> QED BY <1>1, <1>3, <1>4, <2>1, <2>2, RunSteps
<1>5. CASE enabled /\ Set(r, [run EXCEPT !.pc = "generation"])
  <2>1. PICK new : new = [run EXCEPT !.pc = "generation"] OBVIOUS
  <2>2. run.kind = "scheduler" => run.on BY <1>2, <1>3, <1>5 DEF Good, KnowsOn
  <2>3. Good(new) /\ new.kind = run.kind /\ new.at = run.at /\ new.claimed = run.claimed
    BY <1>2, <1>3, <2>1, <2>2, MovesGood
  <2>4. runs[r].pc \in CheckPCs /\ runs[r].pc # "exited" BY <1>1, <1>3 DEF CheckPCs
  <2>5. Set(r, new) BY <1>5, <2>1
  <2> QED BY <1>1, <1>3, <2>3, <2>4, <2>5, RunSteps
<1> QED BY <1>3, <1>4, <1>5

LEMMA GenerationStep ==
    ASSUME AnonymousInv, NEW r \in Runner, Generation(r) PROVE AnonymousInv'
<1>1. PICK run : run = runs[r] OBVIOUS
<1>2. run \in Run /\ Good(run) /\ reached = {} /\ Of(r) = Profiles[run.at] /\ Of(r) \in Providers
      /\ generation \in [Providers -> Nat]
  BY <1>1, RunFacts
<1>3. /\ run.pc = "generation" /\ Unrecorded /\ UNCHANGED <<hooks, stops>> /\ reached' = {}
      /\ \/ Set(r, [run EXCEPT !.pc = "discover", !.generation = generation[Of(r)]])
         \/ Set(r, NextProfile(run))
  BY <1>1, <1>2 DEF Generation
<1>4. CASE Set(r, NextProfile(run))
  <2>1. PICK new : new = NextProfile(run) OBVIOUS
  <2>2. Good(new) /\ new.pc \notin CheckPCs BY <1>2, <2>1, LeavesGood DEF CheckPCs
  <2> QED BY <1>1, <1>3, <1>4, <2>1, <2>2, RunSteps
<1>5. CASE Set(r, [run EXCEPT !.pc = "discover", !.generation = generation[Of(r)]])
  <2>1. PICK gen \in Nat : gen = generation[Of(r)] BY <1>2
  <2>2. PICK new : new = [run EXCEPT !.pc = "discover", !.generation = gen] OBVIOUS
  <2>3. /\ new \in Run /\ new.pc = "discover" /\ new.generation = gen
        /\ new.kind = run.kind /\ new.at = run.at /\ new.ended = run.ended /\ new.claimed = run.claimed
        /\ new.models = run.models /\ new.targets = run.targets /\ new.probes = run.probes
        /\ new.err = run.err /\ new.foul = run.foul /\ new.on = run.on
    BY <1>2, <2>1, <2>2 DEF Run
  <2>4. RunSound(new) BY <1>2, <1>3, <2>3 DEF Good, RunSound, Unstarted
  <2>5. ProbesOfCatalog(new) BY <1>2, <2>3 DEF Good, ProbesOfCatalog
  <2>6. Dated(new) BY <1>2, <2>1, <2>3 DEF Dated
  <2>7. KnowsOn(new) BY <1>2, <1>3, <2>3 DEF Good, KnowsOn
  <2>8. Good(new) BY <2>4, <2>5, <2>6, <2>7 DEF Good
  <2>9. runs[r].pc \in CheckPCs /\ runs[r].pc # "exited" BY <1>1, <1>3 DEF CheckPCs
  <2>10. Set(r, new) BY <1>5, <2>1, <2>2
  <2> QED BY <1>1, <1>3, <2>3, <2>8, <2>9, <2>10, RunSteps
<1> QED BY <1>3, <1>4, <1>5

LEMMA RecordStep ==
    ASSUME AnonymousInv, NEW r \in Runner, Record(r) PROVE AnonymousInv'
<1>1. PICK run : run = runs[r] OBVIOUS
<1>2. run \in Run /\ Good(run) /\ reached = {} /\ Of(r) = Profiles[run.at] /\ Of(r) \in Providers
      /\ generation \in [Providers -> Nat]
  BY <1>1, RunFacts
<1>3. /\ run.pc = "record" /\ UNCHANGED <<hooks, stops>> /\ reached' = {} /\ Set(r, NextProfile(run))
      /\ Unrecorded \/ (~run.ended /\ Persisted(r, run.generation))
  BY <1>1, <1>2 DEF Record
<1>4. PICK new : new = NextProfile(run) OBVIOUS
<1>5. Good(new) /\ new.pc \notin CheckPCs BY <1>2, <1>4, LeavesGood DEF CheckPCs
<1>6. CASE Unrecorded BY <1>1, <1>3, <1>4, <1>5, <1>6, RunSteps
<1>7. CASE ~run.ended /\ Persisted(r, run.generation)
  <2>1. /\ recorded'.foul = run.foul /\ recorded'.generation = run.generation
        /\ recorded'.current = generation[Of(r)] /\ recorded'.seen = run.seen
    BY <1>1, <1>7 DEF Persisted
  <2>2. run.foul = FALSE BY <1>2, <1>7 DEF Good, RunSound, Run
  <2>3. run.generation <= run.seen /\ run.seen <= generation[Of(r)] BY <1>2, <1>3 DEF Good, Dated
  <2>4. run.generation \in Nat /\ run.seen \in Nat /\ generation[Of(r)] \in Nat BY <1>2 DEF Run
  <2>5. run.generation = generation[Of(r)] => run.seen = generation[Of(r)] BY <2>3, <2>4
  <2>6. recorded'.foul = FALSE /\ (recorded'.generation = recorded'.current => recorded'.seen = recorded'.current)
    BY <2>1, <2>2, <2>5
  <2> QED BY <1>1, <1>3, <1>4, <1>5, <2>6, RunSteps
<1> QED BY <1>3, <1>6, <1>7

LEMMA SchedulerStep ==
    ASSUME AnonymousInv, NEW r \in Runner, Again(r) \/ Exit(r) \/ EndContext(r) PROVE AnonymousInv'
<1>1. PICK run : run = runs[r] OBVIOUS
<1>2. run \in Run /\ Good(run) /\ reached = {} BY <1>1, RunFacts
<1>3. Unrecorded /\ UNCHANGED <<hooks, stops>> /\ reached' = {} BY <1>2 DEF Again, Exit, EndContext
<1>4. ASSUME NEW label \in {"run", "exited"}, run.pc = "wait", Move(r, label) PROVE AnonymousInv'
  <2>1. PICK new : new = [run EXCEPT !.pc = label] OBVIOUS
  <2>2. Good(new) /\ new.pc = label BY <1>2, <1>4, <2>1, MovesGood
  <2>3. new.pc \notin CheckPCs BY <2>2 DEF CheckPCs
  <2>4. Set(r, new) BY <1>1, <1>4, <2>1 DEF Move
  <2> QED BY <1>1, <1>3, <1>4, <2>2, <2>3, <2>4, RunSteps
<1>5. CASE Again(r) BY <1>1, <1>4, <1>5 DEF Again
<1>6. CASE Exit(r) BY <1>1, <1>4, <1>6 DEF Exit
<1>7. CASE EndContext(r)
  <2>1. PICK new : new = [run EXCEPT !.ended = TRUE] OBVIOUS
  <2>2. /\ new \in Run /\ new.pc = run.pc /\ new.generation = run.generation /\ new.seen = run.seen
        /\ new.kind = run.kind /\ new.at = run.at /\ new.ended = TRUE /\ new.claimed = run.claimed
        /\ new.models = run.models /\ new.targets = run.targets /\ new.probes = run.probes
        /\ new.err = run.err /\ new.foul = run.foul /\ new.on = run.on /\ new.catalog = run.catalog
    BY <1>2, <2>1 DEF Run
  <2>3. RunSound(new) BY <1>2, <2>2 DEF Good, RunSound, Unstarted
  <2>4. Good(new) BY <1>2, <2>2, <2>3 DEF Good, ProbesOfCatalog, Dated, KnowsOn
  <2>5. Set(r, new) /\ run.pc # "exited" BY <1>1, <1>7, <2>1 DEF EndContext
  <2>6. new.pc \notin CheckPCs \/ runs[r].pc \in CheckPCs BY <1>1, <2>2
  <2> QED BY <1>1, <1>3, <2>2, <2>4, <2>5, <2>6, RunSteps
<1> QED BY <1>5, <1>6, <1>7

\* A claim that is given: the provider's was never made, or is long gone.
LEMMA ClaimStep ==
    ASSUME AnonymousInv, NEW r \in Runner, ClaimCheck(r) PROVE AnonymousInv'
<1>1. PICK run : run = runs[r] OBVIOUS
<1>2. PICK p : p = Of(r) OBVIOUS
<1>3. /\ run \in Run /\ Good(run) /\ reached = {} /\ p = Profiles[run.at] /\ p \in Providers
      /\ claims \in [Providers -> Nat] /\ instant \in Nat
  BY <1>1, <1>2, RunFacts
<1>4. /\ run.pc = "claim" /\ Unrecorded /\ reached' = {}
      /\ options' = options /\ enabled' = enabled /\ generation' = generation /\ instant' = instant
      /\ stops' = stops /\ edits' = edits
      /\ \/ /\ Claim(p) /\ claims' = [claims EXCEPT ![p] = instant]
            /\ Set(r, [run EXCEPT !.pc = "confirm", !.on = enabled, !.claimed = instant])
         \/ Set(r, NextProfile(run)) /\ claims' = claims
  BY <1>1, <1>2, <1>3 DEF ClaimCheck
<1>5. CASE Set(r, NextProfile(run)) /\ claims' = claims
  <2>1. PICK new : new = NextProfile(run) OBVIOUS
  <2>2. Good(new) /\ new.pc \notin CheckPCs BY <1>3, <2>1, LeavesGood DEF CheckPCs
  <2>3. UNCHANGED <<hooks, stops>> BY <1>4, <1>5 DEF hooks
  <2> QED BY <1>1, <1>4, <1>5, <2>1, <2>2, <2>3, RunSteps
<1>6. CASE /\ Claim(p) /\ claims' = [claims EXCEPT ![p] = instant]
           /\ Set(r, [run EXCEPT !.pc = "confirm", !.on = enabled, !.claimed = instant])
  <2>1. PICK new : new = [run EXCEPT !.pc = "confirm", !.on = enabled, !.claimed = instant] OBVIOUS
  <2>2. enabled \in BOOLEAN BY DEF AnonymousInv, HooksTypeOK
  <2>3. /\ new \in Run /\ new.pc = "confirm" /\ new.on = enabled /\ new.claimed = instant
        /\ new.kind = run.kind /\ new.at = run.at /\ new.ended = run.ended
        /\ new.models = run.models /\ new.targets = run.targets /\ new.probes = run.probes
        /\ new.err = run.err /\ new.foul = run.foul
    BY <1>3, <2>1, <2>2 DEF Run
  <2>4. RunSound(new) BY <1>3, <1>4, <2>3 DEF Good, RunSound, Unstarted
  <2>5. Good(new) BY <1>3, <2>3, <2>4 DEF Good, ProbesOfCatalog, Dated, KnowsOn
  <2>6. runs \in [Runner -> Run] /\ \A q \in Runner : Good(runs[q]) BY DEF AnonymousInv, RunsSound
  <2>7. runs' = [runs EXCEPT ![r] = new] BY <1>6, <2>1 DEF Set
  <2>8. runs'[r] = new /\ \A q \in Runner : q # r => runs'[q] = runs[q] BY <2>6, <2>7
  <2>9. RunsSound'
    <3>1. ASSUME NEW q \in Runner PROVE Good(runs[q])'
      <4>1. Good(runs'[q]) BY <2>5, <2>6, <2>8
      <4> QED BY <4>1, <1>4 DEF Good, ProbesOfCatalog, Dated, KnowsOn
    <3>2. runs' \in [Runner -> Run] BY <2>3, <2>6, <2>7
    <3> QED BY <3>1, <3>2 DEF RunsSound
  <2>10. HooksTypeOK' BY <1>3, <1>4, <1>6 DEF AnonymousInv, HooksTypeOK
  <2>11. StoppedIsOver'
    <3>1. runs[Stopped].pc = "exited" => runs'[Stopped] = runs[Stopped]
      BY <1>1, <1>4, <2>8, AnonymousConstants
    <3> QED BY <3>1, <1>4 DEF AnonymousInv, StoppedIsOver
  <2>12. OneCheckPerInterval'
    <3>1. instant - claims[p] >= Every /\ Every \in Nat /\ Every > 0 BY <1>6, AnonymousConstants DEF Claim
    <3>2. ASSUME NEW q \in Runner, q # r, Checking(q)'
          PROVE  /\ Checking(q) /\ Of(q)' = Of(q) /\ runs'[q].claimed = runs[q].claimed
                 /\ runs[q].claimed \in Nat /\ Of(q) \in Providers
                 /\ claims[Of(q)] = runs[q].claimed \/ claims[Of(q)] - runs[q].claimed >= Every
      <4>1. Checking(q) /\ Of(q)' = Of(q) /\ runs'[q].claimed = runs[q].claimed
        BY <2>8, <3>2 DEF Checking, Of
      <4>2. runs[q].claimed \in Nat BY <2>6 DEF Run
      <4>3. Of(q) \in Providers BY RunFacts
      <4> QED BY <4>1, <4>2, <4>3 DEF AnonymousInv, OneCheckPerInterval
    <3>3. ASSUME NEW q \in Runner, q # r, Checking(q)', Of(q) = p
          PROVE  instant - runs'[q].claimed >= Every /\ runs'[q].claimed # instant
      <4>1. PICK c \in Nat : c = runs[q].claimed BY <3>2, <3>3
      <4>2. claims[p] = c \/ claims[p] - c >= Every BY <3>2, <3>3, <4>1
      <4>3. claims[p] \in Nat BY <1>3
      <4>4. instant - c >= Every BY <1>3, <3>1, <4>2, <4>3
      <4>5. c # instant BY <1>3, <3>1, <4>4
      <4> QED BY <3>2, <3>3, <4>1, <4>4, <4>5
    <3>4. Of(r)' = p /\ runs'[r].claimed = instant BY <1>3, <2>3, <2>8 DEF Of
    <3>5. claims'[p] = instant /\ \A o \in Providers : o # p => claims'[o] = claims[o] BY <1>3, <1>6
    <3>6. ASSUME NEW q \in Runner, Checking(q)'
          PROVE  claims'[Of(q)'] = runs'[q].claimed \/ claims'[Of(q)'] - runs'[q].claimed >= Every
      <4>1. CASE q = r BY <4>1, <3>4, <3>5
      <4>2. CASE q # r /\ Of(q) = p
        <5>1. instant - runs'[q].claimed >= Every BY <3>3, <3>6, <4>2
        <5>2. Of(q)' = p BY <3>2, <3>6, <4>2
        <5> QED BY <5>1, <5>2, <3>5
      <4>3. CASE q # r /\ Of(q) # p
        <5>1. claims'[Of(q)'] = claims[Of(q)] /\ runs'[q].claimed = runs[q].claimed
          BY <3>2, <3>5, <3>6, <4>3
        <5> QED BY <5>1, <3>2, <3>6, <4>3
      <4> QED BY <4>1, <4>2, <4>3
    <3>7. ASSUME NEW a \in Runner, NEW q \in Runner, a # q, Checking(a)', Checking(q)', Of(q)' = Of(a)'
          PROVE  runs'[q].claimed # runs'[a].claimed
      <4>1. CASE a = r
        <5>1. q # r /\ Of(q) = p BY <3>2, <3>4, <3>7, <4>1
        <5> QED BY <5>1, <3>3, <3>4, <3>7, <4>1
      <4>2. CASE q = r
        <5>1. a # r /\ Of(a) = p BY <3>2, <3>4, <3>7, <4>2
        <5> QED BY <5>1, <3>3, <3>4, <3>7, <4>2
      <4>3. CASE a # r /\ q # r
        <5>1. /\ Checking(a) /\ Checking(q) /\ Of(q) = Of(a)
              /\ runs'[q].claimed = runs[q].claimed /\ runs'[a].claimed = runs[a].claimed
          BY <3>2, <3>7, <4>3
        <5> QED BY <5>1, <3>7 DEF AnonymousInv, OneCheckPerInterval
      <4> QED BY <4>1, <4>2, <4>3
    <3> QED BY <3>6, <3>7 DEF OneCheckPerInterval
  <2>13. CodexNeverReached' /\ StopIsNotEvidence' /\ EvidenceOfItsGeneration'
    BY <1>4 DEF CodexNeverReached, StopIsNotEvidence, EvidenceOfItsGeneration, Unrecorded
  <2> QED BY <2>9, <2>10, <2>11, <2>12, <2>13 DEF AnonymousInv
<1> QED BY <1>4, <1>5, <1>6

\* A failure is read as a health.
LEMMA FailureClasses ==
    ASSUME NEW run, NEW status \in FailsWith(run)
    PROVE  ClassifyProviderFailure(status) \in HealthRecord
<1>1. status \in Int BY AnonymousConstants DEF FailsWith, Statuses
<1>2. PICK upstream \in BOOLEAN : upstream = (status = 408 \/ status >= 500) BY <1>1
<1> QED BY <1>2 DEF ClassifyProviderFailure, Health, HealthRecord

\* A run that has seen nothing has probed nothing outside its catalog.
LEMMA NothingSeen ==
    ASSUME NEW run, run.probes = <<>>, run.targets = <<>>, run.models = <<>>
    PROVE  Len(run.probes) + Len(run.targets) <= Len(run.models) /\ ProbesOfCatalog(run)
BY DEF ProbesOfCatalog

\* The catalog is read of providers that are not Codex's, and what is probed is
\* in it.
LEMMA DiscoverStep ==
    ASSUME AnonymousInv, NEW r \in Runner, Discover(r) PROVE AnonymousInv'
<1>1. PICK run : run = runs[r] OBVIOUS
<1>2. PICK p : p = Of(r) OBVIOUS
<1>3. /\ run \in Run /\ Good(run) /\ reached = {} /\ p = Profiles[run.at] /\ p \in Providers
      /\ generation \in [Providers -> Nat]
  BY <1>1, <1>2, RunFacts
<1>4. PICK gen \in Nat : gen = generation[p] BY <1>3
<1>5. PICK saw : saw = [run EXCEPT !.seen = gen] OBVIOUS
<1>6. /\ saw \in Run /\ saw.pc = run.pc /\ saw.generation = run.generation /\ saw.seen = gen
      /\ saw.kind = run.kind /\ saw.at = run.at /\ saw.ended = run.ended /\ saw.claimed = run.claimed
      /\ saw.models = run.models /\ saw.targets = run.targets /\ saw.probes = run.probes
      /\ saw.err = run.err /\ saw.foul = run.foul /\ saw.on = run.on
  BY <1>3, <1>4, <1>5 DEF Run
<1>7. run.pc = "discover" /\ Unrecorded /\ UNCHANGED <<hooks, stops>> BY <1>1, <1>3 DEF Discover, Run
<1>8. Unstarted(saw) /\ (saw.kind = "scheduler" => saw.on) /\ saw.generation <= generation[p]
  BY <1>3, <1>6, <1>7 DEF Good, RunSound, Unstarted, KnowsOn, Dated
<1>9. Validate(Connection(p)) => p \notin Codex BY DEF Validate, Connection
<1>10. reached' = {} BY <1>2, <1>3, <1>9 DEF Discover
<1>11. ASSUME NEW new \in Run, Set(r, new), RunSound(new), ProbesOfCatalog(new),
              new.pc \in {"probe", "record"}, new.kind = run.kind, new.at = run.at,
              new.claimed = run.claimed, new.generation = run.generation, new.seen = gen, new.on = run.on
       PROVE  AnonymousInv'
  <2>1. Good(new) BY <1>3, <1>4, <1>6, <1>8, <1>11 DEF Good, Dated, KnowsOn
  <2>2. runs[r].pc \in CheckPCs /\ runs[r].pc # "exited" BY <1>1, <1>7 DEF CheckPCs
  <2> QED BY <1>1, <1>7, <1>10, <1>11, <2>1, <2>2, RunSteps
<1>12. ASSUME NEW new, NEW catalog \in {"", "failed"}, NEW assessed \in HealthRecord, NEW foul \in BOOLEAN,
              new = [saw EXCEPT !.pc = "record", !.catalog = catalog, !.err = TRUE,
                                !.health = assessed, !.foul = foul],
              foul => run.ended, Set(r, new)
       PROVE  AnonymousInv'
  <2>1. /\ new \in Run /\ new.pc = "record" /\ new.err = TRUE /\ new.foul = foul
        /\ new.kind = run.kind /\ new.at = run.at /\ new.ended = run.ended /\ new.claimed = run.claimed
        /\ new.generation = run.generation /\ new.seen = gen /\ new.on = run.on
        /\ new.models = <<>> /\ new.targets = <<>> /\ new.probes = <<>>
    BY <1>6, <1>8, <1>12 DEF Run, HealthRecord, Unstarted
  <2>2. RunSound(new)
    <3>1. Len(new.probes) + Len(new.targets) <= Len(new.models)
      <4>1. new.probes = <<>> /\ new.targets = <<>> /\ new.models = <<>> BY <2>1
      <4> QED BY <4>1, NothingSeen
    <3>2. new.foul => new.ended BY <1>12, <2>1
    <3>3. new.probes = <<>> BY <2>1
    <3> QED BY <2>1, <3>1, <3>2, <3>3 DEF RunSound
  <2>3. ProbesOfCatalog(new)
    <3>1. new.probes = <<>> /\ new.targets = <<>> /\ new.models = <<>> BY <2>1
    <3> QED BY <3>1, NothingSeen
  <2> QED BY <1>11, <1>12, <2>1, <2>2, <2>3
<1>13. CASE Set(r, [saw EXCEPT !.pc = "record", !.err = TRUE, !.catalog = ""])
  <2>1. PICK new : new = [saw EXCEPT !.pc = "record", !.err = TRUE, !.catalog = ""] OBVIOUS
  <2>2. saw.health \in HealthRecord /\ saw.foul = FALSE BY <1>6, <1>8 DEF Run, HealthRecord, Unstarted
  <2>3. new = [saw EXCEPT !.pc = "record", !.catalog = "", !.err = TRUE, !.health = saw.health, !.foul = FALSE]
    BY <1>6, <2>1, <2>2 DEF Run
  <2>4. Set(r, new) BY <1>13, <2>1
  <2> QED BY <1>12, <2>2, <2>3, <2>4
<1>14. CASE \E status \in FailsWith(saw) :
                Set(r, [saw EXCEPT !.pc = "record", !.catalog = "failed", !.err = TRUE,
                                   !.health = ClassifyProviderFailure(status), !.foul = saw.ended])
  <2>1. PICK status \in FailsWith(saw) :
                Set(r, [saw EXCEPT !.pc = "record", !.catalog = "failed", !.err = TRUE,
                                   !.health = ClassifyProviderFailure(status), !.foul = saw.ended])
    BY <1>14
  <2>2. ClassifyProviderFailure(status) \in HealthRecord BY FailureClasses
  <2>3. saw.ended \in BOOLEAN /\ saw.ended = run.ended BY <1>6 DEF Run
  <2> QED BY <1>12, <2>1, <2>2, <2>3
<1>15. CASE \E models \in Lists[r] :
                Set(r, [saw EXCEPT !.pc = IF ProbeTargets(models) = <<>> THEN "record" ELSE "probe",
                                   !.catalog = IF models = <<>> THEN "empty" ELSE "discovered",
                                   !.models = models, !.targets = ProbeTargets(models), !.health = Healthy])
            /\ Validate(Connection(p))
  <2>1. PICK models \in Seq(RawId) :
                Set(r, [saw EXCEPT !.pc = IF ProbeTargets(models) = <<>> THEN "record" ELSE "probe",
                                   !.catalog = IF models = <<>> THEN "empty" ELSE "discovered",
                                   !.models = models, !.targets = ProbeTargets(models), !.health = Healthy])
    BY <1>15, AnonymousConstants
  <2>2. PICK targets : targets = ProbeTargets(models) OBVIOUS
  <2>3. /\ targets \in Seq(RawId) /\ Len(targets) <= Len(models)
        /\ options.probe = "all" => targets = Distinct(models)
    BY <2>2, ProbeTargetsKeep
  <2>4. PICK label \in {"probe", "record"} : label = IF targets = <<>> THEN "record" ELSE "probe" OBVIOUS
  <2>5. PICK catalog \in {"empty", "discovered"} :
          catalog = IF models = <<>> THEN "empty" ELSE "discovered" OBVIOUS
  <2>6. PICK new : new = [saw EXCEPT !.pc = label, !.catalog = catalog, !.models = models,
                                     !.targets = targets, !.health = Healthy] OBVIOUS
  <2>7. Set(r, new) BY <2>1, <2>2, <2>4, <2>5, <2>6
  <2>8. Healthy \in HealthRecord BY DEF Healthy, Health, HealthRecord
  <2>9. /\ new \in Run /\ new.pc = label /\ new.err = FALSE /\ new.foul = FALSE
        /\ new.kind = run.kind /\ new.at = run.at /\ new.ended = run.ended /\ new.claimed = run.claimed
        /\ new.generation = run.generation /\ new.seen = gen /\ new.on = run.on
        /\ new.models = models /\ new.targets = targets /\ new.probes = <<>> /\ new.catalog = catalog
    BY <1>6, <1>8, <2>3, <2>6, <2>8 DEF Run, HealthRecord, Unstarted
  <2>10. RunSound(new)
    <3>1. Len(new.probes) + Len(new.targets) <= Len(new.models) BY <2>3, <2>9
    <3>2. label = "probe" => new.targets # <<>> /\ catalog = "discovered"
      <4>1. ASSUME label = "probe" PROVE targets # <<>> /\ models # <<>> BY <4>1, <2>3, <2>4
      <4> QED BY <4>1, <2>5, <2>9
    <3>3. Profiles[new.at] \notin Codex BY <1>3, <1>9, <1>15, <2>9
    <3> QED BY <2>9, <3>1, <3>2, <3>3 DEF RunSound
  <2>11. ProbesOfCatalog(new)
    <3>1. options.probe = "all" => new.targets = Distinct(new.models) BY <2>3, <2>9
    <3> QED BY <2>9, <3>1 DEF ProbesOfCatalog
  <2> QED BY <1>11, <2>7, <2>9, <2>10, <2>11
<1> QED
  <2>1. saw = [runs[r] EXCEPT !.seen = generation[Of(r)]] BY <1>1, <1>2, <1>4, <1>5
  <2>2. PICK q : q = [runs[r] EXCEPT !.seen = generation[Of(r)]] OBVIOUS
  <2>3. \/ Set(r, [q EXCEPT !.pc = "record", !.err = TRUE, !.catalog = ""])
        \/ \E status \in FailsWith(q) :
                Set(r, [q EXCEPT !.pc = "record", !.catalog = "failed", !.err = TRUE,
                                 !.health = ClassifyProviderFailure(status), !.foul = q.ended])
        \/ /\ \E models \in Lists[r] :
                Set(r, [q EXCEPT !.pc = IF ProbeTargets(models) = <<>> THEN "record" ELSE "probe",
                                 !.catalog = IF models = <<>> THEN "empty" ELSE "discovered",
                                 !.models = models, !.targets = ProbeTargets(models), !.health = Healthy])
           /\ Validate(Connection(p))
    BY <1>2, <2>2 DEF Discover
  <2> QED BY <2>1, <2>2, <2>3, <1>13, <1>14, <1>15

\* One probe more, one target less.
LEMMA ProbeStep ==
    ASSUME AnonymousInv, NEW r \in Runner, Probe(r) PROVE AnonymousInv'
<1>1. PICK run : run = runs[r] OBVIOUS
<1>2. PICK p : p = Of(r) OBVIOUS
<1>3. run \in Run /\ Good(run) /\ reached = {} /\ p = Profiles[run.at] BY <1>1, <1>2, RunFacts
<1>4. run.pc = "probe" /\ Unrecorded /\ UNCHANGED <<hooks, stops>> BY <1>1 DEF Probe
<1>5. PICK targets \in Seq(RawId) : targets = run.targets BY <1>3 DEF Run
<1>6. PICK probes \in Seq(Probes) : probes = run.probes BY <1>3 DEF Run, Probes
<1>7. PICK models \in Seq(RawId) : models = run.models BY <1>3 DEF Run
<1>8. /\ targets # <<>> /\ p \notin Codex /\ Len(probes) + Len(targets) <= Len(models)
      /\ run.err = FALSE /\ run.catalog = "discovered" /\ (run.foul => run.ended)
  <2>1. RunSound(run) BY <1>3 DEF Good
  <2>2. run.err \in BOOLEAN BY <1>3 DEF Run
  <2> QED BY <2>1, <2>2, <1>3, <1>4, <1>5, <1>6, <1>7 DEF RunSound
<1>9. reached' = {} BY <1>2, <1>3, <1>8 DEF Probe
<1>10. /\ Head(targets) \in RawId /\ Tail(targets) \in Seq(RawId) /\ Len(Tail(targets)) = Len(targets) - 1
       /\ \A i \in 1..Len(Tail(targets)) : Tail(targets)[i] = targets[i + 1]
       /\ Head(targets) = targets[1] /\ Len(targets) \in Nat /\ Len(targets) # 0
  BY <1>8
<1>11. ASSUME NEW ok \in BOOLEAN, NEW assessed \in HealthRecord, NEW foul \in BOOLEAN, foul => run.ended,
              Set(r, [run EXCEPT !.pc = IF Len(run.targets) = 1 THEN "record" ELSE "probe",
                                 !.targets = Tail(@), !.health = assessed,
                                 !.probes = Append(@, [model |-> Head(run.targets), ok |-> ok]),
                                 !.foul = foul])
       PROVE  AnonymousInv'
  <2>1. PICK left \in Seq(RawId) : left = Tail(targets) BY <1>10
  <2>2. PICK one \in Probes : one = [model |-> Head(targets), ok |-> ok] BY <1>10 DEF Probes
  <2>3. PICK done \in Seq(Probes) : done = Append(probes, one)
    <3>1. Append(probes, one) \in Seq(Probes) OBVIOUS
    <3> QED BY <3>1
  <2>4. Len(done) = Len(probes) + 1 /\ done[Len(probes) + 1] = one
        /\ \A i \in 1..Len(probes) : done[i] = probes[i]
    BY <2>3
  <2>5. PICK label \in {"record", "probe"} : label = IF Len(targets) = 1 THEN "record" ELSE "probe" OBVIOUS
  <2>6. PICK new : new = [run EXCEPT !.pc = label, !.targets = left, !.health = assessed,
                                     !.probes = done, !.foul = foul] OBVIOUS
  <2>7. Set(r, new)
    <3>1. [run EXCEPT !.pc = IF Len(run.targets) = 1 THEN "record" ELSE "probe",
                      !.targets = Tail(@), !.health = assessed,
                      !.probes = Append(@, [model |-> Head(run.targets), ok |-> ok]),
                      !.foul = foul]
          = [run EXCEPT !.pc = IF Len(run.targets) = 1 THEN "record" ELSE "probe",
                      !.targets = Tail(run.targets), !.health = assessed,
                      !.probes = Append(run.probes, [model |-> Head(run.targets), ok |-> ok]),
                      !.foul = foul]
      BY <1>3 DEF Run
    <3> QED BY <3>1, <1>5, <1>6, <1>11, <2>1, <2>2, <2>3, <2>5, <2>6
  <2>8. /\ new \in Run /\ new.pc = label /\ new.err = FALSE /\ new.foul = foul
        /\ new.kind = run.kind /\ new.at = run.at /\ new.ended = run.ended /\ new.claimed = run.claimed
        /\ new.generation = run.generation /\ new.seen = run.seen /\ new.on = run.on
        /\ new.models = models /\ new.targets = left /\ new.probes = done /\ new.catalog = "discovered"
    BY <1>3, <1>7, <1>8, <2>6 DEF Run, HealthRecord, Probes
  <2>9. RunSound(new)
    <3>1. Len(new.probes) + Len(new.targets) <= Len(new.models)
      <4>1. Len(done) + Len(left) = Len(probes) + Len(targets) BY <1>6, <1>10, <2>1, <2>4
      <4> QED BY <4>1, <1>8, <2>8
    <3>2. label = "probe" => left # <<>>
      <4>1. ASSUME label = "probe" PROVE left # <<>>
        <5>1. Len(left) # 0 BY <4>1, <1>10, <2>1, <2>5
        <5> QED BY <5>1
      <4> QED BY <4>1
    <3> QED BY <1>3, <1>8, <1>11, <2>5, <2>8, <3>1, <3>2 DEF RunSound
  <2>10. ProbesOfCatalog(new)
    <3>1. SUFFICES ASSUME options.probe = "all"
          PROVE  /\ \A i \in DOMAIN left : \E k \in DOMAIN Distinct(models) : left[i] = Distinct(models)[k]
                 /\ \A i \in DOMAIN done : \E k \in DOMAIN Distinct(models) : done[i].model = Distinct(models)[k]
        BY <2>8 DEF ProbesOfCatalog
    <3>2. PICK names \in Seq(RawId) : names = Distinct(models) BY DistinctKeeps
    <3>3. /\ \A i \in 1..Len(targets) : \E k \in DOMAIN names : targets[i] = names[k]
          /\ \A i \in 1..Len(probes) : \E k \in DOMAIN names : probes[i].model = names[k]
      <4>1. ProbesOfCatalog(run) /\ names = Distinct(run.models) BY <1>3, <1>7, <3>2 DEF Good
      <4>2. /\ \A i \in DOMAIN run.targets : \E k \in DOMAIN names : run.targets[i] = names[k]
            /\ \A i \in DOMAIN run.probes : \E k \in DOMAIN names : run.probes[i].model = names[k]
        BY <3>1, <4>1 DEF ProbesOfCatalog
      <4>3. DOMAIN run.targets = 1..Len(targets) /\ DOMAIN run.probes = 1..Len(probes) BY <1>5, <1>6
      <4>4. \A i \in 1..Len(targets) : \E k \in DOMAIN names : targets[i] = names[k] BY <4>2, <4>3, <1>5
      <4>5. \A i \in 1..Len(probes) : \E k \in DOMAIN names : probes[i].model = names[k] BY <4>2, <4>3, <1>6
      <4> QED BY <4>4, <4>5
    <3>4. ASSUME NEW i \in 1..Len(left) PROVE \E k \in DOMAIN names : left[i] = names[k]
      <4>1. i + 1 \in 1..Len(targets) /\ left[i] = targets[i + 1] BY <1>10, <2>1
      <4> QED BY <4>1, <3>3
    <3>5. ASSUME NEW i \in 1..Len(done) PROVE \E k \in DOMAIN names : done[i].model = names[k]
      <4>1. CASE i = Len(probes) + 1
        <5>1. done[i].model = targets[1] BY <4>1, <1>10, <2>2, <2>4
        <5>2. 1 \in 1..Len(targets) BY <1>10
        <5> QED BY <5>1, <5>2, <3>3
      <4>2. CASE i # Len(probes) + 1
        <5>1. i \in 1..Len(probes) BY <4>2, <2>4
        <5> QED BY <5>1, <2>4, <3>3
      <4> QED BY <4>1, <4>2
    <3>6. DOMAIN left = 1..Len(left) /\ DOMAIN done = 1..Len(done) OBVIOUS
    <3> QED BY <3>2, <3>4, <3>5, <3>6
  <2>11. Good(new) BY <1>3, <1>4, <2>8, <2>9, <2>10 DEF Good, Dated, KnowsOn
  <2>12. runs[r].pc \in CheckPCs /\ runs[r].pc # "exited" BY <1>1, <1>4 DEF CheckPCs
  <2> QED BY <1>1, <1>4, <1>9, <2>7, <2>8, <2>11, <2>12, RunSteps
<1>12. run.health \in HealthRecord /\ run.foul \in BOOLEAN /\ run.ended \in BOOLEAN
  BY <1>3 DEF Run, HealthRecord
<1> DEFINE after(ok, assessed) ==
            [run EXCEPT !.pc = IF Len(run.targets) = 1 THEN "record" ELSE "probe",
                        !.targets = Tail(@), !.health = assessed,
                        !.probes = Append(@, [model |-> Head(run.targets), ok |-> ok])]
<1>13. CASE Set(r, after(TRUE, run.health))
  <2>1. after(TRUE, run.health) = [after(TRUE, run.health) EXCEPT !.foul = run.foul] BY <1>3 DEF Run
  <2>2. Set(r, [after(TRUE, run.health) EXCEPT !.foul = run.foul]) BY <1>13, <2>1
  <2> QED BY <1>8, <1>11, <1>12, <2>2
<1>14. CASE \E status \in FailsWith(run) :
                Set(r, [after(FALSE, ClassifyProviderFailure(status)) EXCEPT !.foul = @ \/ run.ended])
  <2>1. PICK status \in FailsWith(run) :
                Set(r, [after(FALSE, ClassifyProviderFailure(status)) EXCEPT !.foul = @ \/ run.ended])
    BY <1>14
  <2>2. PICK assessed \in HealthRecord : assessed = ClassifyProviderFailure(status) BY FailureClasses
  <2>3. PICK foul \in BOOLEAN : foul = (run.foul \/ run.ended) BY <1>12
  <2>4. [after(FALSE, assessed) EXCEPT !.foul = @ \/ run.ended] = [after(FALSE, assessed) EXCEPT !.foul = foul]
    BY <1>3, <2>3 DEF Run
  <2>5. Set(r, [after(FALSE, assessed) EXCEPT !.foul = foul]) BY <2>1, <2>2, <2>4
  <2>6. foul => run.ended BY <1>8, <1>12, <2>3
  <2> QED BY <1>11, <2>5, <2>6
<1> QED BY <1>1, <1>13, <1>14 DEF Probe

\* The calls of stop.
LEMMA StopStep ==
    ASSUME AnonymousInv, NEW s \in Stopper, Stop(s) \/ StopReturns(s) PROVE AnonymousInv'
<1>1. /\ Unrecorded /\ reached' = reached /\ UNCHANGED hooks BY DEF Stop, StopReturns
<1>2. /\ options' = options /\ enabled' = enabled /\ claims' = claims /\ generation' = generation
      /\ instant' = instant /\ edits' = edits
  BY <1>1 DEF hooks
<1>3. /\ stops \in [Stopper -> {"none", "first", "waits", "returned"}]
      /\ runs \in [Runner -> Run] /\ \A r \in Runner : Good(runs[r])
  BY DEF AnonymousInv, HooksTypeOK, RunsSound
<1>4. PICK label \in {"first", "waits", "returned"} : stops' = [stops EXCEPT ![s] = label]
  BY DEF Stop, StopReturns
<1>5. stops' \in [Stopper -> {"none", "first", "waits", "returned"}] BY <1>3, <1>4
<1>6. HooksTypeOK' BY <1>2, <1>5 DEF AnonymousInv, HooksTypeOK
<1>7. CodexNeverReached' /\ StopIsNotEvidence' /\ EvidenceOfItsGeneration'
  BY <1>1 DEF AnonymousInv, CodexNeverReached, StopIsNotEvidence, EvidenceOfItsGeneration, Unrecorded
<1>8. CASE runs' = runs
  <2>1. RunsSound' BY <1>2, <1>3, <1>8 DEF RunsSound, Good, ProbesOfCatalog, Dated, KnowsOn
  <2>2. OneCheckPerInterval' BY <1>2, <1>8 DEF AnonymousInv, OneCheckPerInterval, Checking, Of
  <2>3. StoppedIsOver'
    <3>1. CASE Stop(s)
      <4>1. stops'[s] # "returned" BY <3>1, <1>3 DEF Stop
      <4>2. \A t \in Stopper : stops'[t] = "returned" => stops[t] = "returned" BY <1>3, <1>4, <4>1
      <4> QED BY <1>8, <4>2 DEF AnonymousInv, StoppedIsOver
    <3>2. CASE StopReturns(s)
      <4>1. 1 \in Stopper
        <5>1. MaxStops \in Nat BY AnonymousConstants
        <5> QED BY <5>1 DEF Stopper
      <4>2. runs[Stopped].pc = "exited" BY <3>2, <4>1 DEF StopReturns, AnonymousInv, StoppedIsOver
      <4> QED BY <1>8, <4>2 DEF StoppedIsOver
    <3> QED BY <3>1, <3>2
  <2> QED BY <1>6, <1>7, <2>1, <2>2, <2>3 DEF AnonymousInv
<1>9. CASE Stop(s) /\ Set(Stopped, [runs[Stopped] EXCEPT !.ended = TRUE])
  <2>1. PICK run : run = runs[Stopped] OBVIOUS
  <2>2. PICK new : new = [run EXCEPT !.ended = TRUE] OBVIOUS
  <2>3. run \in Run /\ Good(run) /\ Stopped \in Runner BY <1>3, <2>1, AnonymousConstants
  <2>4. /\ new \in Run /\ new.pc = run.pc /\ new.generation = run.generation /\ new.seen = run.seen
        /\ new.kind = run.kind /\ new.at = run.at /\ new.ended = TRUE /\ new.claimed = run.claimed
        /\ new.models = run.models /\ new.targets = run.targets /\ new.probes = run.probes
        /\ new.err = run.err /\ new.foul = run.foul /\ new.on = run.on /\ new.catalog = run.catalog
    BY <2>2, <2>3 DEF Run
  <2>5. RunSound(new) BY <2>3, <2>4 DEF Good, RunSound, Unstarted
  <2>6. Good(new) BY <2>3, <2>4, <2>5 DEF Good, ProbesOfCatalog, Dated, KnowsOn
  <2>7. runs' = [runs EXCEPT ![Stopped] = new] BY <1>9, <2>1, <2>2 DEF Set
  <2>8. RunsSound'
    <3>1. ASSUME NEW q \in Runner PROVE Good(runs[q])'
      <4>1. Good(runs'[q]) BY <1>3, <2>3, <2>6, <2>7
      <4> QED BY <4>1, <1>2 DEF Good, ProbesOfCatalog, Dated, KnowsOn
    <3>2. runs' \in [Runner -> Run] BY <1>3, <2>4, <2>7
    <3> QED BY <3>1, <3>2 DEF RunsSound
  <2>9. \A q \in Runner : /\ runs'[q].pc = runs[q].pc /\ runs'[q].at = runs[q].at
                          /\ runs'[q].kind = runs[q].kind /\ runs'[q].claimed = runs[q].claimed
    BY <1>3, <2>1, <2>4, <2>7
  <2>10. OneCheckPerInterval' BY <1>2, <2>9 DEF AnonymousInv, OneCheckPerInterval, Checking, Of
  <2>11. StoppedIsOver'
    <3>1. stops'[s] # "returned" BY <1>3, <1>9 DEF Stop
    <3>2. \A t \in Stopper : stops'[t] = "returned" => stops[t] = "returned" BY <1>3, <1>4, <3>1
    <3> QED BY <2>3, <2>9, <3>2 DEF AnonymousInv, StoppedIsOver
  <2> QED BY <1>6, <1>7, <2>8, <2>10, <2>11 DEF AnonymousInv
<1> QED BY <1>8, <1>9 DEF Stop, StopReturns

\* The inductive invariant of the automation: what each run knows, what it claimed
\* and what it has probed, for any profiles, models, clients and schedule.
THEOREM AnonymousSound == Spec => []AnonymousInv
<1>1. Init => AnonymousInv BY AnonymousInit
<1>2. AnonymousInv /\ [Next]_vars => AnonymousInv'
  <2>1. SUFFICES ASSUME AnonymousInv, [Next]_vars PROVE AnonymousInv' OBVIOUS
  <2>2. CASE Toggle \/ ClockAdvances \/ \E p \in Providers : Reconfigure(p) BY <2>1, <2>2, HooksStep
  <2>3. ASSUME NEW r \in Runner, EndContext(r) \/ Step(r) \/ Again(r) \/ Exit(r) PROVE AnonymousInv'
    <3>1. CASE EndContext(r) \/ Again(r) \/ Exit(r) BY <2>1, <3>1, SchedulerStep
    <3>2. CASE Step(r)
      BY <2>1, <3>2, EnrollStep, ClaimStep, ConfirmStep, GenerationStep, DiscoverStep, ProbeStep, RecordStep
      DEF Step
    <3> QED BY <2>3, <3>1, <3>2
  <2>4. ASSUME NEW s \in Stopper, Stop(s) \/ StopReturns(s) PROVE AnonymousInv' BY <2>1, <2>4, StopStep
  <2>5. CASE UNCHANGED vars
    <3>1. UNCHANGED <<options, enabled, claims, generation, instant, runs, stops, reached, recorded, edits>>
      BY <2>5 DEF vars
    <3>2. HooksTypeOK' /\ RunsSound' /\ CodexNeverReached'
      BY <2>1, <3>1 DEF AnonymousInv, HooksTypeOK, RunsSound, Good, ProbesOfCatalog, Dated, KnowsOn, CodexNeverReached
    <3>3. OneCheckPerInterval' BY <2>1, <3>1 DEF AnonymousInv, OneCheckPerInterval, Checking, Of
    <3>4. StoppedIsOver' /\ StopIsNotEvidence' /\ EvidenceOfItsGeneration'
      BY <2>1, <3>1 DEF AnonymousInv, StoppedIsOver, StopIsNotEvidence, EvidenceOfItsGeneration
    <3> QED BY <3>2, <3>3, <3>4 DEF AnonymousInv
  <2> QED BY <2>1, <2>2, <2>3, <2>4, <2>5 DEF Next
<1> QED BY <1>1, <1>2, PTL DEF Spec

\* However many schedulers run, a scheduled check goes on only where it was claimed,
\* at least Every after any other check of its provider, and with the automation on at
\* some moment since the claim: an off between the claim and Confirm, or after Confirm,
\* may let it go on; and none reaches Codex anonymously (RunOnce, Claim,
\* ProviderConnection.Validate).
THEOREM ChecksAreClaimed == Spec => []ChecksClaimed
<1>1. AnonymousInv => ChecksClaimed
  <2>1. SUFFICES ASSUME AnonymousInv PROVE ChecksClaimed OBVIOUS
  <2>2. TypeOK
    <3>1. \A r \in Runner : Len(runs[r].probes) + Len(runs[r].targets) <= Len(runs[r].models)
      BY <2>1 DEF AnonymousInv, RunsSound, Good, RunSound
    <3> QED BY <2>1, <3>1 DEF AnonymousInv, HooksTypeOK, RunsSound, CodexNeverReached, TypeOK
  <2>3. OffStopsTheRun BY <2>1 DEF AnonymousInv, RunsSound, Good, KnowsOn, OffStopsTheRun, Checking
  <2> QED BY <2>1, <2>2, <2>3 DEF AnonymousInv, ChecksClaimed
<1> QED BY <1>1, AnonymousSound, PTL

\* A result says what its probes saw and publishes exactly the models of its catalog
\* that the publication asks for; what is recorded under the provider's generation was
\* all seen under it, none of its failures is what a stop did to the check; and after a
\* stop returned the scheduler it stopped has ended (check, resultOf, Start).
THEOREM RecordsAreHonest == Spec => []RecordHonest
<1>1. AnonymousInv => RecordHonest
  <2>1. SUFFICES ASSUME AnonymousInv PROVE RecordHonest OBVIOUS
  <2>2. ResultHonest
    <3>1. options.publish \in {"inference_verified", "catalog_discovered"}
      BY <2>1 DEF AnonymousInv, HooksTypeOK
    <3>2. \A r \in Runner : RunSound(runs[r]) /\ ProbesOfCatalog(runs[r])
      BY <2>1 DEF AnonymousInv, RunsSound, Good
    <3>3. ASSUME NEW run \in {runs[r] : r \in {q \in Runner : runs[q].pc = "record"}}
          PROVE  RunSound(run) /\ ProbesOfCatalog(run) /\ run.pc = "record"
      BY <3>2
    <3> QED BY <3>1, <3>3, HonestResult DEF ResultHonest
  <2> QED BY <2>1, <2>2 DEF AnonymousInv, RecordHonest
<1> QED BY <1>1, AnonymousSound, PTL
=============================================================================
