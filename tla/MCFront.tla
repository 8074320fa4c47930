------------------------------ MODULE MCFront ------------------------------
(***************************************************************************)
(* The parts of the serving path that share no state, for TLC: the Engine  *)
(* serving a request, the Router serving several, one exchange with an     *)
(* upstream, the records of an open stream, the Adapter translating a      *)
(* request, and the transport plans of a stored row.  A behaviour is of    *)
(* one of them, and the others stay in one initial state.                  *)
(***************************************************************************)
EXTENDS Engine, Router, Wire, Records, Adapter, Transport

CONSTANTS north, south

VARIABLE part

\* A route that fails over, and one target named directly.
FailoverOrDirect == {<<north, south>>, <<south>>}

----------------------------------------------------------------------------
(* Records: lines within the bound, at it and over it, in every order.     *)

A(kind, len) == [kind |-> kind, len |-> len]
Pool == {A("blank", 1), A("data", 2), A("data", 4), A("data", 6), A("empty", 2), A("stop", 2),
         A("comment", 3), A("last", 2)}
UpToThreeLines == UNION {[1..n -> Pool] : n \in 0..3}

----------------------------------------------------------------------------
(* Adapter: every routing under a few policies, and one translated request *)
(* under every rule of up to three segments.                               *)

Rule(path, class, severity, action) ==
    [path |-> path, class |-> class, severity |-> severity, action |-> action]
Loss(path, class, severity) == [path |-> path, class |-> class, severity |-> severity]

Patterns == UNION {[1..n -> {"a", "b", "*", "**"}] : n \in 0..3}
Policies ==
    {<<>>,
     <<Rule(<<>>, "", "", "allow")>>,
     <<Rule(<<>>, "dropped", "", "reject"), Rule(<<>>, "", "", "allow")>>,
     <<Rule(<<"a", "**">>, "", "", "allow"), Rule(<<>>, "", "advisory", "reject")>>}
RoutingCases ==
    [native : SUBSET Surfaces, surface : Surfaces, stream : BOOLEAN, rules : Policies]
PatternCases ==
    {[native |-> {"chat_completions"}, surface |-> "messages", stream |-> FALSE,
      rules |-> <<Rule(pattern, "", "", action)>>] : pattern \in Patterns, action \in {"allow", "reject"}}
AdapterCases == RoutingCases \cup PatternCases

LossPaths == {<<"a">>, <<"b">>, <<"a", "b">>, <<"a", "b", "a">>}
LostOnTheWay ==
    {<<>>} \cup {<<Loss(path, "dropped", "material")>> : path \in LossPaths}
      \cup {<<Loss(<<"a">>, "renamed", severity), Loss(<<"b">>, "dropped", "material")>> :
                severity \in {"advisory", "unknown"}}
LostOnTheWayBack == {<<>>, <<Loss(<<"b">>, "renamed", "advisory")>>, <<Loss(<<"a", "b">>, "dropped", "material")>>}

----------------------------------------------------------------------------
(* Transport: rows that list, report or say nothing, and stacks whose      *)
(* decorators serve less than, or speak for, what they wrap.               *)

Says(chat, messages, confidence, schema) ==
    [schema |-> schema, chat |-> chat, confidence |-> confidence, expires |-> Horizon,
     surfaces |-> [s \in Surface |-> IF s = "messages" THEN messages ELSE "unknown"]]
SomeReports ==
    {Unreported, Says("unknown", "unknown", "high", 1), Says("supported", "supported", "high", 1),
     Says("supported", "unsupported", "high", 1), Says("supported", "supported", "low", 1),
     Says("unsupported", "unknown", "high", 1), Says("supported", "supported", "high", 2)}
SomeRows ==
    [apis : {<<>>, <<"/v1/messages">>, <<"/chat/completions", "/v1/messages">>, <<"ws:/responses">>},
     legacy : {"absent"}, reported : SomeReports]
      \cup [apis : {<<>>, <<"/v1/embeddings">>}, legacy : Legacy, reported : {Unreported}]

Chats == {"chat_completions", "messages"}
L(native, declares, preserves) == [native |-> native, declares |-> declares, preserves |-> preserves]
SomeStacks ==
    {<<>>, <<L(Chats, "wire", Chats)>>, <<L(Chats, "credential", {"messages"})>>,
     <<L(Chats, "nothing", {}), L(Chats, "wire", Chats)>>,
     <<L({"messages"}, "nothing", {}), L(Chats, "wire", Chats)>>,
     <<L({"chat_completions"}, "nothing", {}), L(Chats, "credential", Chats)>>,
     <<L(Chats, "wire", {}), L(Chats, "wire", Chats)>>}
DaemonChats == {"chat_completions", "messages"}

----------------------------------------------------------------------------
vars == <<part, engineVars, routerVars, wireVars, recordVars, adapterVars, transportVars>>

Init ==
    /\ part \in {"engine", "router", "wire", "records", "adapter", "transport"}
    /\ EngineInit /\ (part # "engine" => providers = [id \in Provider |-> "nil"])
    /\ RouterInit
    /\ WireInit /\ (part # "wire" => xch = NewExchange(<<"provider", "invoke">>, FALSE))
    /\ RecordsInit /\ (part # "records" => script = [lines |-> <<>>, ended |-> TRUE] /\ stream.kind = "sse")
    /\ AdapterInit /\ (part # "adapter" =>
            trip.case = [native |-> {}, surface |-> "messages", stream |-> FALSE, rules |-> <<>>])
    /\ TransportInit /\ (part # "transport" =>
            /\ stack = <<>> /\ ~daemon /\ ~keyed /\ refreshedAt = 0
            /\ sent = [apis |-> <<>>, legacy |-> "absent", reported |-> Unreported])

Next ==
    \/ /\ part = "engine" /\ EngineNext
       /\ UNCHANGED <<part, routerVars, wireVars, recordVars, adapterVars, transportVars>>
    \/ /\ part = "router" /\ RouterNext
       /\ UNCHANGED <<part, engineVars, wireVars, recordVars, adapterVars, transportVars>>
    \/ /\ part = "wire" /\ WireNext
       /\ UNCHANGED <<part, engineVars, routerVars, recordVars, adapterVars, transportVars>>
    \/ /\ part = "records" /\ RecordsNext
       /\ UNCHANGED <<part, engineVars, routerVars, wireVars, adapterVars, transportVars>>
    \/ /\ part = "adapter" /\ AdapterNext
       /\ UNCHANGED <<part, engineVars, routerVars, wireVars, recordVars, transportVars>>
    \/ /\ part = "transport" /\ TransportNext
       /\ UNCHANGED <<part, engineVars, routerVars, wireVars, recordVars, adapterVars>>

Serve ==
    /\ part = "engine" /\ Handler
    /\ UNCHANGED <<part, routerVars, wireVars, recordVars, adapterVars, transportVars>>

\* A handler that can go on does; nothing is assumed of clients or products.
FairSpec == Init /\ [][Next]_vars /\ WF_vars(Serve)
=============================================================================
