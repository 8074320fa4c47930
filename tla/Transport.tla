----------------------------- MODULE Transport -----------------------------
(***************************************************************************)
(* How a request may be carried: what a stored catalog row says of a       *)
(* model, what its provider preserves, and the plans, labels and refusals  *)
(* core derives from them while the row ages, is refreshed and the         *)
(* credential changes.                                                     *)
(*                                                                         *)
(* A listed API is one of Paths; legacy is the row's untyped "chat" value. *)
(* A provider is a stack of decorators, outermost first, each but the last *)
(* of which unwraps.                                                       *)
(***************************************************************************)
EXTENDS Integers, Sequences, SequencesExt, FiniteSets

CONSTANTS
    Surface,        \* the chat surfaces
    Stacks,         \* providers
    DaemonSurfaces, \* what an extension daemon says its provider serves
    Rows,           \* rows a catalog may report
    FreshFor,       \* TransportEvidence.FreshFor
    Horizon,
    Unreported      \* a row without typed capabilities

Support == {"unknown", "supported", "unsupported"}
Legacy == {"absent", "true", "false", "text", "blank"}
Paths == {"/v1/chat/completions", "/chat/completions", "/v1/responses", "ws:/responses",
          "/v1/messages", "/v1/embeddings"}

Reported == [schema : {1, 2}, chat : Support, surfaces : [Surface -> Support],
             confidence : {"low", "medium", "high", ""}, expires : {0, Horizon}]
Layer == [native : SUBSET Surface, declares : {"nothing", "wire", "credential"},
          preserves : SUBSET Surface]

ASSUME TransportConstants ==
    /\ Surface = {"chat_completions", "responses", "messages"}
    /\ Stacks \subseteq Seq(Layer) /\ DaemonSurfaces \subseteq Surface
    /\ Unreported \notin Reported
    /\ Rows \subseteq [apis : Seq(Paths), legacy : Legacy, reported : Reported \cup {Unreported}]
    /\ FreshFor \in Nat \ {0} /\ Horizon \in Nat

VARIABLES
    stack,          \* the provider
    daemon,         \* whether it is an extension's, whose rows are completed
    sent,           \* the row as the catalog reported it
    row,            \* the row stored
    refreshedAt,    \* when, or 0 for never
    time,
    keyed           \* whether the caller's requests carry a key

transportVars == <<stack, daemon, sent, row, refreshedAt, time, keyed>>

----------------------------------------------------------------------------
(* Surfaces and capabilities.                                              *)

\* ParseSurfacePath; "" is any path that names no chat surface.
ParseSurfacePath(path) ==
    CASE path \in {"/v1/chat/completions", "/chat/completions"} -> "chat_completions"
      [] path = "/v1/responses" -> "responses"
      [] path = "/v1/messages" -> "messages"
      [] OTHER -> ""

\* SurfacePath of a chat surface.
SurfacePath(surface) ==
    CASE surface = "chat_completions" -> "/v1/chat/completions"
      [] surface = "responses" -> "/v1/responses"
      [] surface = "messages" -> "/v1/messages"

\* The surface AdaptModelCapabilities reads a listed API as.
AdaptedSurface(path) == IF path = "ws:/responses" THEN "responses" ELSE ParseSurfacePath(path)

\* legacySupport of the one key of chat.
LegacySupport(value) ==
    CASE value \in {"true", "text"} -> "supported"
      [] value = "false" -> "unsupported"
      [] OTHER -> "unknown"

\* AdaptModelCapabilities: what a row lists, inferred with medium confidence.  Chat
\* is supported by any chat surface listed, whatever the map says.
InferCapabilities(r) ==
    LET listed == {AdaptedSurface(r.apis[i]) : i \in DOMAIN r.apis} \ {""}
    IN [schema |-> 1, confidence |-> "medium", expires |-> 0,
        chat |-> IF listed # {} THEN "supported" ELSE LegacySupport(r.legacy),
        surfaces |-> [s \in Surface |-> IF s \in listed THEN "supported" ELSE "unknown"]]

\* Mutant: capabilities that name nothing are reported all the same.
KnowsServiceOfAny(capabilities) == TRUE

\* knowsService: the support of an operation or a surface.
KnowsService(capabilities) ==
    \/ capabilities.chat # "unknown"
    \/ \E s \in Surface : capabilities.surfaces[s] # "unknown"

\* reportsWhatItServes.
ReportsWhatItServes(r) ==
    \/ r.apis # <<>>
    \/ r.reported # Unreported /\ KnowsService(r.reported)
    \/ InferCapabilities(r).chat # "unknown"

\* The extension's Provider.ListModels: a row that says nothing of what it serves
\* serves what its provider does.
Completed(r) ==
    IF daemon /\ DaemonSurfaces # {} /\ ~ReportsWhatItServes(r)
    THEN [r EXCEPT !.apis = SetToSeq({SurfacePath(s) : s \in DaemonSurfaces})]
    ELSE r

\* Mutant: reported capabilities keep their own expiry.
CapabilitiesOwnExpiry ==
    LET capabilities == IF row.reported # Unreported THEN row.reported ELSE InferCapabilities(row)
    IN [capabilities EXCEPT !.expires =
            IF refreshedAt = 0 THEN 0 ELSE IF @ # 0 THEN @ ELSE refreshedAt + FreshFor]

\* TransportEvidence.Capabilities: reported ones first, fresh as their catalog.
Capabilities ==
    LET capabilities == IF row.reported # Unreported THEN row.reported ELSE InferCapabilities(row)
    IN [capabilities EXCEPT !.expires = IF refreshedAt = 0 THEN 0 ELSE refreshedAt + FreshFor]

\* Mutant: evidence is fresh from its expiry on.
FreshAfter(capabilities) == capabilities.expires # 0 /\ time >= capabilities.expires

\* ModelCapabilityFreshness.Status is fresh.
IsFresh(capabilities) == capabilities.expires # 0 /\ time < capabilities.expires

----------------------------------------------------------------------------
(* Providers and interfaces.                                               *)

\* Mutant: the layers around the one that declares are not asked what they serve.
PreservesWireForNearest(surface) ==
    \E i \in DOMAIN stack :
        /\ stack[i].declares # "nothing"
        /\ \A k \in 1..(i - 1) : stack[k].declares = "nothing"
        /\ surface \in stack[i].native
        /\ surface \in stack[i].preserves
        /\ stack[i].declares = "credential" => keyed

\* PreservesWireFor: every layer down to the nearest that declares serves the surface
\* natively, and that one says so, of this credential if it distinguishes them.
PreservesWireFor(surface) ==
    \E i \in DOMAIN stack :
        /\ stack[i].declares # "nothing"
        /\ \A k \in 1..(i - 1) : stack[k].declares = "nothing"
        /\ \A k \in 1..i : surface \in stack[k].native
        /\ surface \in stack[i].preserves
        /\ stack[i].declares = "credential" => keyed

\* TransportInterfaces: one for each chat surface the row lists, none for a provider
\* that could not be built; no plan depends on their order.
TransportInterfaces ==
    LET listed == IF stack = <<>> THEN {}
                  ELSE {ParseSurfacePath(row.apis[i]) : i \in DOMAIN row.apis} \ {""}
    IN {[surface |-> s, native |-> IF PreservesWireFor(s) THEN "supported" ELSE "unsupported"] : s \in listed}

----------------------------------------------------------------------------
(* Plans.                                                                  *)

PlanOf(disposition, confidence, reason) ==
    [disposition |-> disposition, confidence |-> confidence, reason |-> reason]

\* transportCapabilityEvidence.
Usable == Capabilities.schema = 1 /\ IsFresh(Capabilities)
Trusted == Usable /\ Capabilities.confidence = "high"

OperationSupport == IF Usable THEN Capabilities.chat ELSE "unknown"
SurfaceSupport(surface) == IF Usable THEN Capabilities.surfaces[surface] ELSE "unknown"
EvidenceConfidence(trusted) == IF trusted THEN "high" ELSE "low"

\* classifyTransportInterfaces.
ConfirmedNative(surface) ==
    \E face \in TransportInterfaces :
        /\ face.surface = surface
        /\ "unsupported" \notin {face.native, SurfaceSupport(surface)}
        /\ "supported" \in {face.native, SurfaceSupport(surface)}
UnknownNative(surface) ==
    \E face \in TransportInterfaces :
        face.surface = surface /\ {face.native, SurfaceSupport(surface)} = {"unknown"}
AdaptedInterface(surface) ==
    \E face \in TransportInterfaces :
        face.surface # surface \/ "unsupported" \in {face.native, SurfaceSupport(surface)}

NativeTransport(confirmed) ==
    PlanOf("native", EvidenceConfidence(Trusted /\ confirmed /\ OperationSupport = "supported"), "")

\* PlanTransport of a chat request for an exact target whose translation was
\* evaluated without loss.
PlanTransport(surface, requirement) ==
    LET reject(reason) == PlanOf("reject", EvidenceConfidence(Trusted), reason)
    IN CASE OperationSupport = "unsupported" -> reject("operation_unsupported")
         [] OperationSupport # "unsupported" /\ requirement = "transparent" ->
                IF Trusted /\ ConfirmedNative(surface) /\ OperationSupport = "supported"
                THEN NativeTransport(TRUE)
                ELSE PlanOf("reject",
                            EvidenceConfidence(Trusted /\ OperationSupport # "unknown" /\ ~UnknownNative(surface)),
                            "native_unconfirmed")
         [] OperationSupport # "unsupported" /\ requirement # "transparent" ->
                CASE ConfirmedNative(surface) -> NativeTransport(TRUE)
                  [] ~ConfirmedNative(surface) /\ UnknownNative(surface) -> NativeTransport(FALSE)
                  [] ~ConfirmedNative(surface) /\ ~UnknownNative(surface) ->
                        IF requirement = "native" THEN reject("native_required")
                        ELSE IF ~AdaptedInterface(surface) THEN reject("no_interface")
                        ELSE PlanOf("adapted",
                                    IF OperationSupport = "unknown" \/ ~Trusted THEN "low" ELSE "medium", "")

\* ListingSurfaces: how a model list classifies the chat surfaces of a row that
\* claims chat or lists one.
ClaimsChat == row.legacy = "true" \/ TransportInterfaces # {}
              \/ \E i \in DOMAIN row.apis : ParseSurfacePath(row.apis[i]) # ""
ListingSurfaces(disposition) ==
    IF ~ClaimsChat THEN {}
    ELSE {s \in Surface : PlanTransport(s, "any").disposition = disposition}

\* Mutant: a response is labelled by the provider's path, whatever the evidence.
ResponseTransportModeByPath(surface) == IF PreservesWireFor(surface) THEN "native" ELSE "translated"

\* ResponseTransportMode with the stored row's evidence.
ResponseTransportMode(surface) ==
    IF PlanTransport(surface, "any").disposition = "native" THEN "native" ELSE "translated"

----------------------------------------------------------------------------
(* What changes.                                                           *)

TransportInit ==
    /\ stack \in Stacks /\ daemon \in BOOLEAN /\ keyed \in BOOLEAN
    /\ sent \in Rows /\ row = Completed(sent)
    /\ refreshedAt \in {0, 1} /\ time = 1

TimePasses ==
    /\ time < Horizon
    /\ time' = time + 1
    /\ UNCHANGED <<stack, daemon, sent, row, refreshedAt, keyed>>

\* A catalog is refreshed, and the model's row with it.
RowRefreshed ==
    /\ \E r \in Rows : sent' = r /\ row' = Completed(r)
    /\ refreshedAt' = time
    /\ UNCHANGED <<stack, daemon, time, keyed>>

\* The caller's credential comes or goes.
KeyChanges ==
    /\ keyed' = ~keyed
    /\ UNCHANGED <<stack, daemon, sent, row, refreshedAt, time>>

TransportNext == TimePasses \/ RowRefreshed \/ KeyChanges

TransportSpec == TransportInit /\ [][TransportNext]_transportVars

----------------------------------------------------------------------------
(* Properties.                                                             *)

Transparent(surface) == PlanTransport(surface, "transparent").disposition = "native"

\* A request is carried transparently only on evidence that is the provider's own and
\* of high confidence, of a catalog still fresh, for a surface it lists.  The outermost
\* layer of the provider that declares anything declares that it preserves it, with the
\* caller's credential, and neither it nor a layer around it fails to serve it.
TransparencyEarned ==
    \A s \in Surface : Transparent(s) =>
        /\ row.reported # Unreported /\ row.reported.confidence = "high"
        /\ row.reported.chat = "supported" /\ row.reported.surfaces[s] # "unsupported"
        /\ refreshedAt # 0 /\ time < refreshedAt + FreshFor
        /\ \E i \in DOMAIN row.apis : ParseSurfacePath(row.apis[i]) = s
        /\ \E i \in DOMAIN stack :
            /\ s \in stack[i].preserves
            /\ stack[i].declares \in IF keyed THEN {"wire", "credential"} ELSE {"wire"}
            /\ \A k \in 1..i : s \in stack[k].native /\ (k < i => stack[k].declares = "nothing")

\* A response that was asked for and carried transparently is never labelled
\* translated, nor its surface listed as anything but native, and a label agrees with
\* the list (Runtime.Transparent, ResponseTransportMode, ListingSurfaces).
LabelsAgree ==
    \A s \in Surface :
        /\ Transparent(s) => ResponseTransportMode(s) = "native" /\ s \in ListingSurfaces("native")
        /\ ClaimsChat => (s \in ListingSurfaces("native") <=> ResponseTransportMode(s) = "native")

\* Time alone never makes transparent what was refused, and leaves a plan's confidence
\* or makes it low: evidence is never fresher than the catalog that holds it
\* (TransportEvidence.Capabilities).
TrustOnlyLapses ==
    [][TimePasses => \A s \in Surface :
            /\ ~Transparent(s) => ~Transparent(s)'
            /\ \A requirement \in {"any", "native", "transparent"} :
                    PlanTransport(s, requirement)'.confidence
                        \in {"low", PlanTransport(s, requirement).confidence}]_transportVars

\* A row of an extension daemon that says nothing of what it serves is read as serving
\* each surface of its provider: what core infers says so, and the provider, once
\* built, has an interface for it, so that no plan refuses it.  Plans read capabilities
\* the row carries of its own as they stand: empty ones leave the surface unknown
\* (extension Provider.ListModels, TransportEvidence.Capabilities).
SilentRowsServed ==
    daemon /\ sent.apis = <<>> /\ sent.legacy \in {"absent", "blank"}
      /\ (sent.reported # Unreported =>
            sent.reported.chat = "unknown" /\ \A s \in Surface : sent.reported.surfaces[s] = "unknown") =>
        \A s \in DaemonSurfaces :
            /\ InferCapabilities(row).surfaces[s] = "supported"
            /\ Capabilities.surfaces[s] = IF sent.reported = Unreported THEN "supported" ELSE "unknown"
            /\ stack # <<>> =>
                /\ \E face \in TransportInterfaces : face.surface = s
                /\ PlanTransport(s, "any").disposition # "reject"

\* Plans, labels and lists tell the same story of a row (PlanTransport,
\* ResponseTransportMode, ListingSurfaces).
TransportHonest == TransparencyEarned /\ LabelsAgree /\ SilentRowsServed
=============================================================================
