----------------------------- MODULE Contracts -----------------------------
(***************************************************************************)
(* The provider contracts of core: a connection, and which targets the     *)
(* evidence of a check publishes.                                          *)
(*                                                                         *)
(* A model id is a row of a catalog as the provider sent it, TrimOf what   *)
(* is left of it without its surrounding space, BlankId what is left of    *)
(* nothing but space; a row may be empty as sent.                          *)
(* Provider ids are lower case and trimmed, as registered.                 *)
(***************************************************************************)
EXTENDS ProviderHealth, Subsequences, SequencesExt

CONSTANTS
    RawId,      \* model ids as a catalog sends them
    TrimOf,     \* strings.TrimSpace of each
    BlankId,    \* the empty id
    Codex       \* provider ids isCodexProvider recognises

ASSUME ContractsConstants ==
    /\ TrimOf \in [RawId -> RawId \cup {BlankId}]
    /\ BlankId \in RawId => TrimOf[BlankId] = BlankId
    /\ \A id \in RawId : TrimOf[id] # BlankId => TrimOf[id] \in RawId /\ TrimOf[TrimOf[id]] = TrimOf[id]

\* What the rows of a catalog name, and the places where a name occurs first.
Names(models) == [i \in DOMAIN models |-> TrimOf[models[i]]]
Firsts(names) == {i \in DOMAIN names : \A k \in 1..(i - 1) : names[k] # names[i]}

\* Mutant: a row with nothing but space names a model.
DistinctBlank(models) == Only(Names(models), Firsts(Names(models)))

\* The first occurrence of each model a catalog names.
Distinct(models) ==
    LET names == Names(models)
    IN  Only(names, {i \in Firsts(names) : names[i] # BlankId})

\* Mutant: Codex connections are as free as any.
ValidateAnyone(c) == (c.kind = "anonymous") <=> (c.auth = "anonymous")

\* ProviderConnection.Validate.
Validate(c) ==
    /\ (c.kind = "anonymous") <=> (c.auth = "anonymous")
    /\ c.provider \in Codex =>
        c.kind = "personal_subscription" /\ c.auth = "oauth_device" /\ c.owner

\* Mutant: a target publishes on any evidence of its own.
PublishProbedTargets(catalog, models, probes, policy) ==
    IF catalog # "discovered" THEN <<>>
    ELSE LET ids == Distinct(models)
         IN  Only(ids, {i \in DOMAIN ids : \/ policy = "catalog_discovered"
                                          \/ \E k \in DOMAIN probes : probes[k].model = ids[i]})

\* PublishExactTargets: the catalog's models, once each, in its order.
PublishExactTargets(catalog, models, probes, policy) ==
    IF catalog # "discovered" THEN <<>>
    ELSE LET ids == Distinct(models)
         IN  Only(ids, {i \in DOMAIN ids :
                        \/ policy = "catalog_discovered"
                        \/ \E k \in DOMAIN probes : probes[k] = [model |-> ids[i], ok |-> TRUE]})
=============================================================================
