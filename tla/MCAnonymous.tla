---------------------------- MODULE MCAnonymous ----------------------------
(***************************************************************************)
(* Two runs over a plain provider and one that bears Codex's name: the     *)
(* schedulers of two processes, or a scheduler and a manual run.           *)
(***************************************************************************)
EXTENDS Anonymous

CONSTANTS plain, codex, a, spaced, b, B, space, r1, r2

TwoRuns == {r1 :> "scheduler" @@ r2 :> kind : kind \in {"scheduler", "manual"}}
TwoPolicies == {[probe |-> "all", publish |-> "inference_verified"],
                [probe |-> "verification", publish |-> "catalog_discovered"]}
PlainThenCodex == <<plain, codex>>
Trims == a :> a @@ spaced :> a @@ b :> b @@ B :> B @@ space :> BlankId @@ BlankId :> BlankId
Lower == a :> a @@ spaced :> spaced @@ b :> b @@ B :> b @@ space :> space @@ BlankId :> BlankId
InOrder == <<BlankId, space, spaced, B, a, b>>
Reviewed == <<B>>
\* Two models, one of them twice, after an id of nothing but space; nothing; an
\* empty id, which keeps the other from being probed.
SmallCatalogs == r1 :> {<<space, spaced, a, b>>} @@ r2 :> {<<>>, <<a, BlankId>>}
=============================================================================
