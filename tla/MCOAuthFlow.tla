---------------------------- MODULE MCOAuthFlow ----------------------------
(***************************************************************************)
(* Small instances of OAuthFlow for TLC.                                   *)
(***************************************************************************)
EXTENDS OAuthFlow, TLC

\* Requests, ids, callers and states are interchangeable.
Symmetric == Permutations(Thread) \cup Permutations(Id) \cup Permutations(Caller)
               \cup Permutations(State)
============================================================================
