----------------------------- MODULE MCRuntime -----------------------------
(***************************************************************************)
(* An instance of Runtime for TLC.                                         *)
(***************************************************************************)
EXTENDS Runtime, TLC

CONSTANTS alice, oauth, static

\* Alice falls back to the shared login, until she gets an API key of her own.
SharedLogin == {(alice :> None) @@ (Shared :> oauth)}

Own == {<<alice, static>>}

\* The two generations differ in their circuit, and in whether they repeat.
Policy(guards, attempts) == [circuit |-> guards, attempts |-> attempts]
Differing == {<<Policy(TRUE, 1), Policy(TRUE, 2)>>, <<Policy(TRUE, 1), Policy(FALSE, 1)>>}

Interchangeable == Permutations(Thread)
=============================================================================
