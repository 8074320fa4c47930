----------------------------- MODULE MCCatalog -----------------------------
(***************************************************************************)
(* Small instances of Catalog for TLC.                                     *)
(***************************************************************************)
EXTENDS Catalog, TLC

CONSTANTS p1, p2, p3, t1, t2, t3

OneProcess == [t \in {t1, t2, t3} |-> p1]
ThreeGoroutines == (t1 :> p1) @@ (t2 :> p1) @@ (t3 :> p2)

EachItsOwn == (t1 :> p1) @@ (t2 :> p2) @@ (t3 :> p3)

OneSchema == [p \in Proc |-> 1]

\* An upgrade reached the last process only.
TwoSchemas == (p1 :> 1) @@ (p2 :> 1) @@ (p3 :> 2)
============================================================================
