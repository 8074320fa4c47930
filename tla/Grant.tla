------------------------------- MODULE Grant -------------------------------
(***************************************************************************)
(* What an OAuth flow promises, however it is stored and whichever         *)
(* requests race for it: the caller may spend it once, the request that    *)
(* spends it holds the right to save one credential, and the outcome its   *)
(* owner reads is written once, after that right is used or given up, and  *)
(* says which.  A flow may be forgotten at any time, which takes the right *)
(* from nobody.                                                            *)
(*                                                                         *)
(* OAuthFlow implements this specification.                                *)
(***************************************************************************)
CONSTANT Id     \* flows

VARIABLES
    status,     \* "absent", "pending", "spent", or how the flow ended
    held,       \* whether a request holds the right to save its credential
    credential  \* whether one was saved

grantVars == <<status, held, credential>>

Init ==
    /\ status = [f \in Id |-> "absent"]
    /\ held = [f \in Id |-> FALSE]
    /\ credential = [f \in Id |-> FALSE]

\* From one state of flow f to another.
Moves(f, s, h, c) == status'[f] = s /\ held'[f] = h /\ credential'[f] = c

Start(f) ==
    /\ status[f] = "absent" /\ ~held[f] /\ ~credential[f]
    /\ Moves(f, "pending", FALSE, FALSE)

\* The right comes with a code or an approval, not with a refusal.
Spend(f) ==
    /\ status[f] = "pending"
    /\ \E h \in BOOLEAN : Moves(f, "spent", h, FALSE)

Save(f) == held[f] /\ Moves(f, status[f], FALSE, TRUE)

GiveUp(f) == held[f] /\ Moves(f, status[f], FALSE, credential[f])

Settle(f) ==
    /\ status[f] = "spent" /\ ~held[f]
    /\ \E outcome \in IF credential[f] THEN {"complete"} ELSE {"failed", "expired"} :
          Moves(f, outcome, FALSE, credential[f])

Forget(f) == status[f] # "absent" /\ Moves(f, "absent", held[f], credential[f])

\* One step of the store may start a flow and forget others.
Next ==
    \A f \in Id :
        \/ Start(f) \/ Spend(f) \/ Save(f) \/ GiveUp(f) \/ Settle(f) \/ Forget(f)
        \/ Moves(f, status[f], held[f], credential[f])

Spec == Init /\ [][Next]_grantVars
=============================================================================
