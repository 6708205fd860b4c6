------------------------- MODULE MCTokenRevocation -------------------------
(***************************************************************************)
(* Instances of TokenRevocation for TLC: one agent with two tokens, one    *)
(* for this project and one for another project; two requests may race     *)
(* with the first of them, and one of the two may also present the second. *)
(***************************************************************************)
EXTENDS TokenRevocation

CONSTANTS home, away, alice, r1, r2

MCTokens == {home, away}
MCRequests == {r1, r2}
MCHolds == [r \in MCRequests |-> IF r = r1 THEN {home} ELSE MCTokens]
MCAgentOf == [t \in MCTokens |-> alice]
=============================================================================
