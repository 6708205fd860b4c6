-------------------------- MODULE MCKeychainClient --------------------------
(***************************************************************************)
(* Instance of KeychainClient for TLC: one secret and its policy, a        *)
(* goroutine that reads metadata through the cache and one that writes and *)
(* reads the secret.                                                       *)
(***************************************************************************)
EXTENDS KeychainClient, TLC

CONSTANTS secret, policy, v, g1, g2

MCItems == {secret, policy}
MCMetadata == {policy}
MCCallers == {g1, g2}
\* SetSecretsBatch and DeleteSecret.
MCWrites == {secret :> v @@ policy :> v, secret :> Absent}
ReadOf(k) == [kind |-> "read", key |-> k]
WriteOf(ws) == [kind |-> "write", write |-> ws]
MCProgram == [g \in MCCallers |->
                IF g = g1 THEN {ReadOf(policy), ReadOf(Names)}
                          ELSE {ReadOf(secret)} \union {WriteOf(ws) : ws \in MCWrites}]
=============================================================================
