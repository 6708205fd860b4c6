--------------------------- MODULE MCSecretsSync ----------------------------
(* SecretsSync with a command line, an MCP server and two environments.    *)
EXTENDS SecretsSync, TLC

CONSTANTS cli, mcp, k1, k2, v1, v2

Environments2 == <<"development", "production">>

Two(x, y) == [k \in Keys |-> IF k = k1 THEN x ELSE y]

\* Development has one secret, production none.
MCClouds == {[e \in {"development", "production"} |->
                 IF e = "development" THEN Two(v1, None) ELSE Two(None, None)]}
\* One that changes a value and adds a key.
MCBatches == {Two(v2, v1)}
\* A value changed, removed and added, and one in the other environment.
MCEdits == {<<"development", k1, v2>>, <<"development", k1, None>>,
            <<"development", k2, v1>>, <<"production", k1, v1>>}
=============================================================================
