--------------------------- MODULE MCLoginSession ---------------------------
(* LoginSession with a proxy of two goroutines and one command at a time.  *)
EXTENDS LoginSession, TLC

CONSTANTS proxy, cli, t1, t2, c, u1, u2

\* Goroutines and users are interchangeable.
Symmetric == Permutations({t1, t2}) \union Permutations({u1, u2})
MCOwner == t1 :> proxy @@ t2 :> proxy @@ c :> cli
=============================================================================
