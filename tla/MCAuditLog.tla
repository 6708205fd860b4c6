----------------------------- MODULE MCAuditLog -----------------------------
(***************************************************************************)
(* A daemon that logs two events beside a process that logs one: a command *)
(* or a transient proxy.                                                   *)
(***************************************************************************)
EXTENDS AuditLog, TLC

CONSTANTS daemon, other, d1, d2, e1

MCKinds == {(daemon :> "daemon") @@ (other :> k) : k \in {"transient", "command"}}

MCOwner == (d1 :> daemon) @@ (d2 :> daemon) @@ (e1 :> other)

\* At most two events are logged: two of the daemon, or one of each process.
\* (Only Stamp, which no fairness condition drives, leads out of the bound.)
MCBound == created[d2] = 0 \/ created[e1] = 0
=============================================================================
