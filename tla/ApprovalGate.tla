---------------------------- MODULE ApprovalGate ----------------------------
(***************************************************************************)
(* What the approval mechanism of the proxy promises, free of locks,       *)
(* channels, prompts and timers: a request asks for an approval key, and   *)
(* is permitted only if that key has been explicitly granted during the    *)
(* session; a grant is never taken back; anything else is refused.         *)
(*                                                                         *)
(* Implemented by ApprovalStore (pkg/proxy/approvals.go and the callers of *)
(* the store), used by the request pipeline of RequestPipeline.            *)
(***************************************************************************)

CONSTANTS Requests,  \* proxy request goroutines
          Keys       \* approval keys

VARIABLES granted,   \* keys granted so far in this proxy session
          phase,     \* phase[r]: where request r stands
          asked      \* asked[r]: the key r asks for (or asked for last)

gateVars == <<granted, phase, asked>>

Phases == {"idle", "asking", "permitted", "refused"}

GateTypeOK ==
    /\ granted \in SUBSET Keys
    /\ phase \in [Requests -> Phases]
    /\ asked \in [Requests -> Keys]

GateInit ==
    /\ granted = {}
    /\ phase = [r \in Requests |-> "idle"]
    /\ asked \in [Requests -> Keys]

Move(r, from, to) ==
    /\ phase[r] = from
    /\ phase' = [phase EXCEPT ![r] = to]

Ask(r, k) ==
    /\ Move(r, "idle", "asking")
    /\ asked' = [asked EXCEPT ![r] = k]
    /\ UNCHANGED granted

Grant(k) ==
    /\ granted' = granted \union {k}
    /\ UNCHANGED <<phase, asked>>

Permit(r) ==
    /\ asked[r] \in granted
    /\ Move(r, "asking", "permitted")
    /\ UNCHANGED <<granted, asked>>

\* The inline prompt of a transient proxy grants and permits in one step.
GrantAndPermit(r) ==
    /\ Move(r, "asking", "permitted")
    /\ granted' = granted \union {asked[r]}
    /\ UNCHANGED asked

Refuse(r) ==
    /\ Move(r, "asking", "refused")
    /\ UNCHANGED <<granted, asked>>

Leave(r) ==
    /\ phase[r] \in {"permitted", "refused"}
    /\ phase' = [phase EXCEPT ![r] = "idle"]
    /\ UNCHANGED <<granted, asked>>

GateNext ==
    \/ \E k \in Keys : Grant(k)
    \/ \E r \in Requests :
          \/ \E k \in Keys : Ask(r, k)
          \/ Permit(r)
          \/ GrantAndPermit(r)
          \/ Refuse(r)
          \/ Leave(r)

GateSpec == GateInit /\ [][GateNext]_gateVars
=============================================================================
