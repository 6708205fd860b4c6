------------------------- MODULE MCRequestPipeline -------------------------
(***************************************************************************)
(* Two calls over two secrets.  askHere: a rule that asks on the domain    *)
(* and, having no global part, closes the secret to others.  ruleAndAsk: a *)
(* rule for the domain that is silent on POST, which the global methods    *)
(* ask for.                                                                *)
(***************************************************************************)
EXTENDS RequestPipeline, TLC

CONSTANTS r1, r2, s1, s2, bot

Rule(d, ms) == [domain |-> d, methods |-> ms]

MCPolicies ==
    { [rules |-> <<>>, domains |-> {}, methods |-> <<>>],
      [rules |-> <<Rule("api", [GET |-> "allow"])>>, domains |-> {},
       methods |-> [POST |-> "ask"]],
      [rules |-> <<>>, domains |-> {"other"}, methods |-> <<>>] }

MCEmptyPolicy == [rules |-> <<>>, domains |-> {}, methods |-> <<>>]

MCCapabilities == { [allowed |-> {}, denied |-> {s2}] }

MCCalls ==
    { [domain |-> "api", method |-> "POST", https |-> TRUE,
       secrets |-> <<s1, s2>>, agent |-> bot] }

\* Another terminal may close s1 to the domain or delete its policy, empty the allowlist, or
\* delete s2.
MCCommands ==
    { [of |-> s1, policy |-> [rules |-> <<>>, domains |-> {"other"}, methods |-> <<>>]],
      [of |-> s1, policy |-> MCEmptyPolicy],
      [domains |-> {}],
      [secrets |-> {s1}] }

\* At first s1 has the policy that asks, and s2 has none.
MCInit ==
    /\ Init
    /\ allowlist = Domains
    /\ policy[s1] # NoPolicy /\ policy[s1].rules # <<>> /\ policy[s2] = NoPolicy

MCSpec == MCInit /\ [][Next]_vars

\* The requests, and nothing else, are interchangeable.
MCSymmetry == Permutations(Requests)

\* Two calls run side by side as long as nothing is edited; an edit falls into
\* a call that runs alone.
MCConstraint == edits = 0 \/ \E r \in Requests : pc[r] = "idle"
=============================================================================
