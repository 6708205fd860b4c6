---------------------------- MODULE SecretPolicy ----------------------------
(***************************************************************************)
(* The two pure decisions of the enforcement pipeline: may this secret be  *)
(* used for this domain and method (pkg/capabilities/policy.go), and may   *)
(* this agent use this secret (isSecretAllowed in pkg/proxy/engine.go).    *)
(*                                                                         *)
(* A policy is [rules, domains, methods]: rules is a sequence of           *)
(* [domain, methods] records, domains a set, and each methods a function   *)
(* from the methods it lists to actions.  Domains and methods are compared *)
(* without regard to case in the code: here equal names are equal values.  *)
(***************************************************************************)
EXTENDS Integers, Sequences

CONSTANTS NoPolicy     \* a nil *SecretPolicy

Actions == {"allow", "deny", "ask"}

\* What the JSON of a policy decodes to: a list of rules and maps whose values
\* are actions (the CLI accepts no others).
WellFormed(c) ==
    /\ Len(c.rules) \in Nat
    /\ \A i \in 1..Len(c.rules) : \A m \in DOMAIN c.rules[i].methods :
          c.rules[i].methods[m] \in Actions
    /\ \A m \in DOMAIN c.methods : c.methods[m] \in Actions

\* The positions of the rules for domain d, and the first of them.
RulesFor(c, d) == {i \in 1..Len(c.rules) : c.rules[i].domain = d}

FirstRule(c, d) ==
    c.rules[CHOOSE i \in RulesFor(c, d) : \A j \in RulesFor(c, d) : i <= j]

\* EvaluateSecret, branch by branch.
EvaluateSecret(c, d, m) ==
    IF c = NoPolicy THEN "allow"
    ELSE IF RulesFor(c, d) # {}
      THEN IF m \in DOMAIN FirstRule(c, d).methods THEN FirstRule(c, d).methods[m]
           ELSE IF m \in DOMAIN c.methods THEN c.methods[m]
           ELSE "allow"
    ELSE IF c.rules # <<>> /\ c.domains = {} /\ DOMAIN c.methods = {} THEN "deny"
    ELSE IF c.domains # {} /\ d \notin c.domains THEN "deny"
    ELSE IF m \in DOMAIN c.methods THEN c.methods[m]
    ELSE "allow"

\* isSecretAllowed; caps is [allowed, denied], both sets of secret keys.
IsSecretAllowed(caps, s) ==
    s \notin caps.denied /\ (caps.allowed # {} => s \in caps.allowed)

-----------------------------------------------------------------------------
(* What a policy means, said without the order of the branches.            *)

\* The domains a policy names, and whether it is closed to all the others.
NamedDomains(c) == c.domains \union {c.rules[i].domain : i \in 1..Len(c.rules)}

ClosedToOthers(c) == c.domains # {} \/ (c.rules # <<>> /\ DOMAIN c.methods = {})

\* What the policy says of the method: its rule for the domain first, then its
\* global methods; a method neither speaks of is allowed.
StatedAction(c, d, m) ==
    LET rules  == {i \in RulesFor(c, d) : \A j \in RulesFor(c, d) : i <= j}
        byRule == {c.rules[i].methods[m] :
                      i \in {k \in rules : m \in DOMAIN c.rules[k].methods}}
        global == {c.methods[k] : k \in {m} \intersect DOMAIN c.methods}
    IN  CHOOSE a \in Actions :
            \/ a \in byRule
            \/ byRule = {} /\ a \in global
            \/ byRule = {} /\ global = {} /\ a = "allow"

MeansOf(c, d, m) ==
    IF c # NoPolicy /\ ClosedToOthers(c) /\ d \notin NamedDomains(c)
      THEN "deny"
      ELSE IF c = NoPolicy THEN "allow" ELSE StatedAction(c, d, m)
=============================================================================
