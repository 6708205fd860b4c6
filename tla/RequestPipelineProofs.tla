----------------------- MODULE RequestPipelineProofs -----------------------
(***************************************************************************)
(* Theorems about RequestPipeline, for any number of calls, any secrets,   *)
(* policies and edits, and about the meaning of a policy (SecretPolicy).   *)
(*                                                                         *)
(* The inductive invariant says what each stage of a call may rely on: what*)
(* has been checked so far, on what the call read; that secrets are held   *)
(* in the order of the call; and what has been sent, answered and recorded.*)
(***************************************************************************)
EXTENDS RequestPipeline, FiniteSetTheorems, SequenceTheorems, TLAPS

-----------------------------------------------------------------------------
(* EvaluateSecret says what a policy means, for every policy, of any       *)
(* number of rules, over any domains and methods.                          *)

\* A set of natural numbers has a least element: among the intervals that end
\* in the set, one includes no other.
LEMMA LeastNatural ==
    ASSUME NEW T \in SUBSET Nat, T # {}
    PROVE  \E i \in T : \A j \in T : i <= j
<1> DEFINE upTo(k) == 0..k
           Intervals == {upTo(k) : k \in T}
<1>1. Intervals \subseteq FiniteSubsetsOf(Nat)
  <2>1. \A k \in T : upTo(k) \subseteq Nat /\ IsFiniteSet(upTo(k))
    BY FS_Interval
  <2> QED
    BY <2>1 DEF FiniteSubsetsOf
<1>2. PICK I \in Intervals :
          \A J \in Intervals : ~ (<<J, I>> \in StrictSubsetOrdering(Nat))
  <2>1. Intervals # {}
    OBVIOUS
  <2> QED
    BY <1>1, <2>1, FS_StrictSubsetOrderingWellFounded, WFMin
<1>3. PICK i \in T : I = upTo(i)
  BY <1>2
<1>4. ASSUME NEW j \in T, j < i PROVE FALSE
  <2>1. upTo(j) \subseteq upTo(i) /\ upTo(j) # upTo(i) /\ upTo(i) \subseteq Nat
    BY <1>4
  <2>2. <<upTo(j), upTo(i)>> \in StrictSubsetOrdering(Nat)
    BY <2>1 DEF StrictSubsetOrdering
  <2> QED
    BY <1>2, <1>3, <2>2
<1> QED
  BY <1>4

\* A domain that has rules has a first rule.
LEMMA FirstPosition ==
    ASSUME NEW c, NEW d, Len(c.rules) \in Nat, RulesFor(c, d) # {}
    PROVE  \E i \in RulesFor(c, d) : \A j \in RulesFor(c, d) : i <= j
<1>1. RulesFor(c, d) \in SUBSET Nat
  BY DEF RulesFor
<1> QED
  BY <1>1, LeastNatural

\* FirstRule picks the rule at the only position StatedAction looks at.
LEMMA FirstIsUnique ==
    ASSUME NEW c, NEW d, Len(c.rules) \in Nat, RulesFor(c, d) # {}
    PROVE  \E i \in RulesFor(c, d) :
              /\ {k \in RulesFor(c, d) : \A j \in RulesFor(c, d) : k <= j} = {i}
              /\ FirstRule(c, d) = c.rules[i]
<1> DEFINE F == {k \in RulesFor(c, d) : \A j \in RulesFor(c, d) : k <= j}
           i == CHOOSE k \in RulesFor(c, d) : \A j \in RulesFor(c, d) : k <= j
<1>1. i \in F
  BY FirstPosition
<1>2. RulesFor(c, d) \subseteq Nat
  BY DEF RulesFor
<1>3. \A k \in F : k = i
  BY <1>1, <1>2
<1>4. F = {i} /\ FirstRule(c, d) = c.rules[i]
  BY <1>1, <1>3 DEF FirstRule
<1> QED
  BY <1>1, <1>4

\* capabilities/policy.go, EvaluateSecret: the ordered branches of the code give
\* exactly the action the policy states: the first rule for the domain, then the
\* global methods, then "allow", and "deny" for a domain the policy is closed to.
THEOREM PolicyMeaning ==
    ASSUME NEW c, NEW d, NEW m, c = NoPolicy \/ WellFormed(c)
    PROVE  EvaluateSecret(c, d, m) = MeansOf(c, d, m)
<1>1. CASE c = NoPolicy
  BY <1>1 DEF EvaluateSecret, MeansOf
<1>2. CASE c # NoPolicy /\ RulesFor(c, d) # {}
  <2> DEFINE rules  == {i \in RulesFor(c, d) : \A j \in RulesFor(c, d) : i <= j}
             byRule == {c.rules[i].methods[m] :
                           i \in {k \in rules : m \in DOMAIN c.rules[k].methods}}
             global == {c.methods[k] : k \in {m} \intersect DOMAIN c.methods}
             Says(a) == \/ a \in byRule
                        \/ byRule = {} /\ a \in global
                        \/ byRule = {} /\ global = {} /\ a = "allow"
  <2>1. WellFormed(c)
    BY <1>2
  <2>2. PICK i \in RulesFor(c, d) : rules = {i} /\ FirstRule(c, d) = c.rules[i]
    BY <1>2, <2>1, FirstIsUnique DEF WellFormed
  <2>3. i \in 1..Len(c.rules) /\ c.rules[i].domain = d
    BY <2>2 DEF RulesFor
  <2>4. MeansOf(c, d, m) = StatedAction(c, d, m)
    BY <1>2, <2>3 DEF MeansOf, NamedDomains
  <2>5. ASSUME NEW x \in Actions, \A a \in Actions : Says(a) <=> a = x
        PROVE  StatedAction(c, d, m) = x
    <3>1. (CHOOSE a \in Actions : Says(a)) = x
      BY <2>5
    <3> QED
      BY <3>1 DEF StatedAction
  <2>6. CASE m \in DOMAIN c.rules[i].methods
    <3>1. byRule = {c.rules[i].methods[m]}
      BY <2>2, <2>6
    <3>2. c.rules[i].methods[m] \in Actions
      BY <2>1, <2>3, <2>6 DEF WellFormed
    <3>3. StatedAction(c, d, m) = c.rules[i].methods[m]
      BY <2>5, <3>1, <3>2
    <3> QED
      BY <1>2, <2>2, <2>4, <2>6, <3>3 DEF EvaluateSecret
  <2>7. CASE m \notin DOMAIN c.rules[i].methods /\ m \in DOMAIN c.methods
    <3>1. byRule = {} /\ global = {c.methods[m]}
      BY <2>2, <2>7
    <3>2. c.methods[m] \in Actions
      BY <2>1, <2>7 DEF WellFormed
    <3>3. StatedAction(c, d, m) = c.methods[m]
      BY <2>5, <3>1, <3>2
    <3> QED
      BY <1>2, <2>2, <2>4, <2>7, <3>3 DEF EvaluateSecret
  <2>8. CASE m \notin DOMAIN c.rules[i].methods /\ m \notin DOMAIN c.methods
    <3>1. byRule = {} /\ global = {}
      BY <2>2, <2>8
    <3>2. StatedAction(c, d, m) = "allow"
      BY <2>5, <3>1 DEF Actions
    <3> QED
      BY <1>2, <2>2, <2>4, <2>8, <3>2 DEF EvaluateSecret
  <2> QED
    BY <2>6, <2>7, <2>8
<1>3. CASE c # NoPolicy /\ RulesFor(c, d) = {}
  <2> DEFINE global == {c.methods[k] : k \in {m} \intersect DOMAIN c.methods}
             Says(a) == a \in global \/ (global = {} /\ a = "allow")
  <2>1. WellFormed(c)
    BY <1>3
  <2>2. d \in NamedDomains(c) <=> d \in c.domains
    BY <1>3 DEF NamedDomains, RulesFor
  <2>3. StatedAction(c, d, m) = CHOOSE a \in Actions : Says(a)
    BY <1>3 DEF StatedAction
  <2>4. ASSUME m \in DOMAIN c.methods
        PROVE  StatedAction(c, d, m) = c.methods[m]
    <3>1. global = {c.methods[m]} /\ c.methods[m] \in Actions
      BY <2>1, <2>4 DEF WellFormed
    <3> QED
      BY <2>3, <3>1
  <2>5. ASSUME m \notin DOMAIN c.methods
        PROVE  StatedAction(c, d, m) = "allow"
    <3>1. global = {} /\ "allow" \in Actions
      BY <2>5 DEF Actions
    <3> QED
      BY <2>3, <3>1
  <2> QED
    BY <1>3, <2>2, <2>4, <2>5 DEF EvaluateSecret, MeansOf, ClosedToOthers
<1> QED
  BY <1>1, <1>2, <1>3

-----------------------------------------------------------------------------
(* The pipeline.                                                           *)

Count(r) == Len(call[r].secrets)

\* The stages a call reaches only once it has been screened, its domain looked up,
\* all its injections judged, and all its secrets resolved.
Resolved == {"forward", "redact"}
Admitted == Resolved \union {"inject"}
Looping  == {"policy", "repolicy", "judge", "approval"}
Listed   == Looping \union Admitted
Screened == Listed \union {"allowlist", "relist", "domain"}

\* At a stage of S, or past all of them with the credential sent.
Past(r, S) == pc[r] \in S \/ sent[r] # {}

ScreenHeld(r) ==
    Past(r, Screened) =>
        /\ call[r].https
        /\ caps[r] # NoCaps => \A s \in SecretsOf(r) : IsSecretAllowed(caps[r], s)

DomainHeld(r) == Past(r, Listed) => call[r].domain \in list[r]

LicensedUpTo(r, n) == \A i \in 1..n : Licensed(r, i)

\* How far the policy loop has come.
LoopHeld(r) ==
    /\ pc[r] \in {"idle", "identify", "presence", "screen", "allowlist", "relist", "domain"} =>
          judged[r] = <<>>
    /\ pc[r] = "policy" => Len(judged[r]) < Count(r) /\ LicensedUpTo(r, Len(judged[r]))
    /\ pc[r] \in {"repolicy", "judge", "approval"} =>
          /\ Len(judged[r]) \in 1..Count(r)
          /\ LicensedUpTo(r, Len(judged[r]) - 1)
    /\ Past(r, Admitted) => Len(judged[r]) = Count(r) /\ LicensedUpTo(r, Count(r))

\* The gate is asked for the injection the loop is at, and only then.
GateHeld(r) ==
    /\ pc[r] # "approval" => phase[r] = "idle"
    /\ pc[r] = "approval" =>
          /\ asked[r] = KeyOf(r, Len(judged[r]))
          /\ MeansOf(judged[r][Len(judged[r])], call[r].domain, call[r].method) = "ask"
    /\ phase[r] = "permitted" => asked[r] \in granted

\* The values held are those of the first secrets of the call.
ValuesHeld(r) ==
    /\ Len(held[r]) <= Count(r) /\ \A i \in 1..Len(held[r]) : held[r][i] = call[r].secrets[i]
    /\ pc[r] \notin {"inject", "failed", "forensic", "done", "blocked"} \union Resolved =>
          held[r] = <<>>
    /\ pc[r] \in Resolved => Len(held[r]) = Count(r)

EffectsHeld(r) ==
    /\ sent[r] \in {{}, SecretsOf(r)}
    /\ pc[r] \notin {"redact", "forensic", "done", "failed"} => sent[r] = {}
    /\ pc[r] \in {"redact", "done"} => sent[r] # {}
    /\ pc[r] \notin {"forensic", "done", "blocked"} => log[r] = <<>>
    /\ pc[r] \in {"forensic", "done", "blocked"} /\ AuditOpen =>
          log[r] = <<IF sent[r] # {} THEN "OK" ELSE "BLOCKED">>
    /\ \A s \in Secrets : <<s, "exact">> \notin reply[r]

Good(r) ==
    ScreenHeld(r) /\ DomainHeld(r) /\ LoopHeld(r) /\ GateHeld(r) /\ ValuesHeld(r) /\ EffectsHeld(r)

Inv == TypeOK /\ \A r \in Requests : Good(r)

-----------------------------------------------------------------------------
(* A step of one call leaves the others as they are; a step of the world,  *)
(* all of them.                                                            *)

Same(q) ==
    /\ pc'[q] = pc[q] /\ call'[q] = call[q] /\ agent'[q] = agent[q]
    /\ caps'[q] = caps[q] /\ list'[q] = list[q] /\ judged'[q] = judged[q]
    /\ held'[q] = held[q] /\ sent'[q] = sent[q] /\ reply'[q] = reply[q]
    /\ log'[q] = log[q] /\ phase'[q] = phase[q] /\ asked'[q] = asked[q]

LEMMA Frame ==
    ASSUME NEW q \in Requests, Good(q), Same(q), granted \subseteq granted'
    PROVE  Good(q)'
<1>1. ScreenHeld(q)' /\ DomainHeld(q)'
  BY DEF Same, Good, ScreenHeld, DomainHeld, Past, SecretsOf
<1>2. \A i : Licensed(q, i) => Licensed(q, i)'
  BY DEF Same, Licensed, KeyOf
<1>3. LoopHeld(q)'
  BY <1>2 DEF Same, Good, LoopHeld, LicensedUpTo, Past, Count
<1>4. GateHeld(q)'
  BY DEF Same, Good, GateHeld, KeyOf
<1>5. ValuesHeld(q)'
  BY DEF Same, Good, ValuesHeld, Count
<1>6. SecretsOf(q)' = SecretsOf(q)
  BY DEF Same, SecretsOf
<1>7. EffectsHeld(q)'
  <2>1. EffectsHeld(q)
    BY DEF Good
  <2> QED
    BY <1>6, <2>1 DEF Same, EffectsHeld
<1> QED
  BY <1>1, <1>3, <1>4, <1>5, <1>7 DEF Good

LEMMA OneCall ==
    ASSUME Inv, NEW r \in Requests, TypeOK', Good(r)', granted \subseteq granted',
           \A q \in Requests : q # r => Same(q)
    PROVE  Inv'
<1>1. ASSUME NEW q \in Requests, q # r PROVE Good(q)'
  BY <1>1, Frame DEF Inv
<1> QED
  BY <1>1 DEF Inv

\* The policies a call has judged by have a meaning.
LEMMA JudgedByMeaning ==
    ASSUME TypeOK, NEW r \in Requests, NEW i \in 1..Len(judged[r]), NEW d, NEW m
    PROVE  EvaluateSecret(judged[r][i], d, m) = MeansOf(judged[r][i], d, m)
<1>1. judged[r][i] \in Policies \union {NoPolicy}
  BY DEF TypeOK
<1> QED
  BY <1>1, PipelineAssumption, PolicyMeaning

\* A call names at least one secret, and each has an approval key.
LEMMA CallFacts ==
    ASSUME TypeOK, NEW r \in Requests
    PROVE  /\ Count(r) \in Nat \ {0}
           /\ call[r].secrets \in Seq(Secrets)
           /\ \A i \in 1..Count(r) : /\ call[r].secrets[i] \in Secrets
                                     /\ KeyOf(r, i) \in Keys
           /\ SecretsOf(r) # {} /\ SecretsOf(r) \subseteq Secrets
<1>1. /\ call[r] \in Calls
      /\ call[r].secrets \in Seq(Secrets) /\ call[r].secrets # <<>>
      /\ call[r].domain \in Domains /\ call[r].method \in Methods
      /\ agent[r] \in Agents \union {Unnamed}
  BY PipelineAssumption DEF TypeOK
<1>2. Count(r) \in Nat \ {0}
  BY <1>1 DEF Count
<1>3. \A i \in 1..Count(r) : call[r].secrets[i] \in Secrets
  BY <1>1 DEF Count
<1>4. \A i \in 1..Count(r) : KeyOf(r, i) \in Keys
  BY <1>1, <1>3 DEF KeyOf, Keys
<1>5. SecretsOf(r) # {} /\ SecretsOf(r) \subseteq Secrets
  <2>1. 1 \in 1..Len(call[r].secrets)
    BY <1>2 DEF Count
  <2> QED
    BY <1>3, <2>1 DEF SecretsOf, Count
<1> QED
  BY <1>1, <1>2, <1>3, <1>4, <1>5

-----------------------------------------------------------------------------
(* Stages that rely on little.                                             *)

\* Before it is screened a call has nothing.
LEMMA EarlyStage ==
    ASSUME NEW r \in Requests, TypeOK', phase'[r] = "idle",
           pc'[r] \in {"idle", "identify", "presence", "screen"},
           judged'[r] = <<>>, held'[r] = <<>>, sent'[r] = {}, log'[r] = <<>>,
           \A s \in Secrets : <<s, "exact">> \notin reply'[r]
    PROVE  Good(r)'
<1>1. (Count(r) \in Nat \ {0})'
  BY CallFacts, PTL
<1>2. ScreenHeld(r)' /\ DomainHeld(r)' /\ LoopHeld(r)' /\ GateHeld(r)'
  BY DEF ScreenHeld, DomainHeld, LoopHeld, GateHeld, Past, Screened, Listed, Looping,
         Admitted, Resolved
<1>3. ValuesHeld(r)' /\ EffectsHeld(r)'
  BY <1>1 DEF ValuesHeld, EffectsHeld, Resolved
<1> QED
  BY <1>2, <1>3 DEF Good

\* A call that ends before it is sent.
LEMMA EndsUnsent ==
    ASSUME Inv, NEW r \in Requests,
           pc[r] \notin {"redact", "forensic"} \union Answered,
           pc'[r] \in {"failed", "forensic"}, phase'[r] = "idle",
           call'[r] = call[r], held'[r] = held[r], sent'[r] = sent[r],
           reply'[r] = reply[r],
           log'[r] = IF pc'[r] = "forensic" /\ AuditOpen THEN <<"BLOCKED">> ELSE log[r]
    PROVE  Good(r)'
<1>1. sent[r] = {} /\ log[r] = <<>>
  BY DEF Inv, Good, EffectsHeld, Answered
<1>2. ScreenHeld(r)' /\ DomainHeld(r)' /\ LoopHeld(r)' /\ GateHeld(r)'
  BY <1>1 DEF ScreenHeld, DomainHeld, LoopHeld, GateHeld, Past, Screened, Listed, Looping,
              Admitted, Resolved
<1>3. ValuesHeld(r)'
  BY DEF Inv, Good, ValuesHeld, Count, Resolved
<1>4. EffectsHeld(r)'
  BY <1>1 DEF Inv, Good, EffectsHeld
<1> QED
  BY <1>2, <1>3, <1>4 DEF Good

\* What Block and Fail do, from a stage before the call is sent.
LEMMA BlockOrFail ==
    ASSUME Inv, NEW r \in Requests, NEW a \in Stages,
           a \notin {"idle", "redact", "forensic", "approval"} \union Answered,
           Block(r, a) \/ Fail(r, a),
           UNCHANGED <<gateVars, call, judged, held, list>>,
           world' = world, agent' \in [Requests -> Agents \union {Unnamed}],
           caps' \in [Requests -> Capabilities \union {NoCaps}],
           \A q \in Requests : q # r => agent'[q] = agent[q] /\ caps'[q] = caps[q]
    PROVE  Inv'
<1>1. /\ pc[r] = a /\ pc' \in [Requests -> Stages] /\ pc'[r] \in {"failed", "forensic"}
      /\ \A q \in Requests : q # r => pc'[q] = pc[q]
  BY DEF Block, Fail, Goto, Inv, TypeOK, Stages, Answered
<1>2. log[r] = <<>>
  BY <1>1 DEF Inv, Good, EffectsHeld, Answered
<1>3. /\ log' \in [Requests -> Seq({"OK", "BLOCKED"})]
      /\ log'[r] = IF pc'[r] = "forensic" /\ AuditOpen THEN <<"BLOCKED">> ELSE log[r]
      /\ \A q \in Requests : q # r => log'[q] = log[q]
  <2>1. CASE Fail(r, a)
    BY <1>1, <2>1 DEF Fail, Goto, effects, Inv, TypeOK
  <2>2. CASE Block(r, a)
    <3>1. pc'[r] = "forensic"
      BY <2>2 DEF Block, Goto, Inv, TypeOK
    <3>2. Append(log[r], "BLOCKED") = <<"BLOCKED">>
      BY <1>2
    <3>3. log' = [log EXCEPT ![r] = IF AuditOpen THEN <<"BLOCKED">> ELSE log[r]]
      BY <2>2, <3>2 DEF Block, Record
    <3>4. <<"BLOCKED">> \in Seq({"OK", "BLOCKED"})
      OBVIOUS
    <3> QED
      BY <3>1, <3>3, <3>4 DEF Inv, TypeOK
  <2> QED
    BY <2>1, <2>2
<1>4. UNCHANGED <<sent, reply, snap>>
  BY DEF Block, Fail, effects
<1>5. TypeOK'
  BY <1>1, <1>3, <1>4
  DEF Inv, TypeOK, world, keychain, cloud, console, gateVars, Gate!GateTypeOK
<1>6. phase[r] = "idle"
  BY <1>1 DEF Inv, Good, GateHeld
<1>7. Good(r)'
  BY <1>1, <1>3, <1>4, <1>6, EndsUnsent DEF gateVars
<1>8. \A q \in Requests : q # r => Same(q)
  BY <1>1, <1>3, <1>4 DEF Same, gateVars
<1> QED
  BY <1>5, <1>7, <1>8, OneCall DEF gateVars

-----------------------------------------------------------------------------
(* The stages of a call, one by one.                                       *)

LEMMA ArriveInv == ASSUME Inv, NEW r \in Requests, Arrive(r) PROVE Inv'
<1>1. PICK c \in Calls : /\ call' = [call EXCEPT ![r] = c]
                         /\ agent' = [agent EXCEPT ![r] = c.agent]
  BY DEF Arrive
<1>2. /\ pc[r] = "idle" /\ pc' = [pc EXCEPT ![r] = "identify"]
      /\ UNCHANGED <<world, gateVars, caps, list, judged, held, effects>>
  BY DEF Arrive, Goto
<1>3. c.agent \in Agents \union {Unnamed}
  BY PipelineAssumption
<1>4. TypeOK'
  BY <1>1, <1>2, <1>3
  DEF Inv, TypeOK, Stages, world, keychain, cloud, console, gateVars, effects, Gate!GateTypeOK
<1>5. phase[r] = "idle" /\ judged[r] = <<>> /\ held[r] = <<>> /\ sent[r] = {} /\ log[r] = <<>>
  BY <1>2 DEF Inv, Good, GateHeld, LoopHeld, ValuesHeld, EffectsHeld, Resolved
<1>6. \A s \in Secrets : <<s, "exact">> \notin reply[r]
  BY DEF Inv, Good, EffectsHeld
<1>7. pc'[r] = "identify"
  BY <1>2 DEF Inv, TypeOK
<1>8. Good(r)'
  BY <1>2, <1>4, <1>5, <1>6, <1>7, EarlyStage DEF gateVars, effects
<1>9. \A q \in Requests : q # r => Same(q)
  BY <1>1, <1>2 DEF Inv, TypeOK, Same, gateVars, effects
<1> QED
  BY <1>2, <1>4, <1>8, <1>9, OneCall DEF gateVars

LEMMA IdentifyInv == ASSUME Inv, NEW r \in Requests, Identify(r) PROVE Inv'
<1>1. UNCHANGED <<world, gateVars, call, list, judged, held>>
  BY DEF Identify
<1>2. /\ agent' \in [Requests -> Agents \union {Unnamed}]
      /\ caps' \in [Requests -> Capabilities \union {NoCaps}]
      /\ \A q \in Requests : q # r => agent'[q] = agent[q] /\ caps'[q] = caps[q]
  <2>1. CASE UNCHANGED <<agent, caps>>
    BY <2>1 DEF Inv, TypeOK
  <2>2. ASSUME NEW a \in Agents, NEW c \in Capabilities,
               agent' = [agent EXCEPT ![r] = IF @ = Unnamed THEN a ELSE @],
               caps' = [caps EXCEPT ![r] = c]
        PROVE  /\ agent' \in [Requests -> Agents \union {Unnamed}]
               /\ caps' \in [Requests -> Capabilities \union {NoCaps}]
               /\ \A q \in Requests : q # r => agent'[q] = agent[q] /\ caps'[q] = caps[q]
    BY <2>2 DEF Inv, TypeOK
  <2> QED
    BY <2>1, <2>2 DEF Identify
<1>3. CASE Step(r, "identify", "presence")
  <2>1. /\ pc[r] = "identify" /\ pc' = [pc EXCEPT ![r] = "presence"]
        /\ UNCHANGED effects
    BY <1>3 DEF Step, Goto
  <2>2. TypeOK'
    BY <1>1, <1>2, <2>1
    DEF Inv, TypeOK, Stages, world, keychain, cloud, console, gateVars, effects, Gate!GateTypeOK
  <2>3. phase[r] = "idle" /\ judged[r] = <<>> /\ held[r] = <<>> /\ sent[r] = {} /\ log[r] = <<>>
    BY <2>1 DEF Inv, Good, GateHeld, LoopHeld, ValuesHeld, EffectsHeld, Resolved
  <2>4. \A s \in Secrets : <<s, "exact">> \notin reply[r]
    BY DEF Inv, Good, EffectsHeld
  <2>5. pc'[r] = "presence"
    BY <2>1 DEF Inv, TypeOK
  <2>6. Good(r)'
    BY <1>1, <2>1, <2>2, <2>3, <2>4, <2>5, EarlyStage DEF gateVars, effects
  <2>7. \A q \in Requests : q # r => Same(q)
    BY <1>1, <1>2, <2>1 DEF Inv, TypeOK, Same, gateVars, effects
  <2> QED
    BY <1>1, <2>2, <2>6, <2>7, OneCall DEF gateVars
<1>4. CASE Block(r, "identify") \/ Fail(r, "identify")
  BY <1>1, <1>2, <1>4, BlockOrFail DEF Stages, Answered
<1> QED
  BY <1>3, <1>4 DEF Identify

\* A step that only moves on: the call keeps what it has, the world too.
LEMMA StepOn ==
    ASSUME Inv, NEW r \in Requests, NEW a \in Stages, NEW b \in Stages, Step(r, a, b),
           UNCHANGED <<world, gateVars, call, reads>>, Good(r)'
    PROVE  Inv'
<1>1. /\ pc' = [pc EXCEPT ![r] = b]
      /\ UNCHANGED effects
  BY DEF Step, Goto
<1>2. TypeOK'
  BY <1>1
  DEF Inv, TypeOK, world, keychain, cloud, console, gateVars, reads, effects, Gate!GateTypeOK
<1>3. \A q \in Requests : q # r => Same(q)
  BY <1>1 DEF Inv, TypeOK, Same, gateVars, reads, effects
<1> QED
  BY <1>2, <1>3, OneCall DEF gateVars

LEMMA PresenceInv == ASSUME Inv, NEW r \in Requests, CheckPresence(r) PROVE Inv'
<1>1. UNCHANGED <<world, gateVars, call, reads>>
  BY DEF CheckPresence
<1>2. CASE Step(r, "presence", "screen")
  <2>1. pc[r] = "presence" /\ pc'[r] = "screen" /\ UNCHANGED effects
    BY <1>2 DEF Step, Goto, Inv, TypeOK
  <2>2. phase[r] = "idle" /\ judged[r] = <<>> /\ held[r] = <<>> /\ sent[r] = {} /\ log[r] = <<>>
    BY <2>1 DEF Inv, Good, GateHeld, LoopHeld, ValuesHeld, EffectsHeld, Resolved
  <2>3. \A s \in Secrets : <<s, "exact">> \notin reply[r]
    BY DEF Inv, Good, EffectsHeld
  <2>4. TypeOK'
    BY <1>1, <1>2
    DEF Step, Goto, Inv, TypeOK, Stages, world, keychain, cloud, console, gateVars, reads,
        effects, Gate!GateTypeOK
  <2>5. Good(r)'
    BY <1>1, <2>1, <2>2, <2>3, <2>4, EarlyStage DEF gateVars, reads, effects
  <2> QED
    BY <1>1, <1>2, <2>5, StepOn DEF Stages
<1>3. CASE Fail(r, "presence")
  BY <1>1, <1>3, BlockOrFail DEF Stages, Answered, reads, Inv, TypeOK
<1> QED
  BY <1>2, <1>3 DEF CheckPresence

LEMMA ScreenInv == ASSUME Inv, NEW r \in Requests, Screen(r) PROVE Inv'
<1>1. UNCHANGED <<world, gateVars, call, reads>>
  BY DEF Screen
<1>2. CASE Step(r, "screen", "allowlist")
  <2>1. /\ pc[r] = "screen" /\ pc'[r] = "allowlist"
        /\ UNCHANGED <<sent, reply, log, phase, asked, granted, call, caps, list, judged, held>>
    BY <1>1, <1>2 DEF Step, Goto, Inv, TypeOK, effects, gateVars, reads
  <2>2. /\ call[r].https
        /\ caps[r] # NoCaps => \A s \in SecretsOf(r) : IsSecretAllowed(caps[r], s)
    BY <2>1 DEF Screen, Fail, Step, Block, Goto, Inv, TypeOK
  <2>3. sent[r] = {} /\ Good(r)
    BY <2>1 DEF Inv, Good, EffectsHeld
  <2>4. ScreenHeld(r)'
    BY <2>1, <2>2 DEF ScreenHeld, SecretsOf
  <2>5. DomainHeld(r)' /\ LoopHeld(r)' /\ GateHeld(r)'
    BY <2>1, <2>3 DEF Good, DomainHeld, LoopHeld, GateHeld, Past, Listed, Looping, Admitted,
                      Resolved
  <2>6. ValuesHeld(r)' /\ EffectsHeld(r)'
    BY <2>1, <2>3 DEF Good, ValuesHeld, EffectsHeld, Count, SecretsOf, Resolved
  <2> QED
    BY <1>1, <1>2, <2>4, <2>5, <2>6, StepOn DEF Good, Stages
<1>3. CASE Block(r, "screen")
  BY <1>1, <1>3, BlockOrFail DEF Stages, Answered, reads, Inv, TypeOK
<1> QED
  BY <1>2, <1>3 DEF Screen

\* Good, for a call that moves on between the stages before its policies are read.
LEMMA ListStage ==
    ASSUME NEW r \in Requests, Good(r), pc[r] \in {"allowlist", "relist"},
           pc'[r] \in {"relist", "domain"},
           call'[r] = call[r], caps'[r] = caps[r], judged'[r] = judged[r],
           held'[r] = held[r], sent'[r] = sent[r], reply'[r] = reply[r],
           log'[r] = log[r], phase'[r] = phase[r], asked'[r] = asked[r]
    PROVE  Good(r)'
<1>1. sent[r] = {} /\ judged[r] = <<>> /\ phase[r] = "idle"
  BY DEF Good, EffectsHeld, LoopHeld, GateHeld
<1>2. ScreenHeld(r)'
  BY DEF Good, ScreenHeld, SecretsOf, Past, Screened
<1>3. DomainHeld(r)' /\ LoopHeld(r)' /\ GateHeld(r)'
  BY <1>1 DEF Good, DomainHeld, LoopHeld, GateHeld, Past, Listed, Looping, Admitted, Resolved
<1>4. ValuesHeld(r)' /\ EffectsHeld(r)'
  BY <1>1 DEF Good, ValuesHeld, EffectsHeld, Count, SecretsOf, Resolved
<1> QED
  BY <1>2, <1>3, <1>4 DEF Good

LEMMA ReadAllowlistInv == ASSUME Inv, NEW r \in Requests, ReadAllowlist(r) PROVE Inv'
<1>1. UNCHANGED <<world, gateVars, call, agent, caps, judged, held>>
  BY DEF ReadAllowlist
<1>2. CASE Fail(r, "allowlist") /\ UNCHANGED list
  BY <1>1, <1>2, BlockOrFail DEF Stages, Answered, Inv, TypeOK
<1>3. ASSUME NEW b \in {"domain", "relist"}, NEW l \in SUBSET Domains,
             Step(r, "allowlist", b), list' = [list EXCEPT ![r] = l]
      PROVE  Inv'
  <2>1. pc[r] = "allowlist" /\ pc' = [pc EXCEPT ![r] = b] /\ UNCHANGED effects
    BY <1>3 DEF Step, Goto
  <2>2. TypeOK'
    BY <1>1, <1>3, <2>1
    DEF Inv, TypeOK, Stages, world, keychain, cloud, console, gateVars, effects, Gate!GateTypeOK
  <2>3. pc'[r] \in {"relist", "domain"}
    BY <1>3, <2>1 DEF Inv, TypeOK
  <2>4. Good(r)'
    BY <1>1, <2>1, <2>3, ListStage DEF Inv, gateVars, effects
  <2>5. \A q \in Requests : q # r => Same(q)
    BY <1>1, <1>3, <2>1 DEF Inv, TypeOK, Same, gateVars, effects
  <2> QED
    BY <1>1, <2>2, <2>4, <2>5, OneCall DEF gateVars
<1>4. allowlist \in SUBSET Domains /\ cloudList \in SUBSET Domains
  BY DEF Inv, TypeOK
<1> QED
  BY <1>2, <1>3, <1>4 DEF ReadAllowlist

LEMMA WriteAllowlistBackInv ==
    ASSUME Inv, NEW r \in Requests, WriteAllowlistBack(r)
    PROVE  Inv'
<1>1. /\ pc[r] = "relist" /\ pc' = [pc EXCEPT ![r] = "domain"] /\ UNCHANGED effects
      /\ allowlist' \in {allowlist, list[r]}
      /\ UNCHANGED <<present, policy, cloud, console, gateVars, call, reads>>
  BY DEF WriteAllowlistBack, Step, Goto
<1>2. TypeOK'
  BY <1>1
  DEF Inv, TypeOK, Stages, cloud, console, gateVars, reads, effects, Gate!GateTypeOK
<1>3. pc'[r] = "domain"
  BY <1>1 DEF Inv, TypeOK
<1>4. Good(r)'
  BY <1>1, <1>3, ListStage DEF Inv, gateVars, reads, effects
<1>5. \A q \in Requests : q # r => Same(q)
  BY <1>1 DEF Inv, TypeOK, Same, gateVars, reads, effects
<1> QED
  BY <1>1, <1>2, <1>4, <1>5, OneCall DEF gateVars

LEMMA DomainInv == ASSUME Inv, NEW r \in Requests, CheckDomain(r) PROVE Inv'
<1>1. UNCHANGED <<world, gateVars, call, reads>>
  BY DEF CheckDomain
<1>2. CASE Step(r, "domain", "policy")
  <2>1. /\ pc[r] = "domain" /\ pc'[r] = "policy"
        /\ UNCHANGED <<sent, reply, log, phase, asked, granted, call, caps, list, judged, held>>
    BY <1>1, <1>2 DEF Step, Goto, Inv, TypeOK, effects, gateVars, reads
  <2>2. call[r].domain \in list[r]
    BY <2>1 DEF CheckDomain, Block, Goto, Inv, TypeOK
  <2>3. sent[r] = {} /\ judged[r] = <<>> /\ Good(r) /\ Count(r) \in Nat \ {0}
    BY <2>1, CallFacts DEF Inv, Good, EffectsHeld, LoopHeld
  <2>4. ScreenHeld(r)' /\ DomainHeld(r)'
    BY <2>1, <2>2, <2>3 DEF Good, ScreenHeld, DomainHeld, SecretsOf, Past, Screened
  <2>5. LoopHeld(r)'
    BY <2>1, <2>3 DEF LoopHeld, LicensedUpTo, Past, Admitted, Resolved, Count
  <2>6. GateHeld(r)' /\ ValuesHeld(r)' /\ EffectsHeld(r)'
    BY <2>1, <2>3 DEF Good, GateHeld, ValuesHeld, EffectsHeld, Count, SecretsOf, Resolved
  <2> QED
    BY <1>1, <1>2, <2>4, <2>5, <2>6, StepOn DEF Good, Stages
<1>3. CASE Block(r, "domain")
  BY <1>1, <1>3, BlockOrFail DEF Stages, Answered, reads, Inv, TypeOK
<1> QED
  BY <1>2, <1>3 DEF CheckDomain

-----------------------------------------------------------------------------
(* The policy loop.                                                        *)

\* What a call in the loop keeps from the earlier stages.
LEMMA LoopKeeps ==
    ASSUME NEW r \in Requests, Good(r), pc[r] \in Looping,
           pc'[r] \in Looping \union {"inject"},
           UNCHANGED <<call, caps, list, held>>,
           sent'[r] = sent[r], reply'[r] = reply[r], log'[r] = log[r]
    PROVE  ScreenHeld(r)' /\ DomainHeld(r)' /\ ValuesHeld(r)' /\ EffectsHeld(r)'
<1>1. sent[r] = {} /\ held[r] = <<>>
  BY DEF Good, EffectsHeld, ValuesHeld, Looping, Resolved
<1>2. ScreenHeld(r)' /\ DomainHeld(r)'
  BY DEF Good, ScreenHeld, DomainHeld, SecretsOf, Past, Screened, Listed, Admitted
<1>3. ValuesHeld(r)' /\ EffectsHeld(r)'
  BY <1>1 DEF Good, ValuesHeld, EffectsHeld, Count, SecretsOf, Resolved, Looping
<1> QED
  BY <1>2, <1>3

LEMMA ReadPolicyInv == ASSUME Inv, NEW r \in Requests, ReadPolicy(r) PROVE Inv'
<1>1. pc[r] = "policy" /\ UNCHANGED <<world, gateVars, call, agent, caps, list, held>>
  BY DEF ReadPolicy
<1>2. Good(r) /\ judged[r] \in Seq(Policies \union {NoPolicy}) /\ Count(r) \in Nat \ {0}
  BY CallFacts DEF Inv, TypeOK
<1>3. Len(judged[r]) < Count(r) /\ LicensedUpTo(r, Len(judged[r])) /\ sent[r] = {}
  BY <1>1, <1>2 DEF Good, LoopHeld, EffectsHeld
<1>4. NextSecret(r) \in Secrets
  <2>1. Len(judged[r]) + 1 \in 1..Count(r)
    BY <1>2, <1>3
  <2> QED
    BY <2>1, CallFacts DEF NextSecret, Inv
<1>5. PICK p \in Policies \union {NoPolicy}, b \in {"judge", "repolicy"} :
          judged' = [judged EXCEPT ![r] = Append(@, p)] /\ Step(r, "policy", b)
  BY <1>4 DEF ReadPolicy, Judging, Inv, TypeOK
<1>6. pc' = [pc EXCEPT ![r] = b] /\ UNCHANGED effects
  BY <1>5 DEF Step, Goto
<1>7. Append(judged[r], p) \in Seq(Policies \union {NoPolicy})
  BY <1>2
<1>8. TypeOK'
  BY <1>1, <1>5, <1>6, <1>7
  DEF Inv, TypeOK, Stages, world, keychain, cloud, console, gateVars, effects, Gate!GateTypeOK
<1>9. pc'[r] = b /\ judged'[r] = Append(judged[r], p) /\ phase[r] = "idle"
  BY <1>1, <1>2, <1>5, <1>6 DEF Inv, TypeOK, Good, GateHeld
<1>10. ScreenHeld(r)' /\ DomainHeld(r)' /\ ValuesHeld(r)' /\ EffectsHeld(r)'
  BY <1>1, <1>2, <1>6, <1>9, LoopKeeps DEF Looping, effects
<1>11. /\ Len(judged'[r]) = Len(judged[r]) + 1
       /\ \A i \in 1..Len(judged[r]) : judged'[r][i] = judged[r][i]
  BY <1>2, <1>9
<1>12. LoopHeld(r)'
  <2>1. \A i \in 1..Len(judged[r]) : Licensed(r, i)'
    BY <1>1, <1>3, <1>11 DEF LicensedUpTo, Licensed, KeyOf, gateVars
  <2>2. LicensedUpTo(r, Len(judged[r]) - 1)'
    BY <1>2, <1>11, <2>1 DEF LicensedUpTo
  <2>3. (Len(judged[r]) \in 1..Count(r))'
    BY <1>1, <1>2, <1>3, <1>11 DEF Count
  <2> QED
    BY <1>3, <1>6, <1>9, <2>2, <2>3 DEF LoopHeld, Past, Admitted, Resolved, effects
<1>13. GateHeld(r)'
  BY <1>1, <1>9 DEF GateHeld, gateVars
<1>14. \A q \in Requests : q # r => Same(q)
  BY <1>1, <1>5, <1>6 DEF Inv, TypeOK, Same, gateVars, effects
<1> QED
  BY <1>1, <1>8, <1>10, <1>12, <1>13, <1>14, OneCall DEF Good, gateVars

LEMMA WritePolicyBackInv ==
    ASSUME Inv, NEW r \in Requests, WritePolicyBack(r)
    PROVE  Inv'
<1>1. /\ pc[r] = "repolicy" /\ pc' = [pc EXCEPT ![r] = "judge"] /\ UNCHANGED effects
      /\ UNCHANGED <<present, allowlist, cloud, console, gateVars, call, reads>>
  BY DEF WritePolicyBack, Step, Goto
<1>2. pc'[r] = "judge" /\ Good(r) /\ judged[r] \in Seq(Policies \union {NoPolicy})
  BY <1>1 DEF Inv, TypeOK
<1>3. Len(judged[r]) \in 1..Count(r)
  BY <1>1, <1>2 DEF Good, LoopHeld
<1>4. judged[r][Len(judged[r])] \in Policies \union {NoPolicy}
  BY <1>2, <1>3
<1>5. policy' \in [Secrets -> Policies \union {NoPolicy}]
  BY <1>4 DEF WritePolicyBack, Inv, TypeOK
<1>6. TypeOK'
  BY <1>1, <1>5
  DEF Inv, TypeOK, Stages, cloud, console, gateVars, reads, effects, Gate!GateTypeOK
<1>7. ScreenHeld(r)' /\ DomainHeld(r)' /\ ValuesHeld(r)' /\ EffectsHeld(r)'
  BY <1>1, <1>2, LoopKeeps DEF Looping, reads, effects
<1>8. LoopHeld(r)'
  BY <1>1, <1>2
  DEF Good, LoopHeld, LicensedUpTo, Licensed, KeyOf, Count, Past, Admitted, Resolved, reads,
      effects, gateVars
<1>9. GateHeld(r)'
  BY <1>1, <1>2 DEF Good, GateHeld, gateVars
<1>10. \A q \in Requests : q # r => Same(q)
  BY <1>1 DEF Inv, TypeOK, Same, gateVars, reads, effects
<1> QED
  BY <1>1, <1>6, <1>7, <1>8, <1>9, <1>10, OneCall DEF Good, gateVars

\* Where the loop goes after an injection that is allowed.
LEMMA LoopGoesOn ==
    ASSUME Inv, NEW r \in Requests, pc[r] \in {"judge", "approval"},
           Licensed(r, Len(judged[r])),
           pc'[r] = NextStage(r), phase'[r] = "idle",
           UNCHANGED <<granted, call, reads, effects>>
    PROVE  Good(r)'
<1>1. /\ Good(r) /\ Count(r) \in Nat \ {0} /\ Len(judged[r]) \in 1..Count(r)
      /\ LicensedUpTo(r, Len(judged[r]) - 1)
  BY CallFacts DEF Inv, Good, LoopHeld
<1>2. sent[r] = {}
  BY DEF Inv, Good, EffectsHeld
<1>3. LicensedUpTo(r, Len(judged[r]))
  BY <1>1 DEF LicensedUpTo
<1>4. LicensedUpTo(r, Len(judged[r]))'
  BY <1>3 DEF LicensedUpTo, Licensed, KeyOf, reads
<1>5. pc'[r] \in {"policy", "inject"}
  BY DEF NextStage
<1>6. ScreenHeld(r)' /\ DomainHeld(r)' /\ ValuesHeld(r)' /\ EffectsHeld(r)'
  BY <1>1, <1>5, LoopKeeps DEF Looping, reads, effects
<1>7. GateHeld(r)'
  BY <1>5 DEF GateHeld
<1>8. LoopHeld(r)'
  <2>1. Len(judged'[r]) = Len(judged[r]) /\ Count(r)' = Count(r) /\ sent'[r] = {}
    BY <1>2 DEF Count, reads, effects
  <2>2. CASE Len(judged[r]) = Count(r)
    <3>1. pc'[r] = "inject"
      BY <2>2 DEF NextStage, Count
    <3> QED
      BY <1>4, <2>1, <2>2, <3>1 DEF LoopHeld
  <2>3. CASE Len(judged[r]) # Count(r)
    <3>1. pc'[r] = "policy" /\ Len(judged[r]) < Count(r)
      BY <1>1, <2>3 DEF NextStage, Count
    <3> QED
      BY <1>4, <2>1, <3>1 DEF LoopHeld, Past, Admitted, Resolved
  <2> QED
    BY <2>2, <2>3
<1> QED
  BY <1>6, <1>7, <1>8 DEF Good

LEMMA JudgeInv == ASSUME Inv, NEW r \in Requests, Judge(r) PROVE Inv'
<1> DEFINE n == Len(judged[r])
           p == judged[r][n]
           a == EvaluateSecret(p, call[r].domain, call[r].method)
<1>1. pc[r] = "judge" /\ UNCHANGED <<world, call, reads>>
  BY DEF Judge
<1>2. Good(r) /\ n \in 1..Count(r) /\ LicensedUpTo(r, n - 1)
  BY <1>1 DEF Inv, Good, LoopHeld
<1>3. a = MeansOf(p, call[r].domain, call[r].method)
  BY <1>2, JudgedByMeaning DEF Inv
<1>4. phase[r] = "idle"
  BY <1>1, <1>2 DEF Good, GateHeld
<1>5. CASE a = "allow" /\ Step(r, "judge", NextStage(r)) /\ UNCHANGED gateVars
  <2>1. Licensed(r, n)
    BY <1>3, <1>5 DEF Licensed
  <2>2. NextStage(r) \in Stages
    BY DEF NextStage, Stages
  <2>3. pc'[r] = NextStage(r) /\ UNCHANGED effects
    BY <1>5 DEF Step, Goto, Inv, TypeOK
  <2>4. Good(r)'
    BY <1>1, <1>4, <1>5, <2>1, <2>3, LoopGoesOn DEF gateVars
  <2> QED
    BY <1>1, <1>5, <2>2, <2>4, StepOn DEF Stages
<1>6. CASE Block(r, "judge") /\ UNCHANGED gateVars
  BY <1>1, <1>6, BlockOrFail DEF Stages, Answered, reads, Inv, TypeOK
<1>7. CASE a = "ask" /\ Step(r, "judge", "approval") /\ Gate!Ask(r, KeyOf(r, n))
  <2>1. /\ pc' = [pc EXCEPT ![r] = "approval"] /\ UNCHANGED effects
        /\ phase' = [phase EXCEPT ![r] = "asking"]
        /\ asked' = [asked EXCEPT ![r] = KeyOf(r, n)] /\ UNCHANGED granted
    BY <1>7 DEF Step, Goto, Gate!Ask, Gate!Move
  <2>2. KeyOf(r, n) \in Keys
    BY <1>2, CallFacts DEF Inv
  <2>3. TypeOK'
    BY <1>1, <2>1, <2>2
    DEF Inv, TypeOK, Stages, world, keychain, cloud, console, reads, effects,
        Gate!GateTypeOK, Gate!Phases
  <2>4. pc'[r] = "approval" /\ phase'[r] = "asking" /\ asked'[r] = KeyOf(r, n)
    BY <2>1 DEF Inv, TypeOK, Gate!GateTypeOK
  <2>5. ScreenHeld(r)' /\ DomainHeld(r)' /\ ValuesHeld(r)' /\ EffectsHeld(r)'
    BY <1>1, <1>2, <2>1, <2>4, LoopKeeps DEF Looping, reads, effects
  <2>6. LoopHeld(r)'
    BY <1>1, <1>2, <2>1, <2>4
    DEF Good, LoopHeld, LicensedUpTo, Licensed, KeyOf, Count, Past, Admitted, Resolved, reads,
        effects
  <2>7. GateHeld(r)'
    BY <1>1, <1>3, <1>7, <2>4 DEF GateHeld, KeyOf, reads
  <2>8. \A q \in Requests : q # r => Same(q)
    BY <1>1, <2>1 DEF Inv, TypeOK, Gate!GateTypeOK, Same, reads, effects
  <2> QED
    BY <2>1, <2>3, <2>5, <2>6, <2>7, <2>8, OneCall DEF Good
<1> QED
  BY <1>5, <1>6, <1>7 DEF Judge

-----------------------------------------------------------------------------
(* The gate.                                                               *)

LEMMA DecideInv == ASSUME Inv, NEW r \in Requests, Decide(r) PROVE Inv'
<1>1. UNCHANGED <<world, pc, call, reads, effects>>
  BY DEF Decide
<1>2. /\ phase[r] = "asking" /\ UNCHANGED asked
      /\ granted' \in {granted, granted \union {asked[r]}}
  BY DEF Decide, Gate!Permit, Gate!GrantAndPermit, Gate!Refuse, Gate!Move
<1>3. PICK to \in {"permitted", "refused"} :
          /\ phase' = [phase EXCEPT ![r] = to]
          /\ to = "permitted" => asked[r] \in granted'
  BY DEF Decide, Gate!Permit, Gate!GrantAndPermit, Gate!Refuse, Gate!Move
<1>4. TypeOK'
  BY <1>1, <1>2, <1>3
  DEF Inv, TypeOK, world, keychain, cloud, console, reads, effects, Gate!GateTypeOK,
      Gate!Phases
<1>5. Good(r) /\ pc[r] = "approval"
  BY <1>2 DEF Inv, Good, GateHeld
<1>6. phase'[r] = to
  BY <1>3 DEF Inv, TypeOK, Gate!GateTypeOK
<1>7. ScreenHeld(r)' /\ DomainHeld(r)' /\ ValuesHeld(r)' /\ EffectsHeld(r)'
  BY <1>1, <1>5, LoopKeeps DEF Looping, reads, effects
<1>8. LoopHeld(r)'
  BY <1>1, <1>2, <1>5
  DEF Good, LoopHeld, LicensedUpTo, Licensed, KeyOf, Count, Past, Admitted, Resolved, reads,
      effects
<1>9. GateHeld(r)'
  BY <1>1, <1>2, <1>3, <1>5, <1>6 DEF Good, GateHeld, KeyOf, reads
<1>10. \A q \in Requests : q # r => Same(q)
  BY <1>1, <1>2, <1>3 DEF Inv, TypeOK, Gate!GateTypeOK, Same, reads, effects
<1> QED
  BY <1>2, <1>4, <1>7, <1>8, <1>9, <1>10, OneCall DEF Good

\* A step that no call takes part in.
LEMMA NoCall ==
    ASSUME Inv, TypeOK', granted \subseteq granted', UNCHANGED <<phase, asked, pc, call, reads, effects>>
    PROVE  Inv'
<1>1. ASSUME NEW q \in Requests PROVE Good(q)'
  <2>1. Good(q) /\ Same(q)
    BY DEF Inv, Same, reads, effects
  <2> QED
    BY <2>1, Frame
<1> QED
  BY <1>1 DEF Inv

LEMMA GrantInv == ASSUME Inv, NEW k \in Keys, Grant(k) PROVE Inv'
<1>1. /\ granted' = granted \union {k}
      /\ UNCHANGED <<world, phase, asked, pc, call, reads, effects>>
  BY DEF Grant, Gate!Grant
<1>2. TypeOK'
  BY <1>1
  DEF Inv, TypeOK, world, keychain, cloud, console, reads, effects, Gate!GateTypeOK
<1> QED
  BY <1>1, <1>2, NoCall

LEMMA ResumeInv == ASSUME Inv, NEW r \in Requests, Resume(r) PROVE Inv'
<1>1. /\ pc[r] = "approval" /\ UNCHANGED <<world, call, reads>>
      /\ phase' = [phase EXCEPT ![r] = "idle"] /\ UNCHANGED <<granted, asked>>
  BY DEF Resume, Gate!Leave
<1>2. phase'[r] = "idle" /\ Good(r)
  BY <1>1 DEF Inv, TypeOK, Gate!GateTypeOK
<1>3. CASE phase[r] = "permitted" /\ Step(r, "approval", NextStage(r))
  <2>1. /\ pc' = [pc EXCEPT ![r] = NextStage(r)] /\ UNCHANGED effects
        /\ NextStage(r) \in Stages
    BY <1>3 DEF Step, Goto, NextStage, Stages
  <2>2. TypeOK'
    BY <1>1, <2>1
    DEF Inv, TypeOK, world, keychain, cloud, console, reads, effects, Gate!GateTypeOK,
        Gate!Phases
  <2>3. Licensed(r, Len(judged[r]))
    BY <1>1, <1>2, <1>3 DEF Good, GateHeld, Licensed
  <2>4. pc'[r] = NextStage(r)
    BY <2>1 DEF Inv, TypeOK
  <2>5. Good(r)'
    BY <1>1, <1>2, <2>1, <2>3, <2>4, LoopGoesOn
  <2>6. \A q \in Requests : q # r => Same(q)
    BY <1>1, <2>1 DEF Inv, TypeOK, Gate!GateTypeOK, Same, reads, effects
  <2> QED
    BY <1>1, <2>2, <2>5, <2>6, OneCall
<1>4. CASE Block(r, "approval")
  <2>1. log[r] = <<>>
    BY <1>1, <1>2 DEF Good, EffectsHeld
  <2>2. /\ pc' = [pc EXCEPT ![r] = "forensic"] /\ UNCHANGED <<sent, reply, snap>>
        /\ log' = [log EXCEPT ![r] = IF AuditOpen THEN Append(log[r], "BLOCKED") ELSE log[r]]
    BY <1>4 DEF Block, Goto, Record
  <2>3. Append(log[r], "BLOCKED") = <<"BLOCKED">> /\ <<"BLOCKED">> \in Seq({"OK", "BLOCKED"})
    BY <2>1
  <2>4. /\ pc'[r] = "forensic" /\ log'[r] = IF AuditOpen THEN <<"BLOCKED">> ELSE log[r]
        /\ log' \in [Requests -> Seq({"OK", "BLOCKED"})]
    BY <2>2, <2>3 DEF Inv, TypeOK
  <2>5. TypeOK'
    BY <1>1, <2>2, <2>4
    DEF Inv, TypeOK, Stages, world, keychain, cloud, console, reads, Gate!GateTypeOK,
        Gate!Phases
  <2>6. Good(r)'
    BY <1>1, <1>2, <2>2, <2>4, EndsUnsent DEF Answered, reads
  <2>7. \A q \in Requests : q # r => Same(q)
    BY <1>1, <2>2 DEF Inv, TypeOK, Gate!GateTypeOK, Same, reads
  <2> QED
    BY <1>1, <2>5, <2>6, <2>7, OneCall
<1> QED
  BY <1>3, <1>4 DEF Resume

-----------------------------------------------------------------------------
(* From injection to the answer.                                           *)

\* What was checked stays checked, wherever an admitted call goes.
LEMMA ChecksHold ==
    ASSUME NEW r \in Requests, Good(r), pc[r] \in Admitted,
           pc'[r] \in Admitted \union Answered \union {"forensic"},
           UNCHANGED <<call, agent, caps, list, judged, gateVars>>
    PROVE  ScreenHeld(r)' /\ DomainHeld(r)' /\ LoopHeld(r)' /\ GateHeld(r)'
<1> USE DEF Past, Admitted, Resolved, Answered
<1>1. ScreenHeld(r)' /\ DomainHeld(r)'
  BY DEF Good, ScreenHeld, DomainHeld, SecretsOf, Screened, Listed, Looping
<1>2. LoopHeld(r)'
  BY DEF Good, LoopHeld, LicensedUpTo, Licensed, KeyOf, Count, gateVars
<1>3. GateHeld(r)'
  BY DEF Good, GateHeld, gateVars
<1> QED
  BY <1>1, <1>2, <1>3

\* Once resolved, the values held are those of all the secrets of the call.
LEMMA HoldsAll ==
    ASSUME NEW r \in Requests, Good(r), pc[r] \in Resolved
    PROVE  HeldBy(r) = SecretsOf(r)
BY DEF Good, ValuesHeld, HeldBy, SecretsOf, Count, Resolved

LEMMA InjectInv == ASSUME Inv, NEW r \in Requests, Inject(r) PROVE Inv'
<1>1. UNCHANGED <<world, gateVars, call, agent, caps, list, judged>>
  BY DEF Inject
<1>2. /\ pc[r] = "inject" => Good(r) /\ sent[r] = {}
      /\ held[r] \in Seq(Secrets) /\ Count(r) \in Nat \ {0}
  BY CallFacts DEF Inv, TypeOK, Good, EffectsHeld
<1>3. CASE Len(held[r]) = Count(r) /\ Step(r, "inject", "forward") /\ UNCHANGED held
  <2>1. /\ pc[r] = "inject" /\ pc'[r] = "forward"
        /\ UNCHANGED <<sent, reply, log, phase, asked, granted, call, caps, list, judged, held>>
    BY <1>1, <1>3 DEF Step, Goto, Inv, TypeOK, effects, gateVars
  <2>2. ScreenHeld(r)' /\ DomainHeld(r)' /\ LoopHeld(r)' /\ GateHeld(r)'
    BY <1>1, <1>2, <2>1, ChecksHold DEF Admitted, Resolved
  <2>3. ValuesHeld(r)' /\ EffectsHeld(r)'
    BY <1>2, <1>3, <2>1
    DEF Good, ValuesHeld, EffectsHeld, Count, SecretsOf, Resolved
  <2> QED
    BY <1>1, <1>3, <2>2, <2>3, StepOn DEF Good, Stages, reads
<1>4. CASE Fail(r, "inject") /\ UNCHANGED held
  BY <1>1, <1>4, BlockOrFail DEF Stages, Answered, Inv, TypeOK
<1>5. ASSUME Len(held[r]) # Count(r), Step(r, "inject", "inject"),
             held' = [held EXCEPT ![r] = Append(@, call[r].secrets[Len(held[r]) + 1])]
      PROVE  Inv'
  <2> DEFINE s == call[r].secrets[Len(held[r]) + 1]
  <2>1. pc[r] = "inject" /\ UNCHANGED <<pc, effects>>
    BY <1>5 DEF Step, Goto, Inv, TypeOK
  <2>2. Len(held[r]) + 1 \in 1..Count(r)
    BY <1>2, <1>5, <2>1 DEF Good, ValuesHeld
  <2>3. s \in Secrets
    BY <2>2, CallFacts DEF Inv
  <2>4. Append(held[r], s) \in Seq(Secrets)
    BY <1>2, <2>3
  <2>5. TypeOK'
    BY <1>1, <1>5, <2>1, <2>4
    DEF Inv, TypeOK, world, keychain, cloud, console, gateVars, effects, Gate!GateTypeOK
  <2>6. held'[r] = Append(held[r], s)
    BY <1>5 DEF Inv, TypeOK
  <2>7. /\ Len(held'[r]) = Len(held[r]) + 1 /\ held'[r][Len(held[r]) + 1] = s
        /\ \A i \in 1..Len(held[r]) : held'[r][i] = held[r][i]
    BY <1>2, <2>3, <2>6
  <2>8. ScreenHeld(r)' /\ DomainHeld(r)' /\ LoopHeld(r)' /\ GateHeld(r)'
    BY <1>1, <1>2, <2>1, ChecksHold DEF Admitted
  <2>9. ValuesHeld(r)'
    <3>1. \A i \in 1..Len(held'[r]) : held'[r][i] = call[r].secrets[i]
      <4>1. \A i \in 1..Len(held[r]) : held[r][i] = call[r].secrets[i]
        BY <1>2, <2>1 DEF Good, ValuesHeld
      <4>2. 1..Len(held'[r]) = 1..Len(held[r]) \union {Len(held[r]) + 1}
        BY <1>2, <2>7
      <4> QED
        BY <2>7, <4>1, <4>2
    <3> QED
      BY <1>1, <2>1, <2>2, <2>7, <3>1 DEF ValuesHeld, Count, Resolved
  <2>10. EffectsHeld(r)'
    BY <1>1, <1>2, <2>1 DEF Good, EffectsHeld, SecretsOf, effects
  <2>11. \A q \in Requests : q # r => Same(q)
    BY <1>1, <1>5, <2>1 DEF Inv, TypeOK, Same, gateVars, effects
  <2> QED
    BY <1>1, <2>5, <2>8, <2>9, <2>10, <2>11, OneCall DEF Good, gateVars
<1> QED
  BY <1>3, <1>4, <1>5 DEF Inject, Count

LEMMA ForwardInv == ASSUME Inv, NEW r \in Requests, Forward(r) PROVE Inv'
<1>1. UNCHANGED <<world, gateVars, call, reads, reply, snap>>
  BY DEF Forward
<1>2. CASE Block(r, "forward") \/ Fail(r, "forward")
  BY <1>1, <1>2, BlockOrFail DEF Stages, Answered, reads, Inv, TypeOK
<1>3. ASSUME NEW to \in {"failed", "redact"}, Goto(r, "forward", to),
             sent' = [sent EXCEPT ![r] = HeldBy(r)], UNCHANGED log
      PROVE  Inv'
  <2>1. pc[r] = "forward" /\ pc' = [pc EXCEPT ![r] = to] /\ Good(r)
    BY <1>3 DEF Goto, Inv
  <2>2. HeldBy(r) = SecretsOf(r) /\ SecretsOf(r) # {} /\ SecretsOf(r) \subseteq Secrets
    BY <2>1, HoldsAll, CallFacts DEF Inv, Resolved
  <2>3. TypeOK'
    BY <1>1, <1>3, <2>1, <2>2
    DEF Inv, TypeOK, Stages, Answered, world, keychain, cloud, console, gateVars, reads,
        Gate!GateTypeOK
  <2>4. pc'[r] = to /\ sent'[r] = SecretsOf(r)
    BY <1>3, <2>1, <2>2 DEF Inv, TypeOK
  <2>5. ScreenHeld(r)' /\ DomainHeld(r)' /\ LoopHeld(r)' /\ GateHeld(r)'
    BY <1>1, <2>1, <2>4, ChecksHold DEF Admitted, Resolved, Answered, reads
  <2>6. ValuesHeld(r)'
    BY <1>1, <2>1, <2>4 DEF Good, ValuesHeld, Count, Resolved, reads
  <2>7. EffectsHeld(r)'
    BY <1>1, <1>3, <2>1, <2>2, <2>4 DEF Good, EffectsHeld, SecretsOf
  <2>8. \A q \in Requests : q # r => Same(q)
    BY <1>1, <1>3, <2>1 DEF Inv, TypeOK, Same, gateVars, reads
  <2> QED
    BY <1>1, <2>3, <2>5, <2>6, <2>7, <2>8, OneCall DEF Good, gateVars
<1> QED
  BY <1>2, <1>3 DEF Forward

LEMMA CompleteInv == ASSUME Inv, NEW r \in Requests, Complete(r) PROVE Inv'
<1>1. /\ pc[r] = "redact" /\ pc' = [pc EXCEPT ![r] = "forensic"]
      /\ log' = [log EXCEPT ![r] = IF AuditOpen THEN Append(log[r], "OK") ELSE log[r]]
      /\ UNCHANGED <<world, gateVars, call, reads, sent, snap>>
  BY DEF Complete, Goto, Record
<1>2. PICK echo \in SUBSET (sent[r] \X Forms) :
          reply' = [reply EXCEPT ![r] = Redacted(r, echo)]
  BY DEF Complete
<1>3. Good(r) /\ sent[r] # {} /\ sent[r] = SecretsOf(r) /\ log[r] = <<>>
  BY <1>1 DEF Inv, Good, EffectsHeld
<1>4. HeldBy(r) = sent[r]
  BY <1>1, <1>3, HoldsAll DEF Resolved
<1>5. /\ Redacted(r, echo) \subseteq Secrets \X Forms
      /\ \A s \in Secrets : <<s, "exact">> \notin Redacted(r, echo)
  <2>1. sent[r] \subseteq Secrets
    BY DEF Inv, TypeOK
  <2>2. ASSUME NEW s \in Secrets, <<s, "exact">> \in Redacted(r, echo) PROVE FALSE
    <3>1. <<s, "exact">> \in echo /\ (s \in HeldBy(r) => <<s, "exact">> \notin echo)
      BY <2>2 DEF Redacted
    <3>2. s \in sent[r]
      BY <3>1
    <3> QED
      BY <1>4, <3>1, <3>2
  <2> QED
    BY <2>1, <2>2 DEF Redacted
<1>6. Append(log[r], "OK") = <<"OK">> /\ <<"OK">> \in Seq({"OK", "BLOCKED"})
  BY <1>3
<1>7. /\ log'[r] = IF AuditOpen THEN <<"OK">> ELSE log[r]
      /\ log' \in [Requests -> Seq({"OK", "BLOCKED"})]
  BY <1>1, <1>6 DEF Inv, TypeOK
<1>8. TypeOK'
  BY <1>1, <1>2, <1>5, <1>7
  DEF Inv, TypeOK, Stages, world, keychain, cloud, console, gateVars, reads, Gate!GateTypeOK
<1>9. pc'[r] = "forensic" /\ reply'[r] = Redacted(r, echo)
  BY <1>1, <1>2 DEF Inv, TypeOK
<1>10. ScreenHeld(r)' /\ DomainHeld(r)' /\ LoopHeld(r)' /\ GateHeld(r)'
  BY <1>1, <1>3, <1>9, ChecksHold DEF Admitted, Resolved, reads
<1>11. ValuesHeld(r)'
  BY <1>1, <1>3, <1>9 DEF Good, ValuesHeld, Count, Resolved, reads
<1>12. EffectsHeld(r)'
  BY <1>1, <1>3, <1>5, <1>7, <1>9 DEF EffectsHeld, SecretsOf
<1>13. \A q \in Requests : q # r => Same(q)
  BY <1>1, <1>2 DEF Inv, TypeOK, Same, gateVars, reads
<1> QED
  BY <1>1, <1>8, <1>10, <1>11, <1>12, <1>13, OneCall DEF Good, gateVars

\* The record of a call that ends may refill the keychain, nothing else.
LEMMA SnapshotInv == ASSUME Inv, NEW r \in Requests, Snapshot(r) PROVE Inv'
<1>1. /\ pc[r] = "forensic"
      /\ pc' = [pc EXCEPT ![r] = IF sent[r] = {} THEN "blocked" ELSE "done"]
      /\ UNCHANGED <<present, cloud, console, gateVars, call, reads, sent, reply, log>>
  BY DEF Snapshot, Goto
<1>2. call[r].secrets[1] \in Secrets
  BY CallFacts DEF Inv
<1>3. /\ allowlist' \in SUBSET Domains
      /\ policy' \in [Secrets -> Policies \union {NoPolicy}]
      /\ snap' \in [Requests -> SUBSET Domains]
  <2>1. CASE ~AuditOpen
    BY <2>1 DEF Snapshot, Inv, TypeOK
  <2>2. CASE AuditOpen
    <3>1. PICK l \in {allowlist, {}} \union {c \in {cloudList} : allowlist = {}} :
              /\ snap' = [snap EXCEPT ![r] = l]
              /\ allowlist' \in {allowlist, IF allowlist = {} THEN l ELSE allowlist}
      BY <2>2 DEF Snapshot
    <3>2. policy' \in {policy, [policy EXCEPT ![call[r].secrets[1]] =
                                    cloudPolicy[call[r].secrets[1]]]}
      BY <2>2 DEF Snapshot
    <3>3. l \in SUBSET Domains
      BY DEF Inv, TypeOK
    <3> QED
      BY <1>2, <3>1, <3>2, <3>3 DEF Inv, TypeOK
  <2> QED
    BY <2>1, <2>2 DEF Inv, TypeOK, PipelineAssumption
<1>4. TypeOK'
  BY <1>1, <1>3 DEF Inv, TypeOK, Stages, Answered, cloud, console, gateVars, reads, Gate!GateTypeOK
<1>5. pc'[r] = IF sent[r] = {} THEN "blocked" ELSE "done"
  BY <1>1 DEF Inv, TypeOK
<1>6. Good(r)
  BY DEF Inv
<1>7. ScreenHeld(r)' /\ DomainHeld(r)'
  BY <1>1, <1>5, <1>6
  DEF Good, ScreenHeld, DomainHeld, SecretsOf, Past, Screened, Listed, Looping, Admitted,
      Resolved, reads
<1>8. LoopHeld(r)'
  BY <1>1, <1>5, <1>6
  DEF Good, LoopHeld, LicensedUpTo, Licensed, KeyOf, Count, Past, Admitted, Resolved, reads,
      gateVars
<1>9. GateHeld(r)' /\ ValuesHeld(r)'
  BY <1>1, <1>5, <1>6 DEF Good, GateHeld, ValuesHeld, Count, Resolved, reads, gateVars
<1>10. EffectsHeld(r)'
  <2>1. AuditOpen => log'[r] = <<IF sent[r] # {} THEN "OK" ELSE "BLOCKED">>
    BY <1>1, <1>6 DEF Good, EffectsHeld
  <2> QED
    BY <1>1, <1>5, <1>6, <2>1 DEF Good, EffectsHeld, SecretsOf
<1>11. \A q \in Requests : q # r => Same(q)
  BY <1>1 DEF Inv, TypeOK, Same, gateVars, reads
<1> QED
  BY <1>1, <1>4, <1>7, <1>8, <1>9, <1>10, <1>11, OneCall DEF Good, gateVars

LEMMA FinishInv == ASSUME Inv, NEW r \in Requests, Finish(r) PROVE Inv'
<1>1. /\ pc[r] \in Answered /\ pc' = [pc EXCEPT ![r] = "idle"]
      /\ caps' = [caps EXCEPT ![r] = NoCaps] /\ list' = [list EXCEPT ![r] = {}]
      /\ judged' = [judged EXCEPT ![r] = <<>>] /\ held' = [held EXCEPT ![r] = <<>>]
      /\ sent' = [sent EXCEPT ![r] = {}] /\ reply' = [reply EXCEPT ![r] = {}]
      /\ log' = [log EXCEPT ![r] = <<>>] /\ snap' = [snap EXCEPT ![r] = {}]
      /\ UNCHANGED <<world, gateVars, call, agent>>
  BY DEF Finish
<1>2. TypeOK'
  <2>1. pc' \in [Requests -> Stages] /\ list' \in [Requests -> SUBSET Domains]
    BY <1>1 DEF Inv, TypeOK, Stages
  <2>2. /\ judged' \in [Requests -> Seq(Policies \union {NoPolicy})]
        /\ held' \in [Requests -> Seq(Secrets)] /\ sent' \in [Requests -> SUBSET Secrets]
    BY <1>1 DEF Inv, TypeOK
  <2>3. /\ reply' \in [Requests -> SUBSET (Secrets \X Forms)]
        /\ log' \in [Requests -> Seq({"OK", "BLOCKED"})] /\ snap' \in [Requests -> SUBSET Domains]
    BY <1>1 DEF Inv, TypeOK
  <2> QED
    BY <1>1, <2>1, <2>2, <2>3
    DEF Inv, TypeOK, world, keychain, cloud, console, gateVars, Gate!GateTypeOK
<1>3. phase[r] = "idle"
  BY <1>1 DEF Inv, Good, GateHeld, Answered
<1>4. /\ pc'[r] = "idle" /\ judged'[r] = <<>> /\ held'[r] = <<>> /\ sent'[r] = {}
      /\ reply'[r] = {} /\ log'[r] = <<>>
  BY <1>1 DEF Inv, TypeOK
<1>5. Good(r)'
  BY <1>1, <1>2, <1>3, <1>4, EarlyStage DEF gateVars
<1>6. \A q \in Requests : q # r => Same(q)
  BY <1>1 DEF Inv, TypeOK, Same, gateVars
<1> QED
  BY <1>1, <1>2, <1>5, <1>6, OneCall DEF gateVars

-----------------------------------------------------------------------------
(* The other terminal.                                                     *)

\* What a command carries.
LEMMA CommandFacts ==
    ASSUME NEW e \in Commands
    PROVE  /\ "policy" \in DOMAIN e => e.of \in Secrets /\ e.policy \in Policies
           /\ "domains" \in DOMAIN e => e.domains \subseteq Domains
           /\ "secrets" \in DOMAIN e => e.secrets \subseteq Secrets
           /\ {"policy", "domains"} \intersect DOMAIN e # {} => e \in TwoStepCommands
           /\ e \in TwoStepCommands => "policy" \in DOMAIN e \/ "domains" \in DOMAIN e
<1>1. \/ e \in [of : Secrets, policy : Policies]
      \/ e \in [domains : SUBSET Domains]
      \/ e \in [secrets : SUBSET Secrets]
  BY PipelineAssumption
<1>2. CASE e \in [of : Secrets, policy : Policies]
  BY <1>2 DEF TwoStepCommands
<1>3. CASE e \in [domains : SUBSET Domains]
  BY <1>3 DEF TwoStepCommands
<1>4. CASE e \in [secrets : SUBSET Secrets]
  BY <1>4 DEF TwoStepCommands
<1> QED
  BY <1>1, <1>2, <1>3, <1>4

\* The part of TypeOK that the other terminal may disturb.
WorldOK ==
    /\ present \subseteq Secrets
    /\ allowlist \subseteq Domains /\ cloudList \subseteq Domains
    /\ policy \in [Secrets -> Policies \union {NoPolicy}]
    /\ cloudPolicy \in [Secrets -> Policies]
    /\ edit \in TwoStepCommands \union {NoEdit} /\ edits \in 0..MaxEdits

LEMMA TerminalInv == ASSUME Inv, Terminal PROVE Inv'
<1>1. UNCHANGED <<gateVars, pc, call, reads, effects>>
  BY DEF Terminal, SetPolicy, SetAllowlist, SetSecrets, BeginEdit, CommitEdit, AbandonEdit,
         KeychainRestart
<1>2. WorldOK /\ MaxEdits \in Nat
  BY PipelineAssumption DEF Inv, TypeOK, WorldOK
<1>3. ASSUME WorldOK' PROVE Inv'
  <2>1. TypeOK'
    BY <1>1, <1>3 DEF Inv, TypeOK, WorldOK, gateVars, reads, effects, Gate!GateTypeOK
  <2> QED
    BY <1>1, <2>1, NoCall DEF gateVars
<1>4. ASSUME NEW e \in Commands, SetPolicy(e) PROVE Inv'
  <2>1. e.of \in Secrets /\ e.policy \in Policies /\ e \in TwoStepCommands
    BY <1>4, CommandFacts DEF SetPolicy
  <2> QED
    BY <1>2, <1>3, <1>4, <2>1 DEF SetPolicy, BeginEdit, keychain, WorldOK
<1>5. ASSUME NEW e \in Commands, SetAllowlist(e) PROVE Inv'
  <2>1. e.domains \subseteq Domains /\ e \in TwoStepCommands
    BY <1>5, CommandFacts DEF SetAllowlist
  <2> QED
    BY <1>2, <1>3, <1>5, <2>1 DEF SetAllowlist, BeginEdit, keychain, WorldOK
<1>6. ASSUME NEW e \in Commands, SetSecrets(e) PROVE Inv'
  <2>1. e.secrets \subseteq Secrets
    BY <1>6, CommandFacts DEF SetSecrets
  <2> QED
    BY <1>2, <1>3, <1>6, <2>1 DEF SetSecrets, cloud, WorldOK
<1>7. CASE CommitEdit
  <2>1. /\ edit \in TwoStepCommands /\ edit \in Commands /\ edit' = NoEdit
        /\ UNCHANGED <<present, cloud, edits>>
    BY <1>2, <1>7 DEF CommitEdit, WorldOK, TwoStepCommands
  <2>2. allowlist' \subseteq Domains
    BY <1>2, <1>7, <2>1, CommandFacts DEF CommitEdit, WorldOK
  <2>3. policy' \in [Secrets -> Policies \union {NoPolicy}]
    <3>1. CASE "domains" \in DOMAIN edit
      BY <1>2, <1>7, <3>1 DEF CommitEdit, WorldOK
    <3>2. CASE "domains" \notin DOMAIN edit
      <4>1. edit.of \in Secrets /\ edit.policy \in Policies
        BY <2>1, <3>2, CommandFacts
      <4> QED
        BY <1>2, <1>7, <3>2, <4>1 DEF CommitEdit, WorldOK
    <3> QED
      BY <3>1, <3>2
  <2> QED
    BY <1>2, <1>3, <2>1, <2>2, <2>3 DEF cloud, WorldOK
<1>8. CASE AbandonEdit
  BY <1>2, <1>3, <1>8 DEF AbandonEdit, keychain, cloud, WorldOK
<1>9. CASE KeychainRestart
  BY <1>2, <1>3, <1>9 DEF KeychainRestart, cloud, WorldOK
<1> QED
  BY <1>4, <1>5, <1>6, <1>7, <1>8, <1>9 DEF Terminal

-----------------------------------------------------------------------------
(* The theorems.                                                           *)

LEMMA InitInv == Init => Inv
<1> SUFFICES ASSUME Init PROVE Inv
  OBVIOUS
<1>1. AnyCall \in Calls
  BY PipelineAssumption DEF AnyCall
<1>2. Keys # {}
  <2>1. /\ AnyCall.secrets \in Seq(Secrets) /\ AnyCall.secrets # <<>>
        /\ AnyCall.agent \in Agents \union {Unnamed}
        /\ AnyCall.domain \in Domains /\ AnyCall.method \in Methods
    BY <1>1, PipelineAssumption
  <2>2. AnyCall.secrets[1] \in Secrets
    BY <2>1
  <2>3. <<AnyCall.agent, AnyCall.secrets[1], AnyCall.domain, AnyCall.method>> \in Keys
    BY <2>1, <2>2 DEF Keys
  <2> QED
    BY <2>3
<1>3. (CHOOSE k \in Keys : TRUE) \in Keys
  BY <1>2
<1>4. TypeOK
  <2>1. cloudPolicy \in [Secrets -> Policies]
    BY PipelineAssumption DEF Init
  <2>2. Gate!GateTypeOK
    BY <1>3 DEF Init, Gate!GateTypeOK, Gate!Phases
  <2>3. /\ pc \in [Requests -> Stages] /\ call \in [Requests -> Calls]
        /\ agent \in [Requests -> Agents \union {Unnamed}]
        /\ caps \in [Requests -> Capabilities \union {NoCaps}]
    BY <1>1 DEF Init, Stages
  <2>4. /\ judged \in [Requests -> Seq(Policies \union {NoPolicy})]
        /\ held \in [Requests -> Seq(Secrets)]
        /\ log \in [Requests -> Seq({"OK", "BLOCKED"})]
    BY DEF Init
  <2>5. edits \in 0..MaxEdits
    BY PipelineAssumption DEF Init
  <2> QED
    BY <2>1, <2>2, <2>3, <2>4, <2>5 DEF Init, TypeOK
<1>5. ASSUME NEW r \in Requests PROVE Good(r)
  <2>1. /\ pc[r] = "idle" /\ phase[r] = "idle" /\ judged[r] = <<>> /\ held[r] = <<>>
        /\ sent[r] = {} /\ reply[r] = {} /\ log[r] = <<>>
    BY DEF Init
  <2>2. Count(r) \in Nat \ {0}
    BY <1>4, CallFacts
  <2>3. ScreenHeld(r) /\ DomainHeld(r) /\ LoopHeld(r) /\ GateHeld(r)
    BY <2>1 DEF ScreenHeld, DomainHeld, LoopHeld, GateHeld, Past, Screened, Listed, Looping,
                Admitted, Resolved
  <2>4. ValuesHeld(r) /\ EffectsHeld(r)
    BY <2>1, <2>2 DEF ValuesHeld, EffectsHeld, Resolved
  <2> QED
    BY <2>3, <2>4 DEF Good
<1> QED
  BY <1>4, <1>5 DEF Inv

LEMMA NextInv == Inv /\ [Next]_vars => Inv'
<1> SUFFICES ASSUME Inv, [Next]_vars PROVE Inv'
  OBVIOUS
<1>1. ASSUME NEW r \in Requests, Serve(r) PROVE Inv'
  BY <1>1, ArriveInv, IdentifyInv, PresenceInv, ScreenInv, ReadAllowlistInv,
     WriteAllowlistBackInv, DomainInv, ReadPolicyInv, WritePolicyBackInv, JudgeInv, DecideInv,
     ResumeInv, InjectInv, ForwardInv, CompleteInv, SnapshotInv, FinishInv DEF Serve
<1>2. ASSUME NEW r \in Requests, NEW i \in 1..Len(call[r].secrets), Grant(KeyOf(r, i))
      PROVE  Inv'
  <2>1. KeyOf(r, i) \in Keys
    BY CallFacts DEF Inv, Count
  <2> QED
    BY <1>2, <2>1, GrantInv
<1>3. CASE Terminal
  BY <1>3, TerminalInv
<1>4. CASE UNCHANGED vars
  <2>1. TypeOK'
    BY <1>4
    DEF vars, Inv, TypeOK, world, keychain, cloud, console, gateVars, reads, effects,
        Gate!GateTypeOK
  <2> QED
    BY <1>4, <2>1, NoCall DEF vars, gateVars
<1> QED
  BY <1>1, <1>2, <1>3, <1>4 DEF Next

LEMMA AlwaysInv == Spec => []Inv
BY InitInv, NextInv, PTL DEF Spec

\* TypeOK: what every variable of the pipeline may hold, for the calls of
\* handleProxy, the keychain, the API's copies and the gate.
THEOREM TypeCorrect == Spec => []TypeOK
<1>1. Inv => TypeOK
  BY DEF Inv
<1> QED
  BY <1>1, AlwaysInv, PTL

\* LeavesOnlyIfPermitted: ExecuteCtx sends a credential only for a call over
\* HTTPS, within its agent's capabilities, to a domain of the allowlist it read,
\* and with every injection allowed by its policy or approved by the user.
THEOREM PermittedOnly == Spec => []LeavesOnlyIfPermitted
<1>1. Inv => LeavesOnlyIfPermitted
  <2> SUFFICES ASSUME Inv, NEW r \in Requests, sent[r] # {}
               PROVE  /\ call[r].https
                      /\ caps[r] # NoCaps =>
                            \A s \in sent[r] : IsSecretAllowed(caps[r], s)
                      /\ call[r].domain \in list[r]
                      /\ \A i \in 1..Len(call[r].secrets) :
                            i <= Len(judged[r]) /\ Licensed(r, i)
    BY DEF LeavesOnlyIfPermitted
  <2>1. Good(r) /\ sent[r] = SecretsOf(r)
    BY DEF Inv, Good, EffectsHeld
  <2>2. /\ call[r].https /\ call[r].domain \in list[r]
        /\ caps[r] # NoCaps => \A s \in sent[r] : IsSecretAllowed(caps[r], s)
    BY <2>1 DEF Good, ScreenHeld, DomainHeld, Past
  <2>3. Len(judged[r]) = Count(r) /\ LicensedUpTo(r, Count(r))
    BY <2>1 DEF Good, LoopHeld, Past
  <2> QED
    BY <2>2, <2>3 DEF LicensedUpTo, Count
<1> QED
  BY <1>1, AlwaysInv, PTL

\* AllOrNothing: buildAndInject gives the outbound request every secret of the
\* call or, when one has gone, ends the call.
THEOREM WholeOrNothing == Spec => []AllOrNothing
<1>1. Inv => AllOrNothing
  BY DEF Inv, Good, EffectsHeld, AllOrNothing
<1> QED
  BY <1>1, AlwaysInv, PTL

\* RecordMatchesOutcome: a call answered through logBlocked or auditSuccess has
\* exactly one audit record, and it says whether a credential left.
THEOREM RecordAgrees == Spec => []RecordMatchesOutcome
<1>1. Inv => RecordMatchesOutcome
  BY DEF Inv, Good, EffectsHeld, RecordMatchesOutcome
<1> QED
  BY <1>1, AlwaysInv, PTL

\* NoExactEcho: redactResponse leaves no exact value of an injected secret in the
\* answer, whatever the upstream repeats.
THEOREM NoEcho == Spec => []NoExactEcho
<1>1. Inv => NoExactEcho
  BY DEF Inv, Good, EffectsHeld, NoExactEcho
<1> QED
  BY <1>1, AlwaysInv, PTL
=============================================================================
