-------------------------- MODULE RequestPipeline --------------------------
(***************************************************************************)
(* A proxied call from handleProxy to its answer (pkg/proxy/server.go and  *)
(* ExecuteCtx with its tail stages in pkg/proxy/engine.go): identity,      *)
(* presence, HTTPS, capabilities, allowlist, the policy of each injected   *)
(* secret with the human approval it may ask for, injection, forwarding,   *)
(* redaction and the audit record.                                         *)
(*                                                                         *)
(* Several calls run at once.  They read the keychain one item at a time,  *)
(* refill it from the API when an item is missing, and meanwhile the user  *)
(* edits secrets, policies and the allowlist from another terminal.  The   *)
(* approval mechanism is its abstract specification, ApprovalGate, which   *)
(* ApprovalStore implements; the identity verdict (TokenRevocation) is an  *)
(* input here.                                                             *)
(***************************************************************************)
EXTENDS Integers, Sequences, FiniteSets, SecretPolicy

CONSTANTS Requests, Secrets, Domains, Methods, Agents,
          Unnamed,      \* a call without an agent name
          Calls,        \* [domain, method, https, secrets, agent] records
          Policies,     \* the policies the workspace may set
          EmptyPolicy,  \* the API's answer for a secret without a policy
          Capabilities, \* [allowed, denied] records
          NoCaps,       \* nil capabilities: a call without a token
          Commands,     \* CLI commands: [of, policy], [domains] or [secrets]
          NoEdit,       \* no CLI command is half way through
          AuditOpen,    \* NewEngine opened the audit database
          MaxEdits      \* bound on CLI commands and keychain restarts

Keys == (Agents \union {Unnamed}) \X Secrets \X Domains \X Methods

ASSUME PipelineAssumption ==
    /\ AuditOpen \in BOOLEAN /\ MaxEdits \in Nat
    /\ EmptyPolicy \in Policies /\ NoPolicy \notin Policies
    /\ \A p \in Policies : WellFormed(p)
    /\ NoCaps \notin Capabilities
    /\ Commands \subseteq [of : Secrets, policy : Policies]
          \union [domains : SUBSET Domains] \union [secrets : SUBSET Secrets]
    /\ NoEdit \notin Commands
    /\ \A c \in Calls :
          /\ c.domain \in Domains /\ c.method \in Methods /\ c.https \in BOOLEAN
          /\ c.agent \in Agents \union {Unnamed}
          /\ c.secrets \in Seq(Secrets) /\ c.secrets # <<>>
    /\ Calls # {}

VARIABLES present,      \* secrets the keychain holds for the environment
          allowlist,    \* the workspace allowlist in the keychain
          policy,       \* policy[s] in the keychain, NoPolicy when absent
          cloudList, cloudPolicy,           \* the API's copies
          edit,         \* the CLI command that has reached only the API
          edits,        \* commands and restarts so far
          granted, phase, asked,            \* the ApprovalGate
          pc,           \* the stage each call is at
          call,         \* the call itself
          agent,        \* the agent name the engine goes by
          caps, list, judged,   \* what the call read: capabilities, allowlist,
                                \* and the policies of its first secrets
          held,         \* the secrets whose values the call has resolved
          sent,         \* secrets that have left in the outbound request
          reply,        \* <<secret, form>> pairs the caller's answer contains
          log,          \* audit records of the call
          snap          \* the allowlist its forensic record shows

keychain == <<present, allowlist, policy>>
cloud    == <<cloudList, cloudPolicy>>
console  == <<edit, edits>>
gateVars == <<granted, phase, asked>>
reads    == <<agent, caps, list, judged, held>>
effects  == <<sent, reply, log, snap>>
world    == <<keychain, cloud, console>>
vars     == <<world, gateVars, pc, call, reads, effects>>

Gate == INSTANCE ApprovalGate

Answered == {"done", "blocked", "failed"}

Stages == {"idle", "identify", "presence", "screen", "allowlist", "relist",
           "domain", "policy", "repolicy", "judge", "approval", "inject",
           "forward", "redact", "forensic"} \union Answered

Forms == {"exact", "masked"}

AnyCall == CHOOSE c \in Calls : TRUE

SecretsOf(r) == {call[r].secrets[i] : i \in 1..Len(call[r].secrets)}

\* The approval key of the i-th injection.
KeyOf(r, i) == <<agent[r], call[r].secrets[i], call[r].domain, call[r].method>>

Init ==
    /\ present = Secrets
    /\ allowlist \in SUBSET Domains
    /\ policy \in [Secrets -> Policies \union {NoPolicy}]
    /\ cloudList = allowlist
    /\ cloudPolicy = [s \in Secrets |->
                         IF policy[s] = NoPolicy THEN EmptyPolicy ELSE policy[s]]
    /\ edit = NoEdit /\ edits = 0
    /\ granted = {}
    /\ phase = [r \in Requests |-> "idle"]
    /\ asked = [r \in Requests |-> CHOOSE k \in Keys : TRUE]
    /\ pc = [r \in Requests |-> "idle"]
    /\ call = [r \in Requests |-> AnyCall]
    /\ agent = [r \in Requests |-> Unnamed]
    /\ caps = [r \in Requests |-> NoCaps]
    /\ list = [r \in Requests |-> {}]
    /\ judged = [r \in Requests |-> <<>>]
    /\ held = [r \in Requests |-> <<>>]
    /\ sent = [r \in Requests |-> {}]
    /\ reply = [r \in Requests |-> {}]
    /\ log = [r \in Requests |-> <<>>]
    /\ snap = [r \in Requests |-> {}]

Goto(r, from, to) == pc[r] = from /\ pc' = [pc EXCEPT ![r] = to]

\* The audit event; the forensic record that follows it is Snapshot's.
Record(r, status) ==
    log' = [log EXCEPT ![r] = IF AuditOpen THEN Append(@, status) ELSE @]

\* logBlocked and auditBlocked: a 403 for the caller, a BLOCKED record.
Block(r, from) ==
    /\ Goto(r, from, "forensic")
    /\ Record(r, "BLOCKED")
    /\ UNCHANGED <<sent, reply, snap>>

\* An error returned to handleProxy: 401 or 502, and no record.
Fail(r, from) == Goto(r, from, "failed") /\ UNCHANGED effects

Step(r, from, to) == Goto(r, from, to) /\ UNCHANGED effects

-----------------------------------------------------------------------------
(* The call.                                                               *)

Arrive(r) ==
    /\ Goto(r, "idle", "identify")
    /\ \E c \in Calls :
          /\ call' = [call EXCEPT ![r] = c]
          /\ agent' = [agent EXCEPT ![r] = c.agent]
    /\ UNCHANGED <<world, gateVars, caps, list, judged, held, effects>>

\* resolveIdentity: no token, a token that fails validation, one that is
\* revoked or out of scope, or one that brings its agent's capabilities.
Identify(r) ==
    /\ UNCHANGED <<world, gateVars, call, list, judged, held>>
    /\ \/ Step(r, "identify", "presence") /\ UNCHANGED <<agent, caps>>
       \/ Fail(r, "identify") /\ UNCHANGED <<agent, caps>>
       \/ Block(r, "identify") /\ UNCHANGED <<agent, caps>>
       \/ \E a \in Agents, c \in Capabilities :
             /\ Step(r, "identify", "presence")
             /\ agent' = [agent EXCEPT ![r] = IF @ = Unnamed THEN a ELSE @]
             /\ caps' = [caps EXCEPT ![r] = c]

\* Every secret must be in the keychain's list of key names.
CheckPresence(r) ==
    /\ IF SecretsOf(r) \subseteq present
         THEN Step(r, "presence", "screen") ELSE Fail(r, "presence")
    /\ UNCHANGED <<world, gateVars, call, reads>>

\* HTTPS, then the capabilities.
Screen(r) ==
    /\ IF /\ call[r].https
          /\ caps[r] # NoCaps =>
                \A s \in SecretsOf(r) : IsSecretAllowed(caps[r], s)
         THEN Step(r, "screen", "allowlist") ELSE Block(r, "screen")
    /\ UNCHANGED <<world, gateVars, call, reads>>

\* ResolveAllowlist: from the keychain, or, when that is empty, from the API,
\* whose answer is then written back in a step of its own.
ReadAllowlist(r) ==
    /\ \/ Fail(r, "allowlist") /\ UNCHANGED list     \* the keychain is unreachable
       \/ /\ Step(r, "allowlist", "domain")
          /\ list' = [list EXCEPT ![r] = allowlist]
       \/ /\ allowlist = {} /\ cloudList # {}
          /\ Step(r, "allowlist", "relist")
          /\ list' = [list EXCEPT ![r] = cloudList]
    /\ UNCHANGED <<world, gateVars, call, agent, caps, judged, held>>

WriteAllowlistBack(r) ==
    /\ Step(r, "relist", "domain")
    /\ allowlist' \in {allowlist, list[r]}           \* its error is ignored
    /\ UNCHANGED <<present, policy, cloud, console, gateVars, call, reads>>

CheckDomain(r) ==
    /\ IF call[r].domain \in list[r]
         THEN Step(r, "domain", "policy") ELSE Block(r, "domain")
    /\ UNCHANGED <<world, gateVars, call, reads>>

\* The secret whose policy is read next.
NextSecret(r) == call[r].secrets[Len(judged[r]) + 1]

Judging(r, p) == judged' = [judged EXCEPT ![r] = Append(@, p)]

\* ResolvePolicy: from the keychain, or from the API, whose answer is written
\* back; a secret for which neither has an answer is unrestricted.
ReadPolicy(r) ==
    /\ pc[r] = "policy"
    /\ \/ /\ policy[NextSecret(r)] # NoPolicy
          /\ Step(r, "policy", "judge")
          /\ Judging(r, policy[NextSecret(r)])
       \/ /\ Step(r, "policy", "repolicy")           \* absent, or unreadable
          /\ Judging(r, cloudPolicy[NextSecret(r)])
       \/ /\ Step(r, "policy", "judge")              \* and the API fails too
          /\ Judging(r, NoPolicy)
    /\ UNCHANGED <<world, gateVars, call, agent, caps, list, held>>

WritePolicyBack(r) ==
    /\ Step(r, "repolicy", "judge")
    /\ LET s == call[r].secrets[Len(judged[r])]
       IN  policy' \in {policy, [policy EXCEPT ![s] = judged[r][Len(judged[r])]]}
    /\ UNCHANGED <<present, allowlist, cloud, console, gateVars, call, reads>>

\* Mutant: an injection that is allowed ends the loop.
NextStageAfterFirst(r) == IF judged[r] # <<>> THEN "inject" ELSE "policy"

\* Where the policy loop goes after an injection that is allowed.
NextStage(r) ==
    IF Len(judged[r]) = Len(call[r].secrets) THEN "inject" ELSE "policy"

\* EvaluateSecret for the policy just read.
Judge(r) ==
    LET p == judged[r][Len(judged[r])]
        a == EvaluateSecret(p, call[r].domain, call[r].method)
    IN  /\ pc[r] = "judge" /\ UNCHANGED <<world, call, reads>>
        /\ \/ a = "allow" /\ Step(r, "judge", NextStage(r)) /\ UNCHANGED gateVars
           \/ a = "deny"  /\ Block(r, "judge") /\ UNCHANGED gateVars
           \/ /\ a = "ask" /\ Step(r, "judge", "approval")
              /\ Gate!Ask(r, KeyOf(r, Len(judged[r])))

\* The gate's own steps: a call is let through or refused (denied, or timed
\* out), and the user grants a key.
Decide(r) ==
    /\ \/ Gate!Permit(r) \/ Gate!GrantAndPermit(r) \/ Gate!Refuse(r)
    /\ UNCHANGED <<world, pc, call, reads, effects>>

\* (A key granted before any call needs it might as well be granted then.)
Grant(k) == Gate!Grant(k) /\ UNCHANGED <<world, pc, call, reads, effects>>

\* WaitForApproval has returned.
Resume(r) ==
    /\ pc[r] = "approval" /\ Gate!Leave(r)
    /\ \/ phase[r] = "permitted" /\ Step(r, "approval", NextStage(r))
       \/ phase[r] = "refused" /\ Block(r, "approval")
    /\ UNCHANGED <<world, call, reads>>

\* Mutant: a secret that has gone is passed over.
InjectWhatIsLeft(r) ==
    /\ UNCHANGED <<world, gateVars, call, agent, caps, list, judged>>
    /\ Step(r, "inject", "forward")
    /\ held' = [held EXCEPT ![r] =
                    SelectSeq(call[r].secrets, LAMBDA s : s \in present)]

\* buildAndInject resolves the values one at a time; a secret that has gone
\* since the presence check ends the call.
Inject(r) ==
    /\ UNCHANGED <<world, gateVars, call, agent, caps, list, judged>>
    /\ IF Len(held[r]) = Len(call[r].secrets)
         THEN Step(r, "inject", "forward") /\ UNCHANGED held
         ELSE LET s == call[r].secrets[Len(held[r]) + 1]
              IN  IF s \in present
                    THEN /\ Step(r, "inject", "inject")
                         /\ held' = [held EXCEPT ![r] = Append(@, s)]
                    ELSE Fail(r, "inject") /\ UNCHANGED held

HeldBy(r) == {held[r][i] : i \in 1..Len(held[r])}

\* Mutant: the success record is written when the request leaves.
ForwardRecordsOK(r) ==
    /\ UNCHANGED <<world, gateVars, call, reads, reply, snap>>
    /\ \/ Block(r, "forward")
       \/ Fail(r, "forward")
       \/ /\ \E to \in {"failed", "redact"} : Goto(r, "forward", to)
          /\ sent' = [sent EXCEPT ![r] = HeldBy(r)]
          /\ Record(r, "OK")

\* Forward: the dialer refuses the address; the upstream is not reached; the
\* request leaves and its answer is lost or late; or an answer comes.
Forward(r) ==
    /\ UNCHANGED <<world, gateVars, call, reads, reply, snap>>
    /\ \/ Block(r, "forward")
       \/ Fail(r, "forward")
       \/ /\ \E to \in {"failed", "redact"} : Goto(r, "forward", to)
          /\ sent' = [sent EXCEPT ![r] = HeldBy(r)]
          /\ UNCHANGED log

\* Mutant: only the last secret injected is looked for.
RedactedLast(r, echo) ==
    {e \in echo : e[1] # held[r][Len(held[r])] \/ <<e[1], "exact">> \notin echo}

\* redactResponse: every form of a secret goes, provided its exact value is there.
Redacted(r, echo) ==
    {e \in echo : e[1] \in HeldBy(r) => <<e[1], "exact">> \notin echo}

\* The upstream's answer, which may repeat what was sent, verbatim or in part,
\* goes through redactResponse and auditSuccess.
Complete(r) ==
    /\ Goto(r, "redact", "forensic")
    /\ \E echo \in SUBSET (sent[r] \X Forms) :
          reply' = [reply EXCEPT ![r] = Redacted(r, echo)]
    /\ Record(r, "OK")
    /\ UNCHANGED <<world, gateVars, call, reads, sent, snap>>

\* logForensic resolves the allowlist and the first secret's policy once more
\* (in one step here), refills included, for the record's snapshot.
Snapshot(r) ==
    LET s == call[r].secrets[1]
    IN  /\ Goto(r, "forensic", IF sent[r] = {} THEN "blocked" ELSE "done")
        /\ IF AuditOpen
             THEN /\ \E l \in {allowlist, {}} \union {c \in {cloudList} : allowlist = {}} :
                        /\ snap' = [snap EXCEPT ![r] = l]
                        /\ allowlist' \in {allowlist, IF allowlist = {} THEN l ELSE allowlist}
                  /\ policy' \in {policy, [policy EXCEPT ![s] = cloudPolicy[s]]}
             ELSE UNCHANGED <<allowlist, policy, snap>>
        /\ UNCHANGED <<present, cloud, console, gateVars, call, reads, sent, reply, log>>

\* handleProxy has written the answer; all that the call kept goes with it.
Finish(r) ==
    /\ pc[r] \in Answered
    /\ pc' = [pc EXCEPT ![r] = "idle"]
    /\ caps' = [caps EXCEPT ![r] = NoCaps]
    /\ list' = [list EXCEPT ![r] = {}]
    /\ judged' = [judged EXCEPT ![r] = <<>>]
    /\ held' = [held EXCEPT ![r] = <<>>]
    /\ sent' = [sent EXCEPT ![r] = {}]
    /\ reply' = [reply EXCEPT ![r] = {}]
    /\ log' = [log EXCEPT ![r] = <<>>]
    /\ snap' = [snap EXCEPT ![r] = {}]
    /\ UNCHANGED <<world, gateVars, call, agent>>

-----------------------------------------------------------------------------
(* Another terminal.  A command changes the API first and the keychain      *)
(* second; it may die in between.                                          *)

BeginEdit(e) ==
    /\ edit = NoEdit /\ edits < MaxEdits
    /\ edit' = e /\ edits' = edits + 1
    /\ UNCHANGED <<keychain, gateVars, pc, call, reads, effects>>

\* Mutant: a policy without rules reaches the API as none.
SetPolicyToNothing(e) ==
    /\ "policy" \in DOMAIN e /\ BeginEdit(e)
    /\ cloudPolicy' = [cloudPolicy EXCEPT ![e.of] =
                           IF e.policy.rules = <<>> THEN NoPolicy ELSE e.policy]
    /\ UNCHANGED cloudList

SetPolicy(e) ==
    /\ "policy" \in DOMAIN e /\ BeginEdit(e)
    /\ cloudPolicy' = [cloudPolicy EXCEPT ![e.of] = e.policy]
    /\ UNCHANGED cloudList

SetAllowlist(e) ==
    /\ "domains" \in DOMAIN e /\ BeginEdit(e)
    /\ cloudList' = e.domains
    /\ UNCHANGED cloudPolicy

\* A deleted policy is stored as nil.
CommitEdit ==
    /\ edit # NoEdit
    /\ edit' = NoEdit
    /\ IF "domains" \in DOMAIN edit
         THEN allowlist' = edit.domains /\ UNCHANGED policy
         ELSE /\ policy' = [policy EXCEPT ![edit.of] =
                               IF edit.policy = EmptyPolicy THEN NoPolicy ELSE edit.policy]
              /\ UNCHANGED allowlist
    /\ UNCHANGED <<present, cloud, edits, gateVars, pc, call, reads, effects>>

AbandonEdit ==
    /\ edit # NoEdit
    /\ edit' = NoEdit
    /\ UNCHANGED <<keychain, cloud, edits, gateVars, pc, call, reads, effects>>

\* `secrets set` and `secrets delete`, as the keychain sees them.
SetSecrets(e) ==
    /\ "secrets" \in DOMAIN e /\ edits < MaxEdits /\ edits' = edits + 1
    /\ present' = e.secrets
    /\ UNCHANGED <<allowlist, policy, cloud, edit, gateVars, pc, call, reads, effects>>

\* The in-memory keychain backend starts again empty.
KeychainRestart ==
    /\ edits < MaxEdits /\ edits' = edits + 1
    /\ present' = {} /\ allowlist' = {}
    /\ policy' = [s \in Secrets |-> NoPolicy]
    /\ UNCHANGED <<cloud, edit, gateVars, pc, call, reads, effects>>

Serve(r) ==
    \/ Arrive(r)        \/ Identify(r)   \/ CheckPresence(r)
    \/ Screen(r)        \/ ReadAllowlist(r) \/ WriteAllowlistBack(r)
    \/ CheckDomain(r)   \/ ReadPolicy(r) \/ WritePolicyBack(r)
    \/ Judge(r)         \/ Decide(r)     \/ Resume(r)
    \/ Inject(r)        \/ Forward(r)    \/ Complete(r)
    \/ Snapshot(r)      \/ Finish(r)

Terminal ==
    \/ \E e \in Commands : SetPolicy(e) \/ SetAllowlist(e) \/ SetSecrets(e)
    \/ CommitEdit
    \/ AbandonEdit
    \/ KeychainRestart

Next ==
    \/ \E r \in Requests : Serve(r)
    \/ \E r \in Requests : \E i \in 1..Len(call[r].secrets) : Grant(KeyOf(r, i))
    \/ Terminal

Spec == Init /\ [][Next]_vars

-----------------------------------------------------------------------------
(* Properties.                                                             *)

\* The commands that change the API first: of these, one can be half way through.
TwoStepCommands == {e \in Commands : "secrets" \notin DOMAIN e}

TypeOK ==
    /\ present \subseteq Secrets
    /\ allowlist \subseteq Domains /\ cloudList \subseteq Domains
    /\ policy \in [Secrets -> Policies \union {NoPolicy}]
    /\ cloudPolicy \in [Secrets -> Policies]
    /\ edit \in TwoStepCommands \union {NoEdit} /\ edits \in 0..MaxEdits
    /\ Gate!GateTypeOK
    /\ pc \in [Requests -> Stages]
    /\ call \in [Requests -> Calls]
    /\ agent \in [Requests -> Agents \union {Unnamed}]
    /\ caps \in [Requests -> Capabilities \union {NoCaps}]
    /\ list \in [Requests -> SUBSET Domains]
    /\ judged \in [Requests -> Seq(Policies \union {NoPolicy})]
    /\ held \in [Requests -> Seq(Secrets)]
    /\ sent \in [Requests -> SUBSET Secrets]
    /\ reply \in [Requests -> SUBSET (Secrets \X Forms)]
    /\ log \in [Requests -> Seq({"OK", "BLOCKED"})]
    /\ snap \in [Requests -> SUBSET Domains]

\* What the policy the call read says of its i-th secret allows it, or asks
\* for an approval that the user has given for this agent, secret, domain
\* and method.
Licensed(r, i) ==
    LET a == MeansOf(judged[r][i], call[r].domain, call[r].method)
    IN  a = "allow" \/ (a = "ask" /\ KeyOf(r, i) \in granted)

\* A credential has left only if every check passed for every injection of
\* the call, on what the call read: HTTPS, the agent's capabilities, the
\* allowlist, and each secret's own policy or approval.
LeavesOnlyIfPermitted ==
    \A r \in Requests : sent[r] # {} =>
        /\ call[r].https
        /\ caps[r] # NoCaps => \A s \in sent[r] : IsSecretAllowed(caps[r], s)
        /\ call[r].domain \in list[r]
        /\ \A i \in 1..Len(call[r].secrets) : i <= Len(judged[r]) /\ Licensed(r, i)

\* A call injects all of its secrets or none, whatever is deleted meanwhile.
AllOrNothing == \A r \in Requests : sent[r] \in {{}, SecretsOf(r)}

\* The answer and the audit record agree: with the database open, a call that
\* got a response has exactly one record, which says OK if and only if a
\* credential left.
RecordMatchesOutcome ==
    \A r \in Requests : pc[r] \in {"done", "blocked"} /\ AuditOpen =>
        log[r] = <<IF sent[r] # {} THEN "OK" ELSE "BLOCKED">>

\* An answer never carries the exact value of an injected secret.
NoExactEcho ==
    \A r \in Requests : pc[r] = "done" =>
        \A s \in Secrets : <<s, "exact">> \notin reply[r]
=============================================================================
