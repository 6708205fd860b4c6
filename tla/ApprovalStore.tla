--------------------------- MODULE ApprovalStore ---------------------------
(***************************************************************************)
(* The approval store of the credential proxy (pkg/proxy/approvals.go),    *)
(* together with everything that calls it: the request goroutines          *)
(* (ExecuteCtx in engine.go), the prompt of the proxy terminal             *)
(* (startInteractiveApprovalLoop in commands/proxy.go), the /approve       *)
(* endpoint (server.go) and the `proxy approve` command.                   *)
(*                                                                         *)
(* Each critical section under the store's mutex is one step, so that the  *)
(* other goroutines run between the fast-path check, the registration of   *)
(* the waiter, the notification and the wait, as they do in the program.   *)
(* The set pending[k] holds the request whose waiter is registered: a      *)
(* request has at most one waiter.  What a waiter's channel holds (its     *)
(* buffer is one) is answer[r].                                            *)
(***************************************************************************)
EXTENDS Naturals, Sequences

CONSTANTS
    Requests,    \* request goroutines that need an approval
    Keys,        \* approval keys (agent, secret, domain, method)
    NotifyCap    \* capacity of the notify channel (32 in the code)

ASSUME ApprovalAssumption == NotifyCap \in Nat \ {0}

VARIABLES
    mode,        \* how the proxy runs: daemon in a terminal, headless daemon, transient
    granted,     \* keys of the granted map
    pending,     \* pending[k]: requests with a registered waiter
    notify,      \* contents of the notify channel
    pc,          \* pc[r]: where request r is
    key,         \* key[r]: the approval key r needs
    answer,      \* answer[r]: contents of r's waiter channel
    loop,        \* where the terminal's approval goroutine is
    prompt,      \* the key it took from the channel last
    handling     \* its map of keys being handled

vars == <<mode, granted, pending, notify, pc, key, answer, loop, prompt, handling>>
storeVars == <<granted, pending, answer>>
loopVars == <<loop, prompt, handling>>

Modes == {"terminal", "headless", "transient"}
Locations == {"idle", "isApproved", "inline", "fastPath", "register", "notify",
              "await", "expired", "permitted", "refused", "denied"}

\* The request is over: allowed, refused for want of an approval (the reason
\* policy_approval_required) or denied at the inline prompt.
Decided == {"permitted", "refused", "denied"}

\* One type invariant: the range of every variable, and the channel's capacity
\* (approvals.go: make(chan ApprovalKey, 32)).
TypeOK ==
    /\ mode \in Modes
    /\ granted \in SUBSET Keys
    /\ pending \in [Keys -> SUBSET Requests]
    /\ notify \in Seq(Keys) /\ Len(notify) <= NotifyCap
    /\ pc \in [Requests -> Locations]
    /\ key \in [Requests -> Keys]
    /\ answer \in [Requests -> {"none", "yes", "no"}]
    /\ loop \in {"recv", "check", "prompt"}
    /\ prompt \in Keys
    /\ handling \in SUBSET Keys

Init ==
    /\ mode \in Modes
    /\ granted = {}
    /\ pending = [k \in Keys |-> {}]
    /\ notify = <<>>
    /\ pc = [r \in Requests |-> "idle"]
    /\ key \in [Requests -> Keys]
    /\ answer = [r \in Requests |-> "none"]
    /\ loop = "recv"
    /\ prompt \in Keys
    /\ handling = {}

-----------------------------------------------------------------------------
(* The store's two write operations, each under the write lock.            *)

\* Send v to every waiter of k; a channel that already holds an answer keeps it
\* (the select has a default branch).
Signal(k, v) ==
    answer' = [r \in Requests |->
                  IF r \in pending[k] /\ answer[r] = "none" THEN v ELSE answer[r]]

Approve(k) ==
    /\ granted' = granted \union {k}
    /\ Signal(k, "yes")
    /\ pending' = [pending EXCEPT ![k] = {}]

\* Mutant: a denial is signalled like an approval.
DenySignalsYes(k) ==
    /\ Signal(k, "yes")
    /\ pending' = [pending EXCEPT ![k] = {}]
    /\ UNCHANGED granted

\* Not persisted: the next request for k asks again.
Deny(k) ==
    /\ Signal(k, "no")
    /\ pending' = [pending EXCEPT ![k] = {}]
    /\ UNCHANGED granted

-----------------------------------------------------------------------------
(* A request goroutine.                                                    *)

Go(r, from, to) ==
    /\ pc[r] = from
    /\ pc' = [pc EXCEPT ![r] = to]

\* ExecuteCtx found that the secret's policy answers RequestPermission.
NeedApproval(r, k) ==
    /\ Go(r, "idle", "isApproved")
    /\ key' = [key EXCEPT ![r] = k]
    /\ UNCHANGED <<mode, storeVars, notify, loopVars>>

\* ExecuteCtx: already granted in this session; otherwise a transient proxy on
\* a terminal asks inline, and a daemon calls WaitForApproval.
IsApproved(r) ==
    /\ \/ key[r] \in granted /\ Go(r, "isApproved", "permitted")
       \/ key[r] \notin granted /\ mode = "transient" /\ Go(r, "isApproved", "inline")
       \/ key[r] \notin granted /\ mode # "transient" /\ Go(r, "isApproved", "fastPath")
    /\ UNCHANGED <<mode, storeVars, notify, key, loopVars>>

\* The inline prompt: yes grants the key and lets the request through, no refuses
\* it, and an unreadable answer falls through to WaitForApproval.
InlinePrompt(r) ==
    /\ \/ Go(r, "inline", "permitted") /\ Approve(key[r])
       \/ Go(r, "inline", "denied") /\ UNCHANGED storeVars
       \/ Go(r, "inline", "fastPath") /\ UNCHANGED storeVars
    /\ UNCHANGED <<mode, notify, key, loopVars>>

\* WaitForApproval: the read-locked look at the granted map...
FastPath(r) ==
    /\ \/ key[r] \in granted /\ Go(r, "fastPath", "permitted")
       \/ key[r] \notin granted /\ Go(r, "fastPath", "register")
    /\ UNCHANGED <<mode, storeVars, notify, key, loopVars>>

\* ...and, in a second critical section, the registration of a waiter.
Register(r) ==
    /\ Go(r, "register", "notify")
    /\ pending' = [pending EXCEPT ![key[r]] = @ \union {r}]
    /\ answer' = [answer EXCEPT ![r] = "none"]
    /\ UNCHANGED <<mode, granted, notify, key, loopVars>>

\* Mutant: the send has no default branch and the channel no capacity.
NotifyUnbounded(r) ==
    /\ Go(r, "notify", "await")
    /\ notify' = Append(notify, key[r])
    /\ UNCHANGED <<mode, storeVars, key, loopVars>>

\* Non-blocking send: the notification is dropped when the channel is full.
Notify(r) ==
    /\ Go(r, "notify", "await")
    /\ notify' = IF Len(notify) < NotifyCap THEN Append(notify, key[r]) ELSE notify
    /\ UNCHANGED <<mode, storeVars, key, loopVars>>

\* Mutant: any answer on the channel counts as a permission.
ReceiveAnyAnswer(r) ==
    /\ answer[r] # "none"
    /\ Go(r, "await", "permitted")
    /\ answer' = [answer EXCEPT ![r] = "none"]
    /\ UNCHANGED <<mode, granted, pending, notify, key, loopVars>>

Receive(r) ==
    /\ answer[r] # "none"
    /\ Go(r, "await", IF answer[r] = "yes" THEN "permitted" ELSE "refused")
    /\ answer' = [answer EXCEPT ![r] = "none"]
    /\ UNCHANGED <<mode, granted, pending, notify, key, loopVars>>

\* Mutant: the timer is ignored once somebody has granted the key.
ExpireUnlessGranted(r) ==
    /\ key[r] \notin granted
    /\ Go(r, "await", "expired")
    /\ UNCHANGED <<mode, storeVars, notify, key, loopVars>>

\* The timer may win the select even when an answer is there.
Expire(r) ==
    /\ Go(r, "await", "expired")
    /\ UNCHANGED <<mode, storeVars, notify, key, loopVars>>

\* Mutant: the timed-out waiter stays registered.
RemoveWaiterForgets(r) ==
    /\ Go(r, "expired", "refused")
    /\ answer' = [answer EXCEPT ![r] = "none"]
    /\ UNCHANGED <<mode, granted, pending, notify, key, loopVars>>

RemoveWaiter(r) ==
    /\ Go(r, "expired", "refused")
    /\ pending' = [pending EXCEPT ![key[r]] = @ \ {r}]
    /\ answer' = [answer EXCEPT ![r] = "none"]
    /\ UNCHANGED <<mode, granted, notify, key, loopVars>>

\* The request is forwarded or answered 403; its goroutine may serve another one.
Finish(r) ==
    /\ pc[r] \in Decided
    /\ pc' = [pc EXCEPT ![r] = "idle"]
    /\ UNCHANGED <<mode, storeVars, notify, key, loopVars>>

-----------------------------------------------------------------------------
(* The developer: the /approve endpoint (`proxy approve`) and the terminal. *)

HandleApprove(k) ==
    /\ Approve(k)
    /\ UNCHANGED <<mode, notify, pc, key, loopVars>>

LoopReceive ==
    /\ mode = "terminal"
    /\ loop = "recv" /\ notify # <<>>
    /\ loop' = "check"
    /\ prompt' = Head(notify)
    /\ notify' = Tail(notify)
    /\ UNCHANGED <<mode, storeVars, pc, key, handling>>

\* Skip a key that is granted or being handled, else print the prompt.
LoopCheck ==
    /\ loop = "check"
    /\ IF prompt \in granted \union handling
         THEN loop' = "recv" /\ UNCHANGED handling
         ELSE loop' = "prompt" /\ handling' = handling \union {prompt}
    /\ UNCHANGED <<mode, storeVars, notify, pc, key, prompt>>

LoopAllow ==
    /\ loop = "prompt"
    /\ Approve(prompt)
    /\ loop' = "recv"
    /\ UNCHANGED <<mode, notify, pc, key, prompt, handling>>

\* Mutant: a denied key stays in the handling map.
LoopDenyKeepsHandling ==
    /\ loop = "prompt"
    /\ Deny(prompt)
    /\ loop' = "recv"
    /\ UNCHANGED <<mode, notify, pc, key, prompt, handling>>

LoopDeny ==
    /\ loop = "prompt"
    /\ Deny(prompt)
    /\ handling' = handling \ {prompt}
    /\ loop' = "recv"
    /\ UNCHANGED <<mode, notify, pc, key, prompt>>

-----------------------------------------------------------------------------

\* What the scheduler and the timers run by themselves once WaitForApproval is
\* called.  Reading stdin (InlinePrompt, LoopAllow, LoopDeny) waits for a human.
WaitStep(r) ==
    FastPath(r) \/ Register(r) \/ Notify(r) \/ Receive(r) \/ Expire(r) \/ RemoveWaiter(r)

RequestStep(r) ==
    \/ \E k \in Keys : NeedApproval(r, k)
    \/ IsApproved(r)
    \/ InlinePrompt(r)
    \/ WaitStep(r)
    \/ Finish(r)

LoopStep == LoopReceive \/ LoopCheck \/ LoopAllow \/ LoopDeny

Next ==
    \/ \E r \in Requests : RequestStep(r)
    \/ \E k \in Keys : HandleApprove(k)
    \/ LoopStep

Spec == Init /\ [][Next]_vars

Fairness == \A r \in Requests : WF_vars(WaitStep(r))

FairSpec == Spec /\ Fairness

-----------------------------------------------------------------------------
(* Properties.                                                             *)

\* WaitForApproval "returns true only if explicitly approved", and so does every
\* other way past the gate: a request goes on with its credential only when its
\* own key was granted in this session, whatever raced with the wait.
PermitNeedsGrant ==
    \A r \in Requests : pc[r] = "permitted" => key[r] \in granted

\* A waiter is registered exactly while its request is between the registration
\* and the end of its wait, under that request's key, and its channel is empty:
\* no waiter outlives its request (the timeout removes it), and the default
\* branch in Approve and Deny never throws a developer's answer away.
WaitersAreLive ==
    \A k \in Keys, r \in Requests :
        r \in pending[k] => /\ pc[r] \in {"notify", "await", "expired"}
                           /\ key[r] = k
                           /\ answer[r] = "none"

\* The terminal never goes silent on a key that still needs a decision: a key
\* stays in the handling map only while its prompt is on the screen or once it is
\* granted (a denied key must prompt again).
SilencedKeysAreGranted ==
    \A k \in handling : k \in granted \/ (loop = "prompt" /\ prompt = k)

\* Every request that calls WaitForApproval gets out of it, with or without a
\* developer at the terminal and even when its notification was dropped.
EveryWaitEnds ==
    \A r \in Requests :
        pc[r] = "fastPath" ~> pc[r] \in Decided

\* The store implements the gate: the phases seen by the caller of the store.
Phase(r) ==
    IF pc[r] \in {"idle", "permitted"} THEN pc[r]
    ELSE IF pc[r] \in {"refused", "denied"} THEN "refused" ELSE "asking"

Gate == INSTANCE ApprovalGate
            WITH phase <- [r \in Requests |-> Phase(r)], asked <- key

ImplementsGate == Gate!GateSpec

\* What approvals.go:64-65 says of WaitForApproval, "the connection is released
\* the moment Approve or Deny is called": a request that waits with nothing on
\* its channel is one whose key has not been granted.  It does NOT hold: Approve
\* between the fast path and the registration is never seen by the waiter.
ReleasedWhenApproved ==
    \A r \in Requests :
        pc[r] = "await" /\ answer[r] = "none" => key[r] \notin granted
=============================================================================
