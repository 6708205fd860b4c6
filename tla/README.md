# AgentSecrets in TLA+

AgentSecrets keeps API credentials in the operating system's keychain and lets
AI agents *use* them without *seeing* them: an agent sends its HTTP call to a
local proxy, naming the secrets to inject; the proxy decides whether this agent
may use these secrets for this domain and method, injects the values, forwards
the call, removes echoed values from the answer and writes an audit record. The
same binary is a CLI, a transient in-process proxy (`agentsecrets call`, the
MCP server) and a long-running daemon (`agentsecrets proxy start`).

This directory holds specifications of that system, TLC configurations that
check them on small instances, and TLAPS proofs of the facts that matter most
for every value of the constants. Definitions are translated from the Go code;
`PROJECT.json` maps each one to the lines it models.

    tlc -workers 2 -config MCApprovalStore.cfg MCApprovalStore
    tlapm ApprovalStoreProofs.tla

## 1. Inventory

| component | code | state | status |
|---|---|---|---|
| Approval store, its prompt, the `/approve` endpoint | `pkg/proxy/approvals.go`, `commands/proxy.go`, `engine.go:679-753` | granted and pending maps, waiter channels, notify channel, the terminal's handling map | modelled: `ApprovalGate`, `ApprovalStore` |
| Agent identity: token cache, keychain fallback, revocation sync | `pkg/proxy/token_cache.go`, `engine.go:380-500, 1040-1110` | cache with a five-minute TTL, revoked IDs, saved tokens and capabilities | modelled: `TokenRevocation` |
| Secret policies, capabilities | `pkg/capabilities/policy.go` | none (pure functions) | modelled: `SecretPolicy` |
| Request pipeline | `pkg/proxy/engine.go`, `server.go`, `forwarder.go` | what a call has read so far; keychain copies of allowlist and policies; API copies | modelled: `RequestPipeline` |
| Audit log | `pkg/proxy/audit.go`, `client.go`, `commands/env.go` | SQLite tables, hash chain, per-process queue and writer, upload marks | modelled: `AuditLog` |
| Keychain client | `pkg/keychainauth/client.go`, `cache.go`, `recovery.go`, `pkg/keyring` | shared connection, registration, five-second metadata cache | modelled: `KeychainClient` |
| Keychain daemon setup, doctor | `pkg/keychainauth/setup.go`, `daemoninfo.go`, `doctor.go`, `commands/root.go`, `env.go`, `exec.go` | binaries, systemd unit, trust store, daemon and its sockets, verified marker | Linux: `KeychainSetup` |
| Login session | `pkg/auth`, `pkg/api/client.go`, `pkg/config`, `commands/login.go`, `logout.go` | access and refresh tokens in the keychain, in memory and in `token.json`; keypair; workspace keys; `config.json` | modelled: `LoginSession` |
| Secrets service | `pkg/secrets`, `commands/secrets.go`, `environment.go`, the secret tools of `pkg/mcp` | cloud, keychain, `.env` files, cached copy of the cloud, `.env.example`, `project.json` | modelled: `SecretsSync` |
| Proxy server, PID file, session token | `server.go`, `client.go`, `session.go` | one session token in the keychain, one PID file | handlers modelled; token and PID file planned |
| Configuration files | `pkg/config` | `config.json`, `token.json`, `project.json` | tokens, workspaces, selection, environment: `LoginSession`, `SecretsSync`; servers and project lookup are not |
| MCP server | `pkg/mcp` | long-lived copies of project and service | tools that change secrets or the environment: `SecretsSync` |
| Command line | `cmd/agentsecrets/commands` | none of its own | the commands that change shared state are actions of the modules above |
| Log queries | `pkg/log` | none | only the chain verification is stated |
| Workspaces, projects, agents | `pkg/workspaces`, `pkg/projects`, `pkg/agents` | none of their own | not modelled: wrappers of API calls |
| Cryptography, telemetry, UI, installers | `pkg/crypto`, `pkg/telemetry`, `pkg/ui`, `npm`, `pypi`, `integrations` | none the proxy depends on | not modelled |

### How the parts interact

    agent ──HTTP──> server.handleProxy ──> Engine.ExecuteCtx
                                             │ resolveIdentity ──> TokenCache ──> API / keychain
                                             │                 └─> IsTokenRevoked <── Engine.Sync (goroutine)
                                             │ ResolveAllowlist, ResolvePolicy ──> keychain, refilled from the API
                                             │ EvaluateSecret ──ask──> ApprovalStore <── terminal loop, /approve
                                             │ inject, forward, redact
                                             └─> Audit: queue ──> writer goroutine ──> SQLite ──> upload
    developer ──CLI in another terminal──> API first, keychain second

    any of them ──> EnsureAuth / RefreshSession ──> tokens in keychain, memory, file
    any of them ──> keychainauth client (one connection, cache, repair) ──> daemon
    every command, first ──> install / upgrade / register / start that daemon
    secrets set|pull|push|delete, MCP tools ──> cloud, keychain, .env, cached copy

* A request goroutine reads the keychain item by item, so a command in another
  terminal falls between two reads; nothing is locked across a call.
* `ResolveAllowlist` and `ResolvePolicy` write the API's answer back to the
  keychain, so a *reader* may overwrite an edit.
* The approval store is shared by all requests, the goroutine that prompts in
  the daemon's terminal and the `/approve` handler; they meet in two maps under
  one RWMutex, one buffered channel and one waiter channel per request.
* `Engine.Sync` holds the engine's lock during its network call; a request that
  presents a token waits for it unless it sees an empty list.
* Every process has an audit logger of its own over one database.
* All goroutines of a process share one connection to the keychain daemon; a
  request that is denied repairs the registration and restarts the daemon under
  the others.
* Every command first makes sure that the daemon is installed, recent enough,
  running and knows this binary; two commands do so at once over the same files.
* A process keeps its tokens and its copy of `project.json` in memory; other
  processes log out, log in as another user, refresh and switch meanwhile.
* A secret lives in five places that change one after the other, without a
  transaction and without a lock between processes.

### What is hard, and what makes each part correct

*Approvals.* Five-minute waits raced by the prompt, the endpoint and a timer;
the look at the granted map and the registration are two critical sections; a
full notify channel drops the notification. Correct: nothing passes without a
grant of its own key, no waiter outlives its request, no answer is thrown away,
the terminal never goes silent on an undecided key, every wait ends.

*Identity.* Validations overtake revocations, the network fails, the fallback
entry has other IDs than the list and no scope, restarts forget the cache and
the list but not the keychain. Correct: only tokens the backend has called valid
get in, listed tokens do not, revocations reach every daemon.

*Pipeline.* Several secrets per call, an approval each, minutes between the
first check and the injection, edits in between. Correct: a credential leaves
only past every check for every injection, whole or not at all, is redacted
from the answer, and the audit record says what happened.

*Audit log.* Events are stamped, queued and chained at three different times, by
several goroutines and processes; a full queue makes callers write by
themselves; an upload is read, post and mark; processes are killed or simply
end. Correct: a flush is a barrier, no row is marked that the backend lacks,
every row is uploaded, the chain verifies, nothing is dropped.

*Keychain client.* A connection broken at the far end looks open; an answer may
be lost after its request was carried out; the cache is filled after the lock is
released; the repair closes the connection that others use. Correct: an exchange
is never cut off by the process itself, a value read was there during the read,
the cache does not hide an own write, every call returns.

*Setup.* A ladder of some twenty steps, half of them privileged or over the
network, each of which may fail or be killed, which calls itself (a request of
the repair may be denied as well) and races with itself in a second terminal.
Correct: it ends, an update takes effect, nothing falls back to an older daemon,
and the marker that spares later commands the check is deserved.

*Secrets.* Five places, many orders of writing them, partial failure everywhere,
and errors that are only warnings. Correct: local places never run ahead of the
cloud, an undisturbed command leaves them agreeing, "local wins" means it.

*Login session.* Concurrent 401s over one refresh mutex, refresh tokens that
may be used once, tokens in three places, migrations from older versions in the
middle of anything. Correct: no goroutine waits for ever, no used-up refresh token
is used again, logout leaves nothing.

`PROJECT.json` lists every such hazard at its line, with the properties that
cover it, or the reason why none does yet.

## 2. Modules

| module | models | composes |
|---|---|---|
| `ApprovalGate` | what approvals promise, with no locks, channels or timers: ask, grant, permit, refuse | |
| `ApprovalStore` | `approvals.go` and all its callers, one step per critical section | implements `ApprovalGate` |
| `ApprovalStoreProofs` | the theorems about it | `ApprovalStore` |
| `TokenRevocation` | `resolveIdentity`, `TokenCache.Validate`, `PurgeRevoked`, `Sync`, a restart; the backend is external | |
| `TokenRevocationProofs` | the theorems about it | `TokenRevocation` |
| `SecretPolicy` | `EvaluateSecret`, `isSecretAllowed`, and `MeansOf`, what a policy *states* | |
| `RequestPipeline` | a call from `handleProxy` to its answer, the keychain and API it reads, a second terminal | `SecretPolicy`, `ApprovalGate` (in place of the store) |
| `RequestPipelineProofs` | the theorems about it and about `SecretPolicy` | `RequestPipeline` |
| `AuditLog` | the log and the processes over it | |
| `AuditLogProofs` | the theorems about it | `AuditLog` |
| `KeychainClient` | `client.go`, `cache.go`, `recovery.go`: goroutines over one connection; the daemon is external | |
| `KeychainClientProofs` | the theorems about it | `KeychainClient` |
| `KeychainSetup` | `setup.go`, `daemoninfo.go`, `doctor.go`, `root.go`: the steps before a command, on a Linux host | |
| `KeychainSetupProofs` | the theorems about it | `KeychainSetup` |
| `SecretsSync` | `pkg/secrets`, the commands and MCP tools that change secrets; cloud, teammate and editor are external | |
| `SecretsSyncProofs` | the theorems about it | `SecretsSync` |
| `LoginSession` | `pkg/auth`, tokens of `pkg/config`, the refresh of `pkg/api`; the server is external | |
| `LoginSessionProofs` | the theorems about it | `LoginSession` |
| `MC*` | small instances | |

**ApprovalStore.** `granted` and `pending` are the two maps, `answer[r]` the
waiter channel of request `r` (capacity one), `notify` the notify channel.
`pc[r]` follows ExecuteCtx into `WaitForApproval`: `IsApproved`,
`InlinePrompt` (transient proxies on a terminal), `FastPath`, `Register`,
`Notify`, then `Receive` or `Expire`/`RemoveWaiter`. `loop`, `prompt` and
`handling` are the goroutine of `startInteractiveApprovalLoop`; in mode
"headless" nobody reads the notify channel. `HandleApprove` is the endpoint.
`ListPending` has no caller and is left out.

**TokenRevocation.** Requests are `Lookup`, the call's three outcomes,
`Fallback`, `SaveToKeychain`, `StoreInCache`, `CheckRevocation`; the lock that
`Sync` holds is `syncer # "idle"`. IDs are records of a kind and an owner, so
that the fallback's `"cached_" + name` differs from every listed ID, as it does
in the program. `knew` and `validated` are history variables. The TTL is the
action `EntryAges`, at any time. Transient proxies never call `Sync`; they are
the behaviours in which it never runs.

**RequestPipeline.** `pc[r]` is the stage of ExecuteCtx; `caps`, `list`, `judged`
and `held` are what the call has read and never reads again; `sent` and
`reply` what crosses the network; `log` and `snap` the audit record and the
allowlist its forensic part shows. Each keychain read, write-back and stage is a
step. The identity verdict is an input (`Identify`), as `TokenRevocation` has
its own run. CLI commands change the API and then the keychain (`SetPolicy`,
`SetAllowlist`, `CommitEdit`) and may die in between (`AbandonEdit`). How a
value is placed in a request (header, query, body, form) is abstracted: what
leaves is a set of secrets, what comes back a set of secrets in exact or
masked form.

**AuditLog.** `st[e]` follows an event from `Stamp` (its `created_at`) through
the queue or the inline write to the row or its loss; `link[e]` is the row its
chain hash was computed from. `writing[p]` and `sync[p]` stand for the mutex
and the two goroutines. SELECT and INSERT are separate steps because other
processes write in between. A process is a daemon (uploads for ever, is
restarted), a transient proxy or a command.

**SecretPolicy.** `EvaluateSecret` keeps the order of the code's branches;
`MeansOf` states the outcome without an order: the first rule that matches the
domain and has the method decides, else the global part, which is closed as soon
as the policy restricts anything.

**KeychainClient.** `conn` is the shared connection, `mu` the holder of
`sessionMu`, `cache` the metadata cache without its expired entries. `pc[g]`
follows a call: cache lookup, `Acquire` (lock and `ensureConn`), `Send`, the
daemon's `Serve`, `Receive` (which unlocks), then `Put` or `Invalidate`; the
latter two are after the lock, as in the code. `Reconnect` is the one resend;
`TryRepair`, `Restart` and `Reopen` the repair of a denial, with
`repairAttempted` and `repairInProgress` in `repair`. `since` and `window` are
histories of what was in the keychain, `crossed` and `late` mark the reads and
entries for which the code promises nothing. The wrappers of `pkg/keyring` are
writes and reads of one or several items.

**KeychainSetup.** A process works through `todo`, its remaining steps; a step
may put others before the rest, an error drops what follows up to the next
place that handles it ("or"). `disk`, `tmp`, `unit`, `daemon`, `trust` and
`marker` are what the processes share. `Avail` to `Record` are the ladder of
`ensureDaemonInitialized`; `Diagnose` and `Repairs` are doctor; `Install` to
`Swap` the binary; `Sandbox` to `Start` registration and the daemon's life.
`RepairAnd` is the repair inside a request that is `KeychainClient`'s
`TryRepair`: here its steps are spelled out, there it fails or grants. `served`
is a history: the processes whose update found a system service when it began.

**SecretsSync.** `run[p]` is the command of a process: its `plan` of steps, the
environment, what it has read (`buf`, `start`, `kv`), what remains (`envs`,
`keys`). `view[p]` is the process's copy of the environment in `project.json` and
`file[p]` the environment whose `.env` its service was made for: they differ in an
MCP server that has switched. A file that is read, changed and written back
takes two steps, and a write that fails may leave it empty. `copy`,
`merge` and `set --all-envs` are a `set` over other environments.

**LoginSession.** `st[t]` is what a thread does; `mem[p]`, `stored` and `tokenfile`
are the three places of tokens and `mu[p]` the client's `refreshMu`. `LoadTokens` and
`SaveTokens` are operators used by every step that calls them, with the
migration from the file inside. `Send`, `Denied`, `Ask`, `Keep` are a request,
its 401, the exchange of the refresh token and the storing of the new pair. A token
is a user and a number; whether the server rotates the refresh token is its choice.
A command works in one goroutine (`SessionAssumption`), as every command of
`commands/` does; the proxy and an MCP server work in several.

## 3. Runs

| run | instance | shows |
|---|---|---|
| `approvals` | 2 requests, 2 keys, channel of 1 | `PermitNeedsGrant`, `WaitersAreLive`, `SilencedKeysAreGranted`, `EveryWaitEnds`, and that the store implements `ApprovalGate` |
| `revocation` | 2 requests, 2 tokens of one agent, one out of scope | `AcceptedWasValidated`, `ListedOnlyViaFallback`, `ScopeLostOnlyOffline`, `ListNeverShrinks`, `RevocationIsLearned` |
| `pipeline` | 2 calls with 2 secrets, 3 policies, 1 edit | `LeavesOnlyIfPermitted`, `AllOrNothing`, `RecordMatchesOutcome`, `NoExactEcho` |
| `audit` | a daemon and a command or transient proxy, queue 1, batch 1, 1 kill | `FlushIsABarrier`, `MarkedWasReceived`, `CloseDrains`, `RowsAreUploaded` |
| `keychain_client` | 2 goroutines over one secret and its policy, 1 fault | `SessionIsOwned`, `ReadIsCurrent`, `CacheKeepsUp`, `EveryCallReturns` |
| `keychain_setup` | one process at a time, 3 kinds of command, 5 hosts, 2 faults | `EveryRunEnds` |
| `setup_race` | 2 commands at once on 2 hosts, 1 fault | `MarkerWasGranted`, `UpdateTakesEffect`, `NeverDowngraded` |
| `secrets_sync` | a CLI and an MCP server, 2 environments, 2 keys, 2 commands, 1 event | `AcceptedFirst`, `Agreement`, `LocalWins` |
| `login_session` | a proxy of 2 goroutines, commands of 2 users, 3 jobs, 1 fault | `NobodyWaitsForEver`, `NeverReused`, `LogoutForgets` |
| `approval_race` | as `approvals` | **violated** `ReleasedWhenApproved` |
| `revoked_offline` | as `revocation` | **violated** `RevokedStaysBlocked` |
| `audit_chain` | as `audit`, queue 2 | **violated** `ChainIntact` |

Each property of a passing run has a mutant: a plausible bug in one definition
(a dropped guard, a missing reset, a swapped order), under which the property
fails on the same instance. The mutants stand beside the definitions they
change.

### Bounds, and why they are enough

* *Approvals.* Two requests may share a key (one answer for both, a Deny
  that races with an Approve) or not (the channel is full of the other's
  notification); a third repeats one of these roles. With 32 slots in the code, a
  channel of one is full sooner. Nothing is bounded in time: requests start over.
* *Revocation.* One agent with two tokens has every confusion of IDs there is:
  the token listed, the agent listed, one token saved and the other presented,
  one token in scope and the other not.
* *Pipeline.* Two injections are needed for a loop that ends early and for a
  secret that goes in the middle; two calls for a grant that serves the other.
  `MCConstraint` lets two calls run side by side while nothing is edited and an
  edit fall into a call that runs alone: calls meet only in the grants
  and in what they write back, an edit needs one. `MaxEdits` = 1 bounds commands
  and keychain restarts. Requests are interchangeable and the run checks no
  liveness, so symmetry is sound.
* *Audit.* `MCBound`: two events, both of the daemon or one of each process.
  Two events suffice for an inline write past a full queue, a second batch and
  two processes in one another's way; one kill for every step it may fall into.
* *Keychain client.* One goroutine reads the policy and the listing through the
  cache, the other writes secret and policy and reads the secret: every pair of
  a read and a write on the cache is there. `MaxFaults` = 1 lets the daemon
  stop, forget the binary, be written by another process or the connection be
  closed once, at every step of both calls; starts of the daemon and the
  expiry of entries are not bounded, and calls start over for ever.
* *Setup.* Five hosts: nothing installed; an old system service, with and
  without a newer binary at home; a current one; a user-mode daemon.
  `MaxRuns` = 2 shows the next command what the first has left, `MaxFaults` = 2 a kill
  and an upgrade; failures of privileged steps and downloads are not
  bounded. The race is of two commands, on the two hosts on which both have
  something to replace; the processes are interchangeable and it checks no
  liveness, so symmetry is sound.
* *Secrets.* Two environments, for one to be confused with the other; two keys, for a batch to
  be applied in part. `MaxCommands` = 2 is two commands at once, or one on what
  another has left; `MaxEvents` = 1 one failure, kill, edit or teammate's change
  at any step. `MCEdits` are the changes of a teammate or an editor: a value changed,
  removed and added, and one in the other environment.
* *Login.* Two goroutines suffice to be refused at once; two users for a login
  over another's. `MaxTokens` = 3 is a login, and two refreshes or another login
  and a refresh. `MaxJobs` = 3 bounds calls, logins and logouts, `MaxFaults` = 1
  failures, kills and revocations; the expiry of tokens is not bounded. Goroutines are
  interchangeable, users too, and the run checks no liveness.

The runs of setup, secrets and login stop when their bounds are reached and do
not check for deadlock.

### Fairness

* *Approvals*: weak fairness of a request's own steps after it has called
  `WaitForApproval`. The Go scheduler runs a runnable goroutine, and
  `time.After` fires. Nothing is assumed of the developer, the prompt's
  `ReadString` or the endpoint.
* *Revocation*: weak fairness of the start and the purge of `Sync`
  (`runPeriodic` calls it every minute, more or less), strong fairness of its
  answer: a backend that is asked for ever answers at some time. Nothing is
  assumed of requests, and the daemon may be restarted for ever.
* *Audit*: weak fairness of the daemon's writer and uploader, strong fairness of
  an accepted POST and of the UPDATE that marks it, both retried every minute.
  Nothing is assumed of the other processes.
* *Keychain client*: weak fairness of what a goroutine does by itself, which
  includes an answer or an error on its connection; strong fairness of
  taking `sessionMu`, since Go's mutex starves nobody that waits. Nothing is assumed
  of the start of the daemon. The code sets no read deadline: a daemon that
  neither answers nor closes would hold the lock, and is excluded.
* *Setup*: weak fairness of each process's steps: every external command and
  download has a timeout.
* *Secrets, login*: safety only.

### What the violated properties show

1. **approval_race** (`approvals.go:73`). An `Approve` between the look at the
   granted map and the registration of the waiter wakes nobody: the request
   sleeps its five minutes and is refused although its key is granted. The
   comment says the connection is released the moment `Approve` is called.
2. **revoked_offline** (`token_cache.go:101`). The fallback entry has the ID
   `cached_<agent>`, which no revocation list contains: with the backend's
   validation failing, a token that is on the daemon's own list is accepted. The
   comment at `engine.go:446` says it is blocked.
3. **audit_chain** (`audit.go:593`). Events are stamped before they are queued
   and chained when they are written; the order of `created_at`, in which
   `VerifyChain` reads, may differ, and two processes may chain to the same row.

### Met on the way

Read in the code while modelling; the hazards of `PROJECT.json` name their lines.

*Proxy and audit.* A transport error after the request has left with its
credential ends the call without a record (`engine.go:878`); the forensic snapshot is
read after the call and may show an allowlist other than the one that let it
through (`engine.go:1313`); a transient proxy without a session ends without
`Flush` or `Close` and loses its event (`client.go:159`); the error of the INSERT
is ignored (`audit.go:636`). A policy that neither keychain nor API delivers counts as
none (`engine.go:317`), and a policy action of another name falls through the
switch (`engine.go:687`). `docs/PROXY.md:198` speaks of a ten-second sync of
revocations where `server.go` starts it every 60 seconds with jitter;
`IsTokenRevoked` reads the length of a slice without the lock that guards it.

*Keychain client.* A value read before another goroutine's write may be put
into the cache after that write's invalidation (`client.go:424`) and masks it
for the TTL: `CacheKeepsUp` has to except these entries (`late`). A request whose
answer is lost is sent again, so a write may be applied twice, around another
process's. A caller that is denied while another's repair runs gets the denial.

*Setup.* Whether an update is needed is asked of the file at the daemon's path, not
of the running code (`setup.go:200`), so a file replaced under a daemon hides
that it still runs the old version. All processes write one
`keychain-auth.new`. A socket found dead is removed by name, which may
by then be another process's (`Unlink`). A process whose update finds no service
takes the way of an installation; if another process registers an older binary as
a service in the meantime, the update returns with that one running. The proof of
`UpdateTakesEffect` met this case, and the property speaks of hosts with a service.

*Secrets.* A service writes the `.env` of the environment it was made for,
whichever environment is set: `--all-envs`, `copy`, `merge` and a pull of an MCP
server mix values of another environment in, which is why `AcceptedFirst` says
"some environment" of `.env` files and `Agreement` goes by `file[p]`.
`SaveProjectConfig` after a pull or push writes the process's old copy and undoes
a switch made meanwhile. `push` deletes the keys its diff found, however old the diff. A
delete ignores the keychain's error without a warning (`secrets.go:399`). A
pull never removes what is gone from the cloud.

*Login.* What `LoadTokens` and `GetWorkspaceKey` find in an older version's file is removed from it
even if the keychain refused it (`config.go:434`, `:757`). A refresh that is
under way while another process logs out stores its new pair afterwards. A login
killed before it lists the workspaces in `config.json` leaves workspace keys that no
logout removes (`torn`), as does a second user's login; so does one that is between
the two while another process logs out (`HalfDone`). N calls refused at once make N
refreshes one after the other. These are the cases `LogoutForgets` excepts.

## 4. Theorems

`ApprovalStoreProofs`, for any sets of requests and keys and any capacity,
from `ApprovalAssumption` (the capacity is a positive number):

* `TypeCorrect`, `PermitSafe`, `NoWaiterLeaks`, `NoKeySilenced`: the four
  invariants of the run. `PermitNeedsGrant` is not inductive: the step
  `Receive` permits because of what is on the waiter's channel, so the
  strengthening `AnswerIsBacked` says that a "yes" on a channel was sent for a
  granted key; its first half, that only a request which has registered and is
  not done has an answer, rests on `WaitersAreLive`. `SilencedKeysAreGranted`
  holds because a grant is never taken back. The
  capacity of the channel is the lemma `NotifyQueue` on `Append` and `Tail`.
* `StoreImplementsGate`: the refinement. The mapping is `Phase`; each action
  of the store is an action of the gate or a stutter, a case each, and the
  strengthened invariant is needed where the store permits: the gate demands the
  grant.

`TokenRevocationProofs`, for any requests, tokens and agents, from
`RevocationAssumption` (each token belongs to an agent; `NoToken` is no token):

* `TypeCorrect`, `OnlyValidatedTokens`, `ListedNeedsFallback`,
  `ScopeNeedsFallback`: the four invariants of the run. That an accepted token
  was validated says nothing of where the request found it, so the invariant
  says it of every place it may come from: the cache (`CacheIsSound`), the
  keychain's saved tokens (`KeychainIsSound`) and the entry a request has in
  hand at each stage (`RequestIsSound`). An entry is the backend's own or a
  fallback entry; only the former has an ID the list may contain.
  `ListIsCurrent` keeps the list inside what the backend has revoked.
* `ListGrows`: the action property, from `ListIsCurrent`.

`RequestPipelineProofs`, for any calls, secrets, policies and commands, from
`PipelineAssumption` (what a call and a policy are made of):

* `TypeCorrect`, `PermittedOnly`, `WholeOrNothing`, `RecordAgrees`, `NoEcho`:
  the five invariants of the run. The invariant gives each stage what it may
  rely on: screened (`ScreenHeld`), in the list it read (`DomainHeld`), the
  first injections licensed (`LoopHeld`), waiting for the key of the injection
  it is at (`GateHeld`), the values held a prefix of the call's secrets
  (`ValuesHeld`), what has been sent, answered and recorded (`EffectsHeld`). The
  first three also hold of any call whose credential has left, at whatever
  stage. `Frame` says that a step leaves the other calls as they were: their
  promises are about what they have *read*, so no edit from another terminal
  disturbs them, and the grants they rest on are never taken back.
* `PolicyMeaning`: for every well-formed policy, domain and method,
  `EvaluateSecret` returns what `MeansOf` states. The code walks the rules and
  returns from inside the loop; the proof goes through the least position of a
  matching rule (`LeastNatural`, `FirstPosition`, `FirstIsUnique`).
  `LeavesOnlyIfPermitted` is stated with `MeansOf`, the steps use
  `EvaluateSecret`; `JudgeInv` cites this theorem as the link.

`AuditLogProofs`, for any processes, events, queue and batch sizes, from
`AuditAssumption`:

* `TypeCorrect`, `FlushWorks`, `NothingSkipped`, `CommandsKeepTheirEvents`: the
  four invariants of the run. `FlushIsABarrier` rests on the order of the queue:
  each entry is a queued event of its process or the upload's marker
  (`QueueHoldsQueued`), once (`QueueHasNoDuplicates`), and what an upload waits
  for is done, being written or ahead of the marker (`MarkerIsBehind`).
  `CloseDrains` needs that a queued event is nowhere but in the queue or with the
  writer (`QueuedIsHeld`), and that a command closes only when it has nothing
  left to queue (`EndsAfterLogging`). `MarkedWasReceived` needs `UploadsRows`.

`LoginSessionProofs`, for any processes, threads and users and any number of
tokens, jobs and faults, from `SessionAssumption`:

* `SessionInvariant`, `TypeCorrect`, `RefreshMuIsReleased`,
  `RefreshTokenIsUsedOnce`. A thread that is about to send a refresh token holds
  a copy of the pair in memory (`held`), taken one step earlier; that the copy is not
  spent meanwhile is `HeldIsUnspent`. It holds because a thread in the refresh of
  a retried call has `refreshMu` and one in `EnsureAuth` is the only thread of its
  command (`RefreshIsExclusive`), so nobody else spends. After the exchange the
  pair in memory *is* spent until `Keep` replaces it (`MemoryIsUnspent` excepts this
  moment), and a failed `Keep` in between is where a used-up token would survive:
  `MemoryIsKept` says that a process forgets its tokens only if it has used none,
  or is a command that is logging out.
* `LogoutClearsEverything`: `LogoutForgets` from what has been removed at each
  step (`LogoutHasRemoved`). The workspace keys are removed by the list in
  `config.json`; hence `KeysAreListed`: with one user, nobody half-way through a
  login or logout and none killed there, every stored key is in the list.

`KeychainClientProofs`, for any goroutines, items, writes and faults, from
`ClientAssumption`:

* `ClientInvariant`, `TypeCorrect`, `ExchangesAreExclusive`, `ReadsAreCurrent`,
  `CacheIsNoOlder`. A read answers with what the keychain held at the daemon's step,
  which lies between two others that nobody sees: so each read under way has
  a window that contains the current value and, once answered, the answer
  (`ReadIsWatched`). A write's window is taken over by the cache when it
  invalidates (`WriteIsWatched`, `SinceIsCurrent`), and an answer on its way to the
  cache is one seen since the last own write, unless that crossed it
  (`FillIsCurrent`). `SparedIsFresh` is the lemma for all other callers: what a
  step does to the keychain only widens the windows.

`SecretsSyncProofs`, for any processes, environments, keys, batches, commands and
events, from `SyncAssumption`:

* `SyncInvariant`, `CloudAcceptsFirst`, `TypeCorrect`. A command carries
  values through steps, so the invariant speaks of what is left of its plan:
  every step that writes them comes after one that has them accepted
  (`Ready`), a buffer is written by the step behind the one that filled it
  (`Follows`, `Precedes`), and after a step that takes values from files nothing
  writes them unaccepted (`UsesNothingAfter`). `Given` is the link: the values
  are accepted, or the step that will do so is still ahead.
* `TrackedInvariant`, `PlacesAgree`, `LocalValuesWin`. `Agreement` speaks of the end
  of a command, so `Tracked` says what holds on the way there, of every command
  that nothing has disturbed and that has ignored no failure (`Tracks`): a place has
  the value, or a step that writes it is still in the plan (`Spread`, with
  `Pending` for the steps that concern one key in one environment); so for
  `.env.example` (`Noted`); what a step writes back equals what is there now
  (`Buffered`); what was compared has not changed since (`Chosen`), nor have
  the keys a pull was told to leave alone (`Wins`). `Planned` is the order of the plans
  this rests on: no upload or deletion follows the answer that is cached, a
  deletion is followed by those of the other places, what asks comes last. Only the
  process's own steps matter, because the step of any other disturbs it
  (`OthersTrack`). One lemma per action; `AdvanceKeeps` is what the reading and
  writing steps share.

`KeychainSetupProofs`, for any processes, kinds of command, hosts, runs and faults,
from `SetupAssumption` (a daemon that is up at first runs the file it was started
from):

* `SetupInvariant`, `TypeCorrect`, `MarkerIsGranted`, `DaemonsOnlyRise`,
  `UpdatesAreEffective`. Processes are lists of steps which steps prolong
  and failures cut, so the invariant says what any list may rely on: a record
  directly follows its verification (`Guarded`); a step that uses the binary of
  `EnsureInstalled` finds a good one or has a step ahead of it that gets one, with
  no "or" in between (`Prepared`); no update is opened before another is closed
  (`Orderly`); before a close the service is restarted, after its binary has
  been replaced (`Closing`). The host is in one of two worlds: there is no
  required version to be had (`Bare`), or there is one (`Supplied`) and then an old
  binary is only replaced by a newer (`Rising`). One lemma per action and part
  shows which lists it makes; the lemmas on lists (`...Inserts`, `...Drops`) are about
  concatenation and suffixes only.

Each invariant that is strengthened was first checked as an invariant of the
component's instance. Only model-checked: all liveness (`EveryWaitEnds`,
`RevocationIsLearned`, `RowsAreUploaded`, `EveryCallReturns`, `EveryRunEnds`), which is
out of reach of the provers used; and the violated properties, of course.

## 5. Plan

The order follows the weight of the behaviour; every safety property of what is
modelled is proved. Next:

1. `SessionToken`: the proxy's rotating token and who holds it
   (`commands/proxy.go:628`, `client.go:141`), and the PID file.
2. An abstract keychain (a read returns a value of the last TTL) that
   `KeychainClient` implements, and its use by the pipeline.

## 6. Not modelled

* The wire formats, encryption and key derivation; SQL; the choice of an
  injection style; the wording of answers.
* Time beyond order: TTLs and timeouts fire at any moment.
* The race on the slice header in `IsTokenRevoked` beyond "the list looked
  empty": a torn header is not among the outcomes.
* The composition of `KeychainClient` with the pipeline: the latter reads the
  keychain directly, without the five-second metadata cache.
* Setup on macOS and Windows, Homebrew and the other search paths,
  `systemctl --user`, file permissions, the uninstaller.
* `Service.Get`, which has no caller; the allowlist and capabilities a pull
  refreshes as well; prompts for passwords; a bulk read of secrets that the
  daemon answers item by item.
* The password hash, server URLs and project lookup in the configuration, the
  in-memory cache of workspace keys, the purge of files older than this version's.
* `proxy approve`, which sends no agent name and therefore grants another key
  than the one a named agent waits for: `HandleApprove` grants any key.
* Errors of the INSERT have one outcome ("unwritable"), whatever their cause.
