---------------------------- MODULE LoginSession ----------------------------
(***************************************************************************)
(* A user's session: tokens in the keychain, in every process's memory and *)
(* in the token file of older versions, the keypair, the workspace keys    *)
(* and the global config (pkg/auth, pkg/config, the refresh in             *)
(* pkg/api/client.go, commands/login.go and logout.go).  A long-lived      *)
(* process (the proxy, an MCP server) makes calls from several goroutines  *)
(* over one client; commands are processes of their own.  A request, its   *)
(* answer or a keychain call may fail and a process may be killed.         *)
(*                                                                         *)
(* A token is <<user, number>>.  Every user owns one workspace, named      *)
(* after the user.  The server is external: it exchanges a usable refresh  *)
(* token, for a new one or not, and refuses every other.  A change of      *)
(* config.json is one step; password hash and server URL are left out.     *)
(***************************************************************************)
EXTENDS Naturals

CONSTANTS
    Processes,
    Commands,     \* those that live for one command
    Threads,
    Owner,        \* the process of each thread
    Users,
    None,
    MaxTokens,    \* bound: sessions and access tokens the server issues
    MaxJobs,      \* bound: calls, logins and logouts
    MaxFaults     \* bound: failures, kills and revocations

Token == Users \X (1 .. MaxTokens)
Pair == [access : Token, refresh : Token]

ASSUME SessionAssumption ==
    /\ Commands \subseteq Processes /\ Owner \in [Threads -> Processes]
    \* A command works in one goroutine.
    /\ \A t, x \in Threads : Owner[t] \in Commands /\ Owner[t] = Owner[x] => t = x
    /\ None \notin Users \union Threads /\ None \notin Pair
    /\ MaxTokens \in Nat \ {0} /\ MaxJobs \in Nat /\ MaxFaults \in Nat

VARIABLES
    good, usable,     \* the server: access and refresh tokens it takes
    stored,           \* user_tokens in the keychain
    tokenfile,        \* token.json
    mem,              \* cachedTokens of each process
    keypairs, wskeys, \* users with a keypair, workspaces with a key in the keychain
    config,           \* config.json
    mu,               \* refreshMu of each process's client
    st,               \* what each thread does
    spent,            \* history: refresh tokens a process has exchanged itself
    users,            \* history: who has been logged in on this machine
    torn,             \* history: a killed login or a logout left a key config.json
                      \* does not list
    issued, jobs, faults

server == <<good, usable>>
tokens == <<stored, tokenfile, mem>>
keys == <<keypairs, wskeys>>
history == <<spent, users, torn>>
vars == <<server, tokens, keys, config, mu, st, history, issued, jobs, faults>>

NoConfig == [email |-> None, workspaces |-> {}, plain |-> {}, selected |-> None]
Idle == [pc |-> "idle", job |-> "none", user |-> None, held |-> None,
         via |-> "none", alone |-> TRUE, missed |-> FALSE]
Steps == {"idle", "ensure", "request", "send", "denied", "ask", "keep",
          "login", "config", "tokens", "keypair", "wskeys", "wsconfig",
          "check", "forget", "cleartokens", "clearkeys", "clearconfig", "done"}

\* Between the keychain and config.json.
HalfWay == {"wsconfig", "done"}

States == [pc : Steps, job : {"none", "call", "login", "logout"},
           user : Users \union {None}, held : Pair \union {None},
           via : {"none", "ensure", "retry"}, alone : BOOLEAN, missed : BOOLEAN]

TypeOK ==
    /\ good \subseteq Token /\ usable \subseteq Token
    /\ stored \in Pair \union {None} /\ tokenfile \in Pair \union {None}
    /\ mem \in [Processes -> Pair \union {None}]
    /\ keypairs \subseteq Users /\ wskeys \subseteq Users
    /\ config \in [email : Users \union {None}, workspaces : SUBSET Users,
                   plain : SUBSET Users, selected : Users \union {None}]
    /\ mu \in [Processes -> Threads \union {None}]
    /\ st \in [Threads -> States]
    /\ \A t \in Threads : st[t].pc \in {"ask", "keep"} => st[t].held # None
    /\ spent \in [Processes -> SUBSET Token] /\ users \subseteq Users
    /\ torn \in BOOLEAN /\ issued \in 0 .. MaxTokens
    /\ jobs \in 0 .. MaxJobs /\ faults \in 0 .. MaxFaults

\* Nobody logged in; a user logged in with this version; a user an older version
\* logged in, whose tokens and workspace key are in files.
Init ==
    /\ \E u \in Users \union {None}, old \in BOOLEAN :
          LET pair == [access |-> <<u, 1>>, refresh |-> <<u, 1>>]
              own == IF u = None THEN {} ELSE {u}
          IN /\ issued = IF u = None THEN 0 ELSE 1
             /\ good = (IF u = None THEN {} ELSE {<<u, 1>>}) /\ usable = good
             /\ stored = IF u = None \/ old THEN None ELSE pair
             /\ tokenfile = IF u # None /\ old THEN pair ELSE None
             /\ keypairs = own /\ wskeys = IF old THEN {} ELSE own
             /\ config = [email |-> u, workspaces |-> own, selected |-> u,
                          plain |-> IF old THEN own ELSE {}]
             /\ users = own
    /\ mem = [p \in Processes |-> None] /\ mu = mem
    /\ st = [t \in Threads |-> Idle] /\ spent = [p \in Processes |-> {}]
    /\ torn = FALSE /\ jobs = 0 /\ faults = 0

-----------------------------------------------------------------------------
Fault == faults < MaxFaults /\ faults' = faults + 1
NoFault == UNCHANGED faults

At(t, pc) == st[t].pc = pc

\* The thread goes on; jobs of the other processes no longer run alone.
Go(t, r) ==
    st' = [x \in Threads |->
              IF x = t THEN r
              ELSE IF Owner[x] = Owner[t] \/ st[x] = Idle THEN st[x]
              ELSE [st[x] EXCEPT !.alone = FALSE]]
To(t, pc) == [st[t] EXCEPT !.pc = pc]

\* The call is over, whatever it returns: logout ignores it.
Ended(t) == IF st[t].job = "logout" THEN To(t, "forget") ELSE Idle

\* LoadTokens: from memory, the keychain, the file; what it finds in the file moves to
\* the keychain and is gone from the file even if the keychain refused it.
LoadTokens(p, pair) ==
    \/ /\ mem[p] # None /\ pair = mem[p]
       /\ NoFault /\ UNCHANGED tokens
    \/ /\ mem[p] = None /\ stored # None /\ pair = stored
       /\ mem' = [mem EXCEPT ![p] = pair]
       /\ NoFault /\ UNCHANGED <<stored, tokenfile>>
    \/ /\ mem[p] = None /\ pair = tokenfile
       /\ \/ stored = None /\ stored' = tokenfile /\ NoFault
          \/ UNCHANGED stored /\ Fault
       /\ mem' = [mem EXCEPT ![p] = pair] /\ tokenfile' = None

\* What LoadTokens may return.
Known(p) == {mem[p], stored, tokenfile}

\* SaveTokens: memory first, then the keychain, then the file is emptied.
SaveTokens(t, pair, ok, failed) ==
    /\ mem' = [mem EXCEPT ![Owner[t]] = pair]
    /\ \/ stored' = pair /\ tokenfile' = None /\ NoFault /\ Go(t, ok)
       \/ UNCHANGED <<stored, tokenfile>> /\ Fault /\ Go(t, failed)

-----------------------------------------------------------------------------
(* An API call.                                                            *)

\* EnsureAuth.  Five minutes before its end a token counts as expired.
Ensure(t) ==
    /\ At(t, "ensure")
    /\ \E pair \in Known(Owner[t]), expired \in BOOLEAN :
          /\ LoadTokens(Owner[t], pair)
          /\ Go(t, IF pair = None \/ config.email = None THEN Idle
                   ELSE IF expired
                        THEN [To(t, "ask") EXCEPT !.held = pair, !.via = "ensure"]
                        ELSE To(t, "request"))
    /\ UNCHANGED <<server, keys, config, mu, history, issued, jobs>>

\* doRequest takes the token of the moment ...
Request(t) ==
    /\ At(t, "request")
    /\ \E pair \in Known(Owner[t]) :
          LoadTokens(Owner[t], pair) /\ Go(t, [To(t, "send") EXCEPT !.held = pair])
    /\ UNCHANGED <<server, keys, config, mu, history, issued, jobs>>

\* ... and sends the request.  After a refresh a second 401 is the result.
Send(t) ==
    LET pair == st[t].held
        taken == pair # None /\ pair.access \in good
        Of(u, S) == {x \in S : x[1] = u}
    IN /\ At(t, "send")
       /\ \/ /\ taken /\ NoFault /\ Go(t, Ended(t))
             /\ IF st[t].job = "logout"   \* auth.logout ends the user's sessions
                THEN /\ good' = good \ Of(pair.access[1], good)
                     /\ usable' = usable \ Of(pair.access[1], usable)
                ELSE UNCHANGED server
          \/ /\ ~taken /\ NoFault /\ UNCHANGED server
             /\ Go(t, IF st[t].via = "retry" THEN Ended(t) ELSE To(t, "denied"))
          \/ Fault /\ Go(t, Ended(t)) /\ UNCHANGED server
       /\ UNCHANGED <<tokens, keys, config, mu, history, issued, jobs>>

\* Mutant: a session without a refresh token is refreshed.
RefreshUnchecked(t) ==
    /\ \E pair \in Known(Owner[t]) :
          /\ LoadTokens(Owner[t], pair)
          /\ Go(t, [To(t, "ask") EXCEPT !.held = pair, !.via = "retry"])
    /\ mu' = [mu EXCEPT ![Owner[t]] = t]
    /\ UNCHANGED <<server, keys, config, history, issued, jobs>>

\* A 401: refreshMu, then the refresh callback of NewAuthenticatedClient.
Refresh(t) ==
    /\ \E pair \in Known(Owner[t]) :
          /\ LoadTokens(Owner[t], pair)
          /\ IF pair = None
               THEN Go(t, Ended(t)) /\ UNCHANGED mu
               ELSE /\ Go(t, [To(t, "ask") EXCEPT !.held = pair, !.via = "retry"])
                    /\ mu' = [mu EXCEPT ![Owner[t]] = t]
    /\ UNCHANGED <<server, keys, config, history, issued, jobs>>

\* Mutant: without the mutex.
DeniedUnlocked(t) == At(t, "denied") /\ Refresh(t)
Denied(t) == At(t, "denied") /\ mu[Owner[t]] = None /\ Refresh(t)

Unlock(t) == mu' = [mu EXCEPT ![Owner[t]] = IF @ = t THEN None ELSE @]
AskFailed(t) ==
    /\ Unlock(t)
    /\ Go(t, IF st[t].via = "ensure" THEN Idle ELSE Ended(t))

\* The server's side of a refresh: a new access token and perhaps a new refresh token.
Exchange(old, new) ==
    LET fresh == <<old[1], issued + 1>>
    IN /\ old \in usable /\ issued < MaxTokens /\ issued' = issued + 1
       /\ good' = good \union {fresh}
       /\ \/ new = [access |-> fresh, refresh |-> fresh]
             /\ usable' = (usable \ {old}) \union {fresh}
          \/ new = [access |-> fresh, refresh |-> old] /\ UNCHANGED usable

\* Mutant: auth.refresh is not a public endpoint, its 401 is refreshed as well.
AskAgain(t) ==
    LET old == st[t].held.refresh
    IN /\ At(t, "ask")
       /\ \/ \E new \in Pair : /\ Exchange(old, new) /\ NoFault /\ UNCHANGED mu
                               /\ Go(t, [To(t, "keep") EXCEPT !.held = new])
          \/ /\ UNCHANGED <<server, issued, mu>> /\ NoFault /\ old \notin usable
             /\ Go(t, To(t, "denied"))
          \/ UNCHANGED <<server, issued>> /\ Fault /\ AskFailed(t)
       /\ UNCHANGED <<tokens, keys, config, history, jobs>>

\* RefreshSession: auth.refresh, which is public: a refusal is not refreshed again.
\* A pair keeps the refresh token it was asked with if the server returns none.
Ask(t) ==
    LET old == st[t].held.refresh
        p == Owner[t]
    IN /\ At(t, "ask")
       /\ \/ \E new \in Pair :
                /\ Exchange(old, new)
                /\ \/ /\ NoFault /\ UNCHANGED mu
                      /\ Go(t, [To(t, "keep") EXCEPT !.held = new])
                      /\ spent' = IF new.refresh = old THEN spent
                                  ELSE [spent EXCEPT ![p] = @ \union {old}]
                   \/ Fault /\ AskFailed(t) /\ UNCHANGED spent   \* the answer is lost
          \/ /\ UNCHANGED <<server, issued, spent>> /\ AskFailed(t)
             /\ \/ NoFault /\ (old \notin usable \/ issued = MaxTokens)
                \/ Fault
       /\ UNCHANGED <<tokens, keys, config, users, torn, jobs>>

\* The new pair is stored; the refused request is sent once more, with this token.
Keep(t) ==
    /\ At(t, "keep") /\ Unlock(t)
    /\ SaveTokens(t, st[t].held,
                  To(t, IF st[t].via = "ensure" THEN "request" ELSE "send"),
                  IF st[t].via = "ensure" THEN Idle ELSE Ended(t))
    /\ UNCHANGED <<server, keys, config, history, issued, jobs>>

-----------------------------------------------------------------------------
(* PerformLogin: an error ends it where it is.  Signup makes the account   *)
(* first, and ends there if it cannot.                                     *)

Login(t) ==
    LET fresh == <<st[t].user, issued + 1>>
        pair == [access |-> fresh, refresh |-> fresh]
    IN /\ At(t, "login")
       /\ \/ /\ issued < MaxTokens /\ issued' = issued + 1 /\ NoFault
             /\ good' = good \union {fresh} /\ usable' = usable \union {fresh}
             /\ Go(t, [To(t, "config") EXCEPT !.held = pair])
          \/ UNCHANGED <<server, issued>> /\ Go(t, Idle) /\ (Fault \/ NoFault)
       /\ UNCHANGED <<tokens, keys, config, mu, history, jobs>>

LoginConfig(t) ==
    /\ At(t, "config")
    /\ config' = [config EXCEPT !.email = st[t].user]
    /\ users' = users \union {st[t].user}
    /\ Go(t, To(t, "tokens"))
    /\ UNCHANGED <<server, tokens, keys, mu, spent, torn, issued, jobs, faults>>

LoginTokens(t) ==
    /\ At(t, "tokens") /\ SaveTokens(t, st[t].held, To(t, "keypair"), Idle)
    /\ UNCHANGED <<server, keys, config, mu, history, issued, jobs>>

StoreKeypair(t) ==
    /\ At(t, "keypair")
    /\ \/ /\ keypairs' = keypairs \union {st[t].user}
          /\ NoFault /\ Go(t, To(t, "wskeys"))
       \/ UNCHANGED keypairs /\ Fault /\ Go(t, Idle)
    /\ UNCHANGED <<server, tokens, wskeys, config, mu, history, issued, jobs>>

\* StoreWorkspaceCache: the keychain's errors are ignored.  A login whose workspaces
\* cannot be decrypted ends here.
StoreKeys(t) ==
    /\ At(t, "wskeys")
    /\ \/ /\ wskeys' = wskeys \union {st[t].user}
          /\ NoFault /\ Go(t, To(t, "wsconfig"))
       \/ UNCHANGED wskeys /\ Fault /\ (Go(t, To(t, "wsconfig")) \/ Go(t, Idle))
    /\ UNCHANGED <<server, tokens, keypairs, config, mu, history, issued, jobs>>

\* The workspaces replace those of the last login, a selection stays.
StoreWorkspaces(t) ==
    LET u == st[t].user
    IN /\ At(t, "wsconfig")
       /\ config' = [config EXCEPT !.workspaces = {u}, !.plain = {},
                                   !.selected = IF @ = None THEN u ELSE @]
       /\ Go(t, Idle)
       /\ UNCHANGED <<server, tokens, keys, mu, history, issued, jobs, faults>>

-----------------------------------------------------------------------------
(* Logout: after its API call every error is ignored but those of files.   *)

Check(t) ==
    /\ At(t, "check")
    /\ \E pair \in Known(Owner[t]) :
          /\ LoadTokens(Owner[t], pair)
          /\ Go(t, IF pair = None \/ config.email = None THEN Idle
                   ELSE [To(t, "request") EXCEPT !.user = config.email])
    /\ UNCHANGED <<server, keys, config, mu, history, issued, jobs>>

\* One step of the keychain's, whose error is ignored.
Ignoring(t, next, effect, none) ==
    \/ effect /\ NoFault /\ Go(t, To(t, next))
    \/ none /\ Fault /\ Go(t, [To(t, next) EXCEPT !.missed = TRUE])

ForgetKeypair(t) ==
    /\ At(t, "forget")
    /\ Ignoring(t, "cleartokens", keypairs' = keypairs \ {st[t].user},
                UNCHANGED keypairs)
    /\ UNCHANGED <<server, tokens, wskeys, config, mu, history, issued, jobs>>

\* Mutant: the tokens in memory stay.
ClearTokensInKeychain(t) ==
    /\ At(t, "cleartokens")
    /\ Ignoring(t, "clearkeys", stored' = None, UNCHANGED stored)
    /\ UNCHANGED <<server, tokenfile, mem, keys, config, mu, history, issued, jobs>>

\* ClearSession.
ClearTokens(t) ==
    /\ At(t, "cleartokens")
    /\ mem' = [mem EXCEPT ![Owner[t]] = None]
    /\ Ignoring(t, "clearkeys", stored' = None, UNCHANGED stored)
    /\ UNCHANGED <<server, tokenfile, keys, config, mu, history, issued, jobs>>

\* The keys of the workspaces config.json lists.
ClearKeys(t) ==
    /\ At(t, "clearkeys")
    /\ Ignoring(t, "clearconfig", wskeys' = wskeys \ config.workspaces,
                UNCHANGED wskeys)
    /\ UNCHANGED <<server, tokens, keypairs, config, mu, history, issued, jobs>>

ClearConfig(t) ==
    /\ At(t, "clearconfig")
    /\ config' = NoConfig /\ tokenfile' = None
    /\ Go(t, To(t, "done"))
    /\ UNCHANGED <<server, stored, mem, keys, mu, spent, users, torn, issued, jobs,
                   faults>>

LoggedOut(t) ==
    /\ At(t, "done") /\ Go(t, Idle) /\ torn' = (torn \/ wskeys # {})
    /\ UNCHANGED <<server, tokens, keys, config, mu, spent, users, issued, jobs,
                   faults>>

-----------------------------------------------------------------------------
\* A command starts with an empty memory.  The proxy does not check the session before
\* its calls, login and logout do not either.
StartJob(t, r) ==
    LET p == Owner[t]
    IN /\ st[t] = Idle /\ jobs < MaxJobs /\ jobs' = jobs + 1 /\ Go(t, r)
       /\ IF p \in Commands
          THEN mem' = [mem EXCEPT ![p] = None] /\ spent' = [spent EXCEPT ![p] = {}]
          ELSE UNCHANGED <<mem, spent>>
       /\ UNCHANGED <<server, stored, tokenfile, keys, config, mu, users,
                      torn, issued, faults>>

Call(t) ==
    StartJob(t, [Idle EXCEPT !.job = "call",
                             !.pc = IF Owner[t] \in Commands THEN "ensure" ELSE "request"])
StartLogin(t) ==
    /\ Owner[t] \in Commands
    /\ \E u \in Users : StartJob(t, [Idle EXCEPT !.job = "login", !.user = u, !.pc = "login"])
StartLogout(t) ==
    /\ Owner[t] \in Commands
    /\ StartJob(t, [Idle EXCEPT !.job = "logout", !.pc = "check"])

\* `workspace switch`.
SwitchWorkspace(t) ==
    /\ st[t] = Idle /\ Owner[t] \in Commands
    /\ \E w \in config.workspaces \ {config.selected} :
          config' = [config EXCEPT !.selected = w]
    /\ Go(t, Idle)
    /\ UNCHANGED <<server, tokens, keys, mu, history, issued, jobs, faults>>

\* GetWorkspaceKey: a key still in config.json moves to the keychain and is gone from
\* the file even if the keychain refused it.
UseWorkspaceKey(t) ==
    LET w == config.selected
    IN /\ st[t] = Idle /\ w \in config.plain \ wskeys
       /\ \/ wskeys' = wskeys \union {w} /\ NoFault
          \/ UNCHANGED wskeys /\ Fault
       /\ config' = [config EXCEPT !.plain = @ \ {w}] /\ Go(t, Idle)
       /\ UNCHANGED <<server, tokens, keypairs, mu, history, issued, jobs>>

\* Time and the server.
Expire ==
    /\ \E x \in good : good' = good \ {x}
    /\ UNCHANGED <<usable, tokens, keys, config, mu, st, history, issued, jobs, faults>>
Revoke ==
    /\ Fault /\ \E x \in usable : usable' = usable \ {x}
    /\ UNCHANGED <<good, tokens, keys, config, mu, st, history, issued, jobs>>

Restart(p) ==
    /\ Fault /\ mem' = [mem EXCEPT ![p] = None] /\ mu' = [mu EXCEPT ![p] = None]
    /\ spent' = [spent EXCEPT ![p] = {}]
    /\ st' = [t \in Threads |-> IF Owner[t] = p THEN Idle ELSE st[t]]
    /\ torn' = (torn \/ /\ wskeys # {}
                        /\ \E t \in Threads : Owner[t] = p /\ st[t].pc \in HalfWay)
    /\ UNCHANGED <<server, stored, tokenfile, keys, config, users, issued,
                   jobs>>

Step(t) ==
    \/ Ensure(t) \/ Request(t) \/ Send(t) \/ Denied(t) \/ Ask(t) \/ Keep(t)
    \/ Login(t) \/ LoginConfig(t) \/ LoginTokens(t) \/ StoreKeypair(t) \/ StoreKeys(t)
    \/ StoreWorkspaces(t) \/ Check(t) \/ ForgetKeypair(t) \/ ClearTokens(t)
    \/ ClearKeys(t) \/ ClearConfig(t) \/ LoggedOut(t)

Next ==
    \/ \E t \in Threads : \/ Step(t) \/ Call(t) \/ StartLogin(t) \/ StartLogout(t)
                          \/ SwitchWorkspace(t) \/ UseWorkspaceKey(t)
    \/ \E p \in Processes : Restart(p)
    \/ Expire \/ Revoke

Spec == Init /\ [][Next]_vars

-----------------------------------------------------------------------------
(* Properties.                                                             *)

\* Nobody waits for refreshMu for ever: whoever holds it is in a refresh, whose next two
\* steps end in releasing it, and a refused refresh is not refreshed itself
\* (client.go:230-233, "to prevent infinite refresh loops").
NobodyWaitsForEver ==
    \A p \in Processes : mu[p] # None =>
       /\ Owner[mu[p]] = p
       /\ st[mu[p]].pc \in {"ask", "keep"} /\ st[mu[p]].via = "retry"

\* A process never asks with a refresh token that it has itself exchanged for another,
\* however many of its calls are refused at once: refreshMu serializes them and each
\* reads the tokens again once it has it (client.go:239-242).
NeverReused ==
    \A t \in Threads : At(t, "ask") => st[t].held.refresh \notin spent[Owner[t]]

\* A login or logout of another process is between keychain and config.json.
HalfDone(t) == \E x \in Threads \ {t} : st[x].pc \in HalfWay

\* Logout "clears all stored credentials" (auth.go:238): if only one user has been
\* logged in here, nothing of it failed, no other process was at work and none had
\* stopped in the middle of a login or logout, no token, keypair or workspace key is
\* left, in the keychain or in a file.
LogoutForgets ==
    \A t \in Threads :
       At(t, "done") /\ st[t].alone /\ ~st[t].missed /\ ~torn /\ ~HalfDone(t)
             /\ users = {st[t].user} =>
          /\ stored = None /\ tokenfile = None /\ mem[Owner[t]] = None
          /\ keypairs = {} /\ wskeys = {} /\ config = NoConfig
=============================================================================
