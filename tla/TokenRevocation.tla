-------------------------- MODULE TokenRevocation --------------------------
(***************************************************************************)
(* How the proxy decides whether an agent token may be used: the token     *)
(* cache (pkg/proxy/token_cache.go), Engine.resolveIdentity, the           *)
(* revocation list and its periodic Sync (pkg/proxy/engine.go), with the   *)
(* keychain entries that serve as the offline fallback.                    *)
(*                                                                         *)
(* The backend (which tokens are revoked, which agents deleted) and the    *)
(* network are outside the repository: a call fails at any time, and a     *)
(* call that is answered is answered from the backend's state.  Each       *)
(* network call, keychain write and critical section is a step.            *)
(***************************************************************************)
EXTENDS FiniteSets

CONSTANTS
    Requests,     \* request goroutines that present a token
    Tokens,       \* token strings
    Holds,        \* Holds[r]: the tokens the client behind request r may present
    Agents,       \* agent names
    Issued,       \* tokens the backend has issued; the others are made up
    AgentOf,      \* the agent a token was issued to
    OutOfScope,   \* tokens of another workspace, project or environment
    NoToken, NoEntry

ASSUME RevocationAssumption ==
    /\ Issued \subseteq Tokens
    /\ OutOfScope \subseteq Tokens
    /\ Holds \in [Requests -> SUBSET Tokens]
    /\ AgentOf \in [Tokens -> Agents]
    /\ NoToken \notin Tokens

VARIABLES
    revoked,      \* backend: tokens that have been revoked
    deleted,      \* backend: agents that have been deleted
    kcToken,      \* keychain: the token saved for each agent
    kcCaps,       \* keychain: agents whose capabilities are saved
    cache,        \* TokenCache.tokens, without the entries older than the TTL
    listed,       \* Engine.RevokedIDs
    syncer,       \* what the holder of the engine's lock is doing in Sync
    pc, tok, entry,  \* per request: location, token, the *CachedToken in hand
    knew,         \* history: the token was listed when the request came in
    validated     \* history: tokens the backend has called valid

backendVars == <<revoked, deleted>>
keychainVars == <<kcToken, kcCaps>>
syncVars == <<listed, syncer>>
requestVars == <<pc, tok, entry, knew>>
vars == <<backendVars, keychainVars, cache, syncVars, requestVars, validated>>

-----------------------------------------------------------------------------
(* Identifiers.  The backend lists token IDs and agent IDs.  An entry made *)
(* from the keychain has neither: its token ID is "cached_" and the name,  *)
(* its agent ID the name itself.                                           *)

TokenId(t) == [kind |-> "token", of |-> t]
AgentId(a) == [kind |-> "agent", of |-> a]
CachedId(a) == [kind |-> "cached", of |-> a]
NameId(a) == [kind |-> "name", of |-> a]

ListedIds == {TokenId(t) : t \in Tokens} \union {AgentId(a) : a \in Agents}

\* CachedToken, as the backend's answer gives it and as the fallback builds it
\* (which sets no workspace, project or environment, so any scope matches).
OnlineEntry(t) ==
    [tokenId |-> TokenId(t), agentId |-> AgentId(AgentOf[t]),
     agent |-> AgentOf[t], inScope |-> t \notin OutOfScope]
FallbackEntry(a) ==
    [tokenId |-> CachedId(a), agentId |-> NameId(a), agent |-> a, inScope |-> TRUE]

Entries == {OnlineEntry(t) : t \in Tokens} \union {FallbackEntry(a) : a \in Agents}

FromFallback(e) == \E a \in Agents : e = FallbackEntry(a)

\* Mutant: only the agent's ID is looked up in the list.
IsListedAgent(e, ids) == e.agentId \in ids

IsListed(e, ids) == e.tokenId \in ids \/ e.agentId \in ids

\* Mutant: the list holds the tokens themselves instead of their IDs.
RevocationListRaw == revoked \union deleted

\* What the backend answers to agents.token_revoked.
RevocationList == {TokenId(t) : t \in revoked} \union {AgentId(a) : a \in deleted}

Locations == {"idle", "lookup", "call", "fallback", "save", "store", "check",
              "accepted", "blocked", "error"}

TypeOK ==
    /\ revoked \subseteq Issued /\ deleted \subseteq Agents
    /\ kcToken \in [Agents -> Tokens \union {NoToken}]
    /\ kcCaps \subseteq Agents
    /\ cache \in [Tokens -> Entries \union {NoEntry}]
    /\ listed \subseteq ListedIds
    /\ syncer \in {"idle", "fetching", "purge"}
    /\ pc \in [Requests -> Locations]
    /\ tok \in [Requests -> Tokens \union {NoToken}]
    /\ entry \in [Requests -> Entries \union {NoEntry}]
    /\ knew \in [Requests -> BOOLEAN]
    /\ validated \subseteq Tokens

Init ==
    /\ revoked = {} /\ deleted = {}
    /\ kcToken = [a \in Agents |-> NoToken] /\ kcCaps = {}
    /\ cache = [t \in Tokens |-> NoEntry]
    /\ listed = {} /\ syncer = "idle"
    /\ pc = [r \in Requests |-> "idle"]
    /\ tok = [r \in Requests |-> NoToken]
    /\ entry = [r \in Requests |-> NoEntry]
    /\ knew = [r \in Requests |-> FALSE]
    /\ validated = {}

-----------------------------------------------------------------------------
(* The backend and time.                                                   *)

RevokeToken(t) ==
    /\ t \in Issued \ revoked
    /\ revoked' = revoked \union {t}
    /\ UNCHANGED <<deleted, keychainVars, cache, syncVars, requestVars, validated>>

\* Deleting an agent revokes its tokens.
DeleteAgent(a) ==
    /\ a \notin deleted
    /\ deleted' = deleted \union {a}
    /\ revoked' = revoked \union {t \in Issued : AgentOf[t] = a}
    /\ UNCHANGED <<keychainVars, cache, syncVars, requestVars, validated>>

\* The five minutes of a cache entry are over: to Validate it is as good as absent.
EntryAges(t) ==
    /\ cache[t] # NoEntry
    /\ cache' = [cache EXCEPT ![t] = NoEntry]
    /\ UNCHANGED <<backendVars, keychainVars, syncVars, requestVars, validated>>

-----------------------------------------------------------------------------
(* resolveIdentity and TokenCache.Validate, for one request.               *)

Go(r, from, to) ==
    /\ pc[r] = from
    /\ pc' = [pc EXCEPT ![r] = to]

\* resolveIdentity returns without an identity; its locals are gone.
Refuse(r, from, verdict) ==
    /\ Go(r, from, verdict)
    /\ tok' = [tok EXCEPT ![r] = NoToken]
    /\ entry' = [entry EXCEPT ![r] = NoEntry]
    /\ knew' = [knew EXCEPT ![r] = FALSE]

\* It returns the entry as the request's identity.
Accept(r) == Go(r, "check", "accepted") /\ UNCHANGED <<tok, entry, knew>>

\* The request presents token t.
Present(r, t) ==
    /\ Go(r, "idle", "lookup")
    /\ tok' = [tok EXCEPT ![r] = t]
    /\ entry' = [entry EXCEPT ![r] = NoEntry]
    /\ knew' = [knew EXCEPT ![r] = TokenId(t) \in listed]
    /\ UNCHANGED <<backendVars, keychainVars, cache, syncVars, validated>>

\* The request names an agent (<AGENT>_TOKEN): the token comes from the keychain.
PresentReference(r, a) ==
    \/ /\ kcToken[a] # NoToken
       /\ Present(r, kcToken[a])
    \/ /\ kcToken[a] = NoToken
       /\ Refuse(r, "idle", "error")
       /\ UNCHANGED <<backendVars, keychainVars, cache, syncVars, validated>>

\* TokenCache.Validate: a fresh entry is used as it is.  (Daemon and transient
\* proxies always have an API client; without one Validate would just fail.)
Lookup(r) ==
    /\ pc[r] = "lookup"
    /\ \/ /\ cache[tok[r]] # NoEntry
          /\ entry' = [entry EXCEPT ![r] = cache[tok[r]]]
          /\ pc' = [pc EXCEPT ![r] = "check"]
       \/ /\ cache[tok[r]] = NoEntry
          /\ pc' = [pc EXCEPT ![r] = "call"]
          /\ UNCHANGED entry
    /\ UNCHANGED <<backendVars, keychainVars, cache, syncVars, tok, knew, validated>>

\* agents.token_validate answers from the backend's state at that moment.
CallAccepted(r) ==
    /\ tok[r] \in Issued \ revoked
    /\ Go(r, "call", "save")
    /\ entry' = [entry EXCEPT ![r] = OnlineEntry(tok[r])]
    /\ validated' = validated \union {tok[r]}
    /\ UNCHANGED <<backendVars, keychainVars, cache, syncVars, tok, knew>>

\* Not valid, or a 4xx answer of any other kind.
CallRejected(r) ==
    /\ Refuse(r, "call", "error")
    /\ UNCHANGED <<backendVars, keychainVars, cache, syncVars, validated>>

\* Network error or 5xx.
CallFails(r) ==
    /\ Go(r, "call", "fallback")
    /\ UNCHANGED <<backendVars, keychainVars, cache, syncVars, tok, entry, knew, validated>>

\* Mutant: any agent whose capabilities are saved stands in for the token's agent.
FallbackAnyAgent(r) ==
    /\ \/ \E a \in kcCaps :
             /\ Go(r, "fallback", "store")
             /\ entry' = [entry EXCEPT ![r] = FallbackEntry(a)]
             /\ UNCHANGED <<tok, knew>>
       \/ kcCaps = {} /\ Refuse(r, "fallback", "error")
    /\ UNCHANGED <<backendVars, keychainVars, cache, syncVars, validated>>

\* The agent whose saved token is this one, if its capabilities are saved too.
Fallback(r) ==
    LET known == {a \in kcCaps : kcToken[a] = tok[r]}
    IN  /\ \/ \E a \in known :
                 /\ Go(r, "fallback", "store")
                 /\ entry' = [entry EXCEPT ![r] = FallbackEntry(a)]
                 /\ UNCHANGED <<tok, knew>>
           \/ known = {} /\ Refuse(r, "fallback", "error")
        /\ UNCHANGED <<backendVars, keychainVars, cache, syncVars, validated>>

\* Two keychain writes, errors ignored.
SaveToKeychain(r) ==
    /\ Go(r, "save", "store")
    /\ kcToken' \in {kcToken, [kcToken EXCEPT ![entry[r].agent] = tok[r]]}
    /\ kcCaps' \in {kcCaps, kcCaps \union {entry[r].agent}}
    /\ UNCHANGED <<backendVars, cache, syncVars, tok, entry, knew, validated>>

StoreInCache(r) ==
    /\ Go(r, "store", "check")
    /\ cache' = [cache EXCEPT ![tok[r]] = entry[r]]
    /\ UNCHANGED <<backendVars, keychainVars, syncVars, tok, entry, knew, validated>>

\* Mutant: the scope restrictions are not compared.
CheckNoScope(r) ==
    /\ pc[r] = "check"
    /\ listed = {} \/ syncer = "idle"
    /\ IF ~IsListed(entry[r], listed) THEN Accept(r) ELSE Refuse(r, "check", "blocked")
    /\ UNCHANGED <<backendVars, keychainVars, cache, syncVars, validated>>

\* IsTokenRevoked waits for the engine's lock, which Sync holds during its
\* network call, unless it finds the list empty; then the scope is compared.
CheckRevocation(r) ==
    /\ pc[r] = "check"
    /\ listed = {} \/ syncer = "idle"
    /\ IF ~IsListed(entry[r], listed) /\ entry[r].inScope
         THEN Accept(r)
         ELSE Refuse(r, "check", "blocked")
    /\ UNCHANGED <<backendVars, keychainVars, cache, syncVars, validated>>

Finish(r) ==
    /\ pc[r] \in {"accepted", "blocked", "error"}
    /\ pc' = [pc EXCEPT ![r] = "idle"]
    /\ tok' = [tok EXCEPT ![r] = NoToken]
    /\ entry' = [entry EXCEPT ![r] = NoEntry]
    /\ knew' = [knew EXCEPT ![r] = FALSE]
    /\ UNCHANGED <<backendVars, keychainVars, cache, syncVars, validated>>

-----------------------------------------------------------------------------
(* Engine.Sync, under the engine's lock from start to end.                 *)

SyncStart ==
    /\ syncer = "idle"
    /\ syncer' = "fetching"
    /\ UNCHANGED <<backendVars, keychainVars, cache, listed, requestVars, validated>>

\* Mutant: a failed fetch leaves an empty list.
SyncFailsClears ==
    /\ syncer = "fetching"
    /\ syncer' = "idle"
    /\ listed' = {}
    /\ UNCHANGED <<backendVars, keychainVars, cache, requestVars, validated>>

SyncFails ==
    /\ syncer = "fetching"
    /\ syncer' = "idle"
    /\ UNCHANGED <<backendVars, keychainVars, cache, listed, requestVars, validated>>

\* Mutant: the answer only purges the cache and is then forgotten.
SyncAnswerForgets ==
    /\ syncer = "fetching"
    /\ syncer' = "purge"
    /\ UNCHANGED <<backendVars, keychainVars, cache, listed, requestVars, validated>>

\* The answer becomes the list.
SyncAnswer ==
    /\ syncer = "fetching"
    /\ syncer' = "purge"
    /\ listed' = RevocationList
    /\ UNCHANGED <<backendVars, keychainVars, cache, requestVars, validated>>

SyncPurge ==
    /\ syncer = "purge"
    /\ syncer' = "idle"
    /\ cache' = [t \in Tokens |->
                    IF cache[t] # NoEntry /\ IsListed(cache[t], listed) THEN NoEntry ELSE cache[t]]
    /\ UNCHANGED <<backendVars, keychainVars, listed, requestVars, validated>>

\* The daemon stops and is started again: what it kept in memory is gone.
Restart ==
    /\ cache' = [t \in Tokens |-> NoEntry]
    /\ listed' = {} /\ syncer' = "idle"
    /\ pc' = [r \in Requests |-> "idle"]
    /\ tok' = [r \in Requests |-> NoToken]
    /\ entry' = [r \in Requests |-> NoEntry]
    /\ knew' = [r \in Requests |-> FALSE]
    /\ UNCHANGED <<backendVars, keychainVars, validated>>

-----------------------------------------------------------------------------

Validate(r) ==
    \/ Lookup(r)
    \/ CallAccepted(r) \/ CallRejected(r) \/ CallFails(r)
    \/ Fallback(r)
    \/ SaveToKeychain(r)
    \/ StoreInCache(r)

Sync == SyncStart \/ SyncFails \/ SyncAnswer \/ SyncPurge

Next ==
    \/ \E t \in Tokens : RevokeToken(t) \/ EntryAges(t)
    \/ \E a \in Agents : DeleteAgent(a)
    \/ \E r \in Requests :
          \/ \E t \in Holds[r] : Present(r, t)
          \/ \E a \in Agents : PresentReference(r, a)
          \/ Validate(r)
          \/ CheckRevocation(r)
          \/ Finish(r)
    \/ Sync
    \/ Restart

Spec == Init /\ [][Next]_vars

\* Sync is attempted again and again (runPeriodic), and its network call is
\* answered at some time if it is attempted for ever.
Fairness == WF_vars(SyncStart) /\ SF_vars(SyncAnswer) /\ WF_vars(SyncPurge)

FairSpec == Spec /\ Fairness

-----------------------------------------------------------------------------
(* Properties.                                                             *)

\* Whatever the network does, a token is accepted only if the backend has called
\* that very token valid at some time, to this machine: a made-up token, or one
\* revoked before it was ever used here, does not get in through the cache or
\* through the keychain fallback.
AcceptedWasValidated ==
    \A r \in Requests : pc[r] = "accepted" => tok[r] \in validated

\* A request that came in when its token was already on the revocation list is
\* accepted on a keychain-fallback entry or not at all: an entry the backend gave,
\* even one stored after the purge by a validation that overtook it, is caught by
\* the check against the list.
ListedOnlyViaFallback ==
    \A r \in Requests :
        pc[r] = "accepted" /\ knew[r] => FromFallback(entry[r])

\* A token of another workspace, project or environment is accepted on a
\* fallback entry (which has lost the scope) or not at all.
ScopeLostOnlyOffline ==
    \A r \in Requests :
        pc[r] = "accepted" /\ tok[r] \in OutOfScope => FromFallback(entry[r])

\* engine.go:1050-1051: a failed fetch keeps the list; as the backend takes no
\* revocation back, the list of a running daemon never loses an ID.
ListNeverShrinks == [][Restart \/ listed \subseteq listed']_vars

\* The list catches up: a revoked token is listed some time after its revocation
\* (if the backend can be reached), whatever requests and restarts do.
RevocationIsLearned ==
    \A t \in Tokens : t \in revoked ~> TokenId(t) \in listed

\* engine.go:1050-1051, "a transient network failure never silently re-authorizes
\* a revoked token", and engine.go:446-447, a revoked token "is blocked even if
\* its capabilities are still cached locally".  It does NOT hold: the fallback
\* entry carries an ID that is never listed.
RevokedStaysBlocked ==
    \A r \in Requests : knew[r] => pc[r] # "accepted"
=============================================================================
