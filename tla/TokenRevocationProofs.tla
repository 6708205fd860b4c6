----------------------- MODULE TokenRevocationProofs -----------------------
(***************************************************************************)
(* Theorems about TokenRevocation, for any requests, tokens and agents.    *)
(*                                                                         *)
(* The inductive invariant says where an accepted token may come from: all *)
(* that the cache, the keychain and a request under way hold was called    *)
(* valid by the backend before, and what they hold for a token is either   *)
(* the backend's own entry for it or a fallback entry.                     *)
(***************************************************************************)
EXTENDS TokenRevocation, TLAPS

\* An entry a request or the cache may hold for token t.
Sound(e, t) ==
    /\ t \in validated
    /\ e = OnlineEntry(t) \/ FromFallback(e)

CacheIsSound == \A t \in Tokens : cache[t] # NoEntry => Sound(cache[t], t)

KeychainIsSound == \A a \in Agents : kcToken[a] # NoToken => kcToken[a] \in validated

\* What a request has in hand at each stage of resolveIdentity.
RequestIsSound ==
    \A r \in Requests :
        /\ pc[r] \in {"lookup", "call", "fallback", "save", "store", "check"} =>
              tok[r] \in Tokens
        /\ pc[r] = "save" => entry[r] = OnlineEntry(tok[r]) /\ tok[r] \in validated
        /\ pc[r] \in {"store", "check", "accepted"} => Sound(entry[r], tok[r])
        /\ pc[r] = "accepted" => entry[r].inScope

\* The list never says more than the backend does, and what a request knew to be
\* listed is listed still.
ListIsCurrent ==
    /\ listed \subseteq RevocationList
    /\ \A r \in Requests : knew[r] => TokenId(tok[r]) \in listed

Inv ==
    /\ TypeOK
    /\ CacheIsSound
    /\ KeychainIsSound
    /\ RequestIsSound
    /\ ListIsCurrent
    /\ ListedOnlyViaFallback

-----------------------------------------------------------------------------
(* Facts about identifiers and entries.                                    *)

\* Entries have the type of entries, and say what resolveIdentity compares.
LEMMA EntryFacts ==
    /\ \A t \in Tokens : /\ OnlineEntry(t) \in Entries
                         /\ OnlineEntry(t).tokenId = TokenId(t)
                         /\ OnlineEntry(t).agent \in Agents
                         /\ OnlineEntry(t).inScope => t \notin OutOfScope
    /\ \A a \in Agents : FallbackEntry(a) \in Entries /\ FromFallback(FallbackEntry(a))
<1> QED
  BY RevocationAssumption DEF Entries, OnlineEntry, FallbackEntry, FromFallback

\* The backend's list is made of the IDs that are there to be listed.
LEMMA ListIsTyped ==
    ASSUME revoked \subseteq Tokens, deleted \subseteq Agents
    PROVE  RevocationList \subseteq ListedIds
<1> QED
  BY DEF RevocationList, ListedIds

LEMMA InitInv == Init => Inv
<1> SUFFICES ASSUME Init PROVE Inv
  OBVIOUS
<1> QED
  BY DEF Init, Inv, TypeOK, Locations, CacheIsSound, KeychainIsSound, RequestIsSound,
         ListIsCurrent, ListedOnlyViaFallback

-----------------------------------------------------------------------------
(* Every step keeps the invariant.                                         *)

LEMMA NextInv == Inv /\ [Next]_vars => Inv'
<1> SUFFICES ASSUME Inv, [Next]_vars PROVE Inv'
  OBVIOUS
<1> USE EntryFacts, RevocationAssumption
<1> USE DEF Inv, TypeOK, Locations, CacheIsSound, KeychainIsSound, RequestIsSound,
            ListIsCurrent, ListedOnlyViaFallback, Sound, Go, Refuse,
            backendVars, keychainVars, syncVars, requestVars
<1>1. ASSUME NEW t \in Tokens, RevokeToken(t) PROVE Inv'
  BY <1>1 DEF RevokeToken, RevocationList
<1>2. ASSUME NEW a \in Agents, DeleteAgent(a) PROVE Inv'
  BY <1>2 DEF DeleteAgent, RevocationList
<1>3. ASSUME NEW t \in Tokens, EntryAges(t) PROVE Inv'
  BY <1>3 DEF EntryAges, RevocationList
<1>4. ASSUME NEW r \in Requests, NEW t \in Tokens, Present(r, t) PROVE Inv'
  <2>1. (TokenId(t) \in listed) \in BOOLEAN
    OBVIOUS
  <2>2. knew' \in [Requests -> BOOLEAN]
    BY <1>4, <2>1, Zenon DEF Present
  <2>3. TypeOK'
    BY <1>4, <2>2 DEF Present
  <2>4. ListIsCurrent'
    BY <1>4 DEF Present, RevocationList
  <2> QED
    BY <1>4, <2>3, <2>4 DEF Present
<1>5. ASSUME NEW r \in Requests, NEW a \in Agents, PresentReference(r, a) PROVE Inv'
  <2>1. CASE kcToken[a] # NoToken /\ Present(r, kcToken[a])
    BY <1>4, <2>1
  <2>2. CASE Refuse(r, "idle", "error") /\ UNCHANGED <<backendVars, keychainVars, cache,
                                                       syncVars, validated>>
    BY <2>2 DEF RevocationList
  <2> QED
    BY <1>5, <2>1, <2>2 DEF PresentReference
<1>6. ASSUME NEW r \in Requests, Lookup(r) PROVE Inv'
  BY <1>6 DEF Lookup, RevocationList
<1>7. ASSUME NEW r \in Requests, CallAccepted(r) PROVE Inv'
  BY <1>7 DEF CallAccepted, RevocationList
<1>8. ASSUME NEW r \in Requests, CallRejected(r) PROVE Inv'
  BY <1>8 DEF CallRejected, RevocationList
<1>9. ASSUME NEW r \in Requests, CallFails(r) PROVE Inv'
  BY <1>9 DEF CallFails, RevocationList
<1>10. ASSUME NEW r \in Requests, Fallback(r) PROVE Inv'
  <2>1. ASSUME NEW a \in kcCaps, kcToken[a] = tok[r],
               Go(r, "fallback", "store"), entry' = [entry EXCEPT ![r] = FallbackEntry(a)],
               UNCHANGED <<tok, knew, backendVars, keychainVars, cache, syncVars, validated>>
        PROVE  Inv'
    <3>1. a \in Agents /\ tok[r] \in validated
      BY <2>1
    <3> QED
      BY <2>1, <3>1 DEF RevocationList
  <2>2. CASE Refuse(r, "fallback", "error") /\ UNCHANGED <<backendVars, keychainVars, cache,
                                                           syncVars, validated>>
    BY <2>2 DEF RevocationList
  <2> QED
    BY <1>10, <2>1, <2>2 DEF Fallback
<1>11. ASSUME NEW r \in Requests, SaveToKeychain(r) PROVE Inv'
  BY <1>11 DEF SaveToKeychain, RevocationList
<1>12. ASSUME NEW r \in Requests, StoreInCache(r) PROVE Inv'
  BY <1>12 DEF StoreInCache, RevocationList
<1>13. ASSUME NEW r \in Requests, CheckRevocation(r) PROVE Inv'
  <2>1. CASE Accept(r) /\ ~IsListed(entry[r], listed) /\ entry[r].inScope
    <3>1. knew[r] => entry[r] # OnlineEntry(tok[r])
      BY <1>13, <2>1 DEF CheckRevocation, IsListed
    <3>2. pc[r] = "check" /\ (knew[r] => FromFallback(entry[r]))
      BY <2>1, <3>1 DEF Accept
    <3> QED
      BY <1>13, <2>1, <3>2 DEF CheckRevocation, Accept, RevocationList
  <2>2. CASE Refuse(r, "check", "blocked")
    BY <1>13, <2>2 DEF CheckRevocation, RevocationList
  <2> QED
    BY <1>13, <2>1, <2>2 DEF CheckRevocation
<1>14. ASSUME NEW r \in Requests, Finish(r) PROVE Inv'
  BY <1>14 DEF Finish, RevocationList
<1>15. CASE SyncStart \/ SyncFails
  BY <1>15 DEF SyncStart, SyncFails, RevocationList
<1>16. CASE SyncAnswer
  BY <1>16, ListIsTyped DEF SyncAnswer, RevocationList
<1>17. CASE SyncPurge
  BY <1>17 DEF SyncPurge, RevocationList
<1>18. CASE Restart
  BY <1>18 DEF Restart, RevocationList
<1>19. CASE UNCHANGED vars
  BY <1>19 DEF vars, RevocationList
<1>20. \A r \in Requests : Holds[r] \subseteq Tokens
  BY RevocationAssumption
<1> QED
  BY <1>1, <1>2, <1>3, <1>4, <1>5, <1>6, <1>7, <1>8, <1>9, <1>10, <1>11, <1>12,
     <1>13, <1>14, <1>15, <1>16, <1>17, <1>18, <1>19, <1>20
  DEF Next, Validate, Sync

LEMMA AlwaysInv == Spec => []Inv
<1> QED
  BY InitInv, NextInv, PTL DEF Spec

-----------------------------------------------------------------------------

\* Every variable keeps its range.
THEOREM TypeCorrect == Spec => []TypeOK
<1>1. Inv => TypeOK
  BY DEF Inv
<1> QED
  BY <1>1, AlwaysInv, PTL

\* However the network fails and whatever the cache and the keychain remember, a
\* token that is accepted was called valid by the backend at some time.
THEOREM OnlyValidatedTokens == Spec => []AcceptedWasValidated
<1>1. Inv => AcceptedWasValidated
  BY DEF Inv, RequestIsSound, Sound, AcceptedWasValidated
<1> QED
  BY <1>1, AlwaysInv, PTL

\* The keychain fallback is the only way in for a token that was listed when
\* its request came in.
THEOREM ListedNeedsFallback == Spec => []ListedOnlyViaFallback
<1>1. Inv => ListedOnlyViaFallback
  BY DEF Inv
<1> QED
  BY <1>1, AlwaysInv, PTL

\* The keychain fallback is the only way in for a token of another scope.
THEOREM ScopeNeedsFallback == Spec => []ScopeLostOnlyOffline
<1>1. Inv => ScopeLostOnlyOffline
  <2> SUFFICES ASSUME Inv, NEW r \in Requests, pc[r] = "accepted", tok[r] \in OutOfScope
               PROVE  FromFallback(entry[r])
    BY DEF ScopeLostOnlyOffline
  <2>1. Sound(entry[r], tok[r]) /\ entry[r].inScope
    BY DEF Inv, RequestIsSound
  <2>2. entry[r] # OnlineEntry(tok[r])
    BY <2>1, EntryFacts, RevocationAssumption
  <2> QED
    BY <2>1, <2>2 DEF Sound
<1> QED
  BY <1>1, AlwaysInv, PTL

\* No step of a running daemon, a failed fetch included, takes an ID off its list.
THEOREM ListGrows == Spec => ListNeverShrinks
<1>1. Inv /\ [Next]_vars => [Restart \/ listed \subseteq listed']_vars
  <2> SUFFICES ASSUME Inv, Next PROVE Restart \/ listed \subseteq listed'
    OBVIOUS
  <2>1. CASE SyncAnswer
    BY <2>1 DEF SyncAnswer, Inv, ListIsCurrent
  <2>2. CASE SyncStart \/ SyncFails \/ SyncPurge
    BY <2>2 DEF SyncStart, SyncFails, SyncPurge
  <2>3. ASSUME NEW t \in Tokens, RevokeToken(t) \/ EntryAges(t)
        PROVE  listed \subseteq listed'
    BY <2>3 DEF RevokeToken, EntryAges, syncVars
  <2>4. ASSUME NEW a \in Agents, DeleteAgent(a) PROVE listed \subseteq listed'
    BY <2>4 DEF DeleteAgent, syncVars
  <2>5. ASSUME NEW r \in Requests,
               \/ \E t \in Holds[r] : Present(r, t)
               \/ \E a \in Agents : PresentReference(r, a)
               \/ Validate(r) \/ CheckRevocation(r) \/ Finish(r)
        PROVE  listed \subseteq listed'
    BY <2>5 DEF Present, PresentReference, Validate, Lookup, CallAccepted, CallRejected,
                CallFails, Fallback, SaveToKeychain, StoreInCache, CheckRevocation,
                Finish, syncVars
  <2> QED
    BY <2>1, <2>2, <2>3, <2>4, <2>5 DEF Next, Sync
<1> QED
  BY <1>1, AlwaysInv, PTL DEF Spec, ListNeverShrinks
=============================================================================
