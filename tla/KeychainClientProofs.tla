------------------------ MODULE KeychainClientProofs ------------------------
(***************************************************************************)
(* Theorems about KeychainClient, for any goroutines, items, writes and    *)
(* programs.                                                               *)
(*                                                                         *)
(* That a value read or cached is not a stale one rests on four facts: the *)
(* view of the moment is among those seen since the last own write or      *)
(* reset (SinceIsCurrent); it is among those a caller with a plaintext     *)
(* read under way has been watching, and the answer it gets is too         *)
(* (ReadIsWatched); those a write has been watching since the daemon       *)
(* applied it contain it (WriteIsWatched); and an answer that is on its    *)
(* way to the cache is one seen since the last own write or reset, unless  *)
(* that crossed the read (FillIsCurrent).                                  *)
(***************************************************************************)
EXTENDS KeychainClient, TLAPS

Succeeded(g) == pc[g] = "served" /\ reply[g].status = "success"

\* What kind of call is where, and with what answer.
CallIsTyped(g) ==
    /\ pc[g] \in {"lookup", "put"} => IsRead(g) /\ op[g].key \in CacheKeys
    /\ pc[g] = "invalidate" => ~IsRead(g)
    /\ pc[g] = "served" => reply[g].status # "none"
    /\ pc[g] = "put" => reply[g].value \in Views \ {Absent}
    /\ Succeeded(g) /\ IsRead(g) => reply[g].value \in Views

SinceIsCurrent == \A k \in CacheKeys : View(store, k) \in since[k]

ReadIsWatched(g) ==
    IsRead(g) /\ pc[g] # "idle" /\ op[g].key \notin CacheKeys =>
       /\ View(store, op[g].key) \in window[g][op[g].key]
       /\ Succeeded(g) \/ pc[g] = "returned" => reply[g].value \in window[g][op[g].key]

WriteIsWatched(g) ==
    ~IsRead(g) /\ (Succeeded(g) \/ pc[g] = "invalidate") =>
       \A k \in CacheKeys : View(store, k) \in window[g][k]

FillIsCurrent(g) ==
    IsRead(g) /\ (Succeeded(g) \/ pc[g] = "put") /\ g \notin crossed
          /\ op[g].key \in CacheKeys =>
       reply[g].value \in since[op[g].key]

CallsAreTyped == \A g \in Callers : CallIsTyped(g)

-----------------------------------------------------------------------------
(* Types.                                                                  *)

LEMMA ViewsAreTyped ==
    ASSUME NEW s \in [Items -> Values \union {Absent}], NEW k \in Keys
    PROVE  View(s, k) \in Views
<1>1. CASE k = Names
  <2>1. {i \in Items \ Metadata : s[i] # Absent} \in SUBSET Items
    OBVIOUS
  <2>2. Listing(s) \in Listings
    BY <2>1 DEF Listing, Listings
  <2> QED
    BY <1>1, <2>2 DEF View, Views
<1>2. CASE k # Names
  BY <1>2 DEF View, Views, Keys
<1> QED
  BY <1>1, <1>2

LEMMA UpdatesAreTyped ==
    ASSUME NEW s \in [Items -> Values \union {Absent}], NEW w \in Writes
    PROVE  Updated(s, w) \in [Items -> Values \union {Absent}]
<1>1. \A i \in DOMAIN w : w[i] \in Values \union {Absent}
  BY ClientAssumption
<1> QED
  BY <1>1 DEF Updated

LEMMA OpsAreTyped ==
    /\ Idle \in Ops
    /\ \A o \in Reads : o.key \in Keys /\ o.kind = "read"
    /\ \A o \in Ops : o \notin Reads => o.write \in Writes
    /\ \A k \in CacheKeys : k \in Keys
<1>1. [kind |-> "read", key |-> Names] \in Ops
  BY DEF Ops, Reads, Keys
<1>2. Idle \in Ops
  BY <1>1 DEF Idle
<1>3. \A k \in CacheKeys : k \in Keys
  BY ClientAssumption DEF CacheKeys, Keys
<1> QED
  BY <1>2, <1>3 DEF Ops, Reads

\* The histories that a change of the keychain to s makes.
LEMMA HistoriesAreTyped ==
    ASSUME TypeOK, NEW s \in [Items -> Values \union {Absent}]
    PROVE  /\ Now(s) \in [CacheKeys -> SUBSET Views]
           /\ Observed(s) \in [CacheKeys -> SUBSET Views]
           /\ Watched(s) \in [Callers -> [Keys -> SUBSET Views]]
           /\ \A K \in SUBSET Keys : Opened(s, K) \in [Keys -> SUBSET Views]
           /\ NoViews \in [Keys -> SUBSET Views]
<1>1. \A k \in Keys : View(s, k) \in Views
  BY ViewsAreTyped
<1>2. \A k \in CacheKeys : View(s, k) \in Views
  BY <1>1, OpsAreTyped
<1>3. Now(s) \in [CacheKeys -> SUBSET Views]
  BY <1>2 DEF Now
<1>4. Observed(s) \in [CacheKeys -> SUBSET Views]
  BY <1>2 DEF Observed, TypeOK
<1>5. Watched(s) \in [Callers -> [Keys -> SUBSET Views]]
  BY <1>1 DEF Watched, TypeOK
<1>6. \A K \in SUBSET Keys : Opened(s, K) \in [Keys -> SUBSET Views]
  BY <1>1 DEF Opened
<1> QED
  BY <1>3, <1>4, <1>5, <1>6 DEF NoViews

LEMMA ResetIsTyped ==
    ASSUME TypeOK, NEW c \in {"none", "live", "broken"}, ResetTo(c)
    PROVE  /\ conn' \in {"none", "live", "broken"}
           /\ cache' \in [Keys -> (Views \ {Absent}) \union {NoEntry}]
           /\ since' \in [CacheKeys -> SUBSET Views]
           /\ crossed' \in SUBSET Callers /\ late' \in SUBSET Keys
<1>1. since' \in [CacheKeys -> SUBSET Views]
  BY HistoriesAreTyped DEF ResetTo, TypeOK
<1>2. cache' \in [Keys -> (Views \ {Absent}) \union {NoEntry}]
  BY DEF ResetTo, NoCache
<1> QED
  BY <1>1, <1>2 DEF ResetTo, TypeOK, Filling

LEMMA FaultsAreBounded == TypeOK /\ Fault => faults' \in 0 .. MaxFaults
<1> QED
  BY ClientAssumption DEF TypeOK, Fault

LEMMA TypeStep ==
    ASSUME TypeOK, CallsAreTyped, [Next]_vars
    PROVE  TypeOK'
<1> USE DEF TypeOK, daemonVars, callVars, history, others, Go, Locations, Exchange
<1>1. CASE DaemonStops \/ DaemonStarts \/ Deregister
  <2>1. CASE DaemonStops
    <3>1. daemon' \in BOOLEAN /\ faults' \in 0 .. MaxFaults
      BY <2>1, FaultsAreBounded DEF DaemonStops
    <3>2. conn' \in {"none", "live", "broken"}
      BY <2>1 DEF DaemonStops
    <3>3. UNCHANGED <<store, granted, cache, others, history>>
      BY <2>1 DEF DaemonStops
    <3> QED
      BY <3>1, <3>2, <3>3
  <2>2. CASE DaemonStarts
    BY <2>2 DEF DaemonStarts
  <2>3. CASE Deregister
    <3>1. granted' \in BOOLEAN /\ faults' \in 0 .. MaxFaults
      BY <2>3, FaultsAreBounded DEF Deregister
    <3>2. UNCHANGED <<store, daemon, conn, cache, others, history>>
      BY <2>3 DEF Deregister
    <3> QED
      BY <3>1, <3>2
  <2> QED
    BY <1>1, <2>1, <2>2, <2>3
<1>2. CASE Close
  <2>1. ResetTo("none") /\ Fault /\ UNCHANGED <<store, daemon, granted, others, window>>
    BY <1>2 DEF Close
  <2> QED
    BY <2>1, ResetIsTyped, FaultsAreBounded
<1>3. ASSUME NEW w \in Writes, Foreign(w) PROVE TypeOK'
  <2>1. store' \in [Items -> Values \union {Absent}]
    BY <1>3, UpdatesAreTyped DEF Foreign
  <2>2. since' \in [CacheKeys -> SUBSET Views] /\ window' \in [Callers -> [Keys -> SUBSET Views]]
    BY <1>3, <2>1, HistoriesAreTyped DEF Foreign
  <2> QED
    BY <1>3, <2>1, <2>2, FaultsAreBounded DEF Foreign
<1>4. ASSUME NEW k \in Keys, EntryAges(k) PROVE TypeOK'
  BY <1>4 DEF EntryAges
<1>5. ASSUME NEW g \in Callers, NEW o \in Ops, Call(g, o) PROVE TypeOK'
  <2>1. \A K \in SUBSET Keys : Opened(store, K) \in [Keys -> SUBSET Views]
    BY HistoriesAreTyped
  <2>2. (IF o \in Reads THEN {o.key} \ CacheKeys ELSE {}) \in SUBSET Keys
    BY OpsAreTyped
  <2>3. window' \in [Callers -> [Keys -> SUBSET Views]]
    BY <1>5, <2>1, <2>2 DEF Call
  <2> QED
    BY <1>5, <2>3 DEF Call
<1>6. ASSUME NEW g \in Callers, Lookup(g) PROVE TypeOK'
  <2>1. op[g].key \in Keys
    BY <1>6, OpsAreTyped DEF Lookup, CallsAreTyped, CallIsTyped, IsRead
  <2> QED
    BY <1>6, <2>1 DEF Lookup, Answer
<1>7. ASSUME NEW g \in Callers, Acquire(g) \/ Send(g) \/ Receive(g) PROVE TypeOK'
  <2>1. CASE Acquire(g)
    BY <2>1 DEF Acquire
  <2>2. CASE Send(g)
    BY <2>2 DEF Send
  <2>3. CASE Receive(g)
    BY <2>3 DEF Receive, Outcome
  <2> QED
    BY <1>7, <2>1, <2>2, <2>3
<1>8. ASSUME NEW g \in Callers, SendFails(g) \/ ReceiveFails(g) PROVE TypeOK'
  <2>1. CASE GiveUp(g)
    BY <2>1, ResetIsTyped DEF GiveUp
  <2>2. ASSUME NEW b \in BOOLEAN, Reconnect(g, b) PROVE TypeOK'
    <3>1. CASE ResetTo("live") /\ UNCHANGED <<daemonVars, mu, repair, op, reply, repaired, window>>
      BY <2>2, <3>1, <2>1, ResetIsTyped DEF Reconnect
    <3> QED
      BY <2>1, <2>2, <3>1 DEF Reconnect
  <2> QED
    BY <1>8, <2>1, <2>2 DEF SendFails, ReceiveFails
<1>9. ASSUME NEW g \in Callers, Serve(g) PROVE TypeOK'
  <2>1. reply' \in [Callers -> [status : {"none", "success", "bad", "denied"},
                                value : Views \union {NoEntry}]]
    <3>1. IsRead(g) => View(store, op[g].key) \in Views
      BY ViewsAreTyped, OpsAreTyped DEF IsRead
    <3> QED
      BY <1>9, <3>1 DEF Serve, Answer
  <2>2. /\ store' \in [Items -> Values \union {Absent}]
        /\ since' \in [CacheKeys -> SUBSET Views]
        /\ window' \in [Callers -> [Keys -> SUBSET Views]]
    <3>1. CASE ~IsRead(g) /\ store' = Updated(store, op[g].write) /\ since' = Observed(store')
               /\ window' = [Watched(store') EXCEPT ![g] = Opened(store', CacheKeys)]
      <4>1. store' \in [Items -> Values \union {Absent}]
        BY <3>1, UpdatesAreTyped, OpsAreTyped DEF IsRead
      <4>2. CacheKeys \in SUBSET Keys
        BY OpsAreTyped
      <4> QED
        BY <3>1, <4>1, <4>2, HistoriesAreTyped
    <3>2. CASE UNCHANGED <<store, since, window>>
      BY <3>2
    <3> QED
      BY <1>9, <3>1, <3>2 DEF Serve
  <2> QED
    BY <1>9, <2>1, <2>2 DEF Serve
<1>10. ASSUME NEW g \in Callers, Put(g) PROVE TypeOK'
  <2>1. op[g].key \in Keys /\ reply[g].value \in Views \ {Absent}
    BY <1>10, OpsAreTyped DEF Put, CallsAreTyped, CallIsTyped, IsRead
  <2> QED
    BY <1>10, <2>1 DEF Put
<1>11. ASSUME NEW g \in Callers, Invalidate(g) PROVE TypeOK'
  <2>1. cache' \in [Keys -> (Views \ {Absent}) \union {NoEntry}]
    BY <1>11 DEF Invalidate, NoCache
  <2>2. /\ since' \in [CacheKeys -> SUBSET Views]
        /\ window' \in [Callers -> [Keys -> SUBSET Views]]
    BY <1>11, HistoriesAreTyped DEF Invalidate
  <2> QED
    BY <1>11, <2>1, <2>2 DEF Invalidate, Filling
<1>12. ASSUME NEW g \in Callers, TryRepair(g) \/ RepairFails(g) \/ Restart(g) PROVE TypeOK'
  BY <1>12 DEF TryRepair, RepairFails, Restart
<1>13. ASSUME NEW g \in Callers, Reopen(g) PROVE TypeOK'
  BY <1>13, ResetIsTyped DEF Reopen
<1>14. ASSUME NEW g \in Callers, Done(g) PROVE TypeOK'
  <2>1. window' \in [Callers -> [Keys -> SUBSET Views]]
    BY <1>14, HistoriesAreTyped DEF Done
  <2> QED
    BY <1>14, <2>1, OpsAreTyped DEF Done, NoAnswer, Answer
<1>15. CASE UNCHANGED vars
  BY <1>15 DEF vars
<1> QED
  BY <1>1, <1>2, <1>3, <1>4, <1>5, <1>6, <1>7, <1>8, <1>9, <1>10, <1>11, <1>12, <1>13,
     <1>14, <1>15 DEF Next, Environment, CallStep
-----------------------------------------------------------------------------
(* sessionMu and the connection.                                           *)

LEMMA OwnedStep ==
    ASSUME TypeOK, SessionIsOwned, [Next]_vars
    PROVE  SessionIsOwned'
<1> USE DEF SessionIsOwned, daemonVars, callVars, history, others, Go, Exchange
<1>1. CASE DaemonStops \/ DaemonStarts \/ Deregister
  BY <1>1 DEF DaemonStops, DaemonStarts, Deregister
<1>2. CASE Close
  BY <1>2, ClientAssumption DEF Close
<1>3. ASSUME NEW w \in Writes, Foreign(w) PROVE SessionIsOwned'
  BY <1>3 DEF Foreign
<1>4. ASSUME NEW k \in Keys, EntryAges(k) PROVE SessionIsOwned'
  BY <1>4 DEF EntryAges
<1>5. ASSUME NEW g \in Callers, NEW l, Go(g, l)
      PROVE  pc'[g] = l /\ \A x \in Callers \ {g} : pc'[x] = pc[x]
  BY <1>5 DEF TypeOK
<1>6. ASSUME NEW g \in Callers,
             \/ \E o \in Ops : Call(g, o)
             \/ Lookup(g) \/ Put(g) \/ Invalidate(g) \/ TryRepair(g) \/ RepairFails(g)
             \/ Done(g)
      PROVE  SessionIsOwned'
  <2>1. UNCHANGED <<mu, conn>>
    BY <1>6, Zenon DEF Call, Lookup, Put, Invalidate, TryRepair, RepairFails, Done
  <2>2. PICK l : Go(g, l) /\ l \notin Exchange
    <3>1. ASSUME NEW o \in Ops, Call(g, o) PROVE \E l : Go(g, l) /\ l \notin Exchange
      <4>1. Go(g, "lookup") \/ Go(g, "request")
        BY <3>1 DEF Call
      <4> QED
        BY <4>1
    <3>2. CASE Lookup(g) \/ TryRepair(g)
      BY <3>2 DEF Lookup, TryRepair
    <3>3. CASE Put(g) \/ Invalidate(g) \/ RepairFails(g) \/ Done(g)
      BY <3>3 DEF Put, Invalidate, RepairFails, Done
    <3> QED
      BY <1>6, <3>1, <3>2, <3>3
  <2> QED
    BY <1>5, <2>1, <2>2
<1>7. ASSUME NEW g \in Callers, Acquire(g) PROVE SessionIsOwned'
  BY <1>5, <1>7, ClientAssumption DEF Acquire, TypeOK
<1>8. ASSUME NEW g \in Callers, Send(g) \/ Serve(g) PROVE SessionIsOwned'
  BY <1>5, <1>8 DEF Send, Serve, TypeOK
<1>9. ASSUME NEW g \in Callers, Receive(g) PROVE SessionIsOwned'
  BY <1>5, <1>9 DEF Receive, Outcome, TypeOK
<1>10. ASSUME NEW g \in Callers, SendFails(g) \/ ReceiveFails(g) PROVE SessionIsOwned'
  <2>1. mu = g /\ \A x \in Callers \ {g} : pc[x] \notin Exchange
    BY <1>10 DEF SendFails, ReceiveFails
  <2>2. CASE GiveUp(g)
    BY <1>5, <2>1, <2>2 DEF GiveUp
  <2>3. CASE ResetTo("live") /\ Go(g, "resend") /\ UNCHANGED mu
    BY <1>5, <2>1, <2>3 DEF ResetTo
  <2> QED
    BY <1>10, <2>2, <2>3 DEF SendFails, ReceiveFails, Reconnect
<1>11. ASSUME NEW g \in Callers, Restart(g) PROVE SessionIsOwned'
  BY <1>5, <1>11 DEF Restart
<1>12. ASSUME NEW g \in Callers, Reopen(g) PROVE SessionIsOwned'
  BY <1>5, <1>12, ClientAssumption DEF Reopen
<1>13. CASE UNCHANGED vars
  BY <1>13 DEF vars
<1> QED
  BY <1>1, <1>2, <1>3, <1>4, <1>6, <1>7, <1>8, <1>9, <1>10, <1>11, <1>12, <1>13
     DEF Next, Environment, CallStep
-----------------------------------------------------------------------------
(* What is read, watched and cached.                                       *)

\* Another caller's step, or the environment's: what caller x watches may grow with the
\* keychain, and what has been seen since the last write or reset may only shrink if that
\* has crossed the read of x.
Spared(x) ==
    /\ pc'[x] = pc[x] /\ op'[x] = op[x] /\ reply'[x] = reply[x]
    /\ \/ store' = store /\ window'[x] = window[x]
       \/ \A k \in Keys : window[x][k] # {} =>
             View(store', k) \in window'[x][k] /\ window[x][k] \subseteq window'[x][k]
    /\ x \in crossed => x \in crossed'
    /\ \/ \A k \in CacheKeys : since[k] \subseteq since'[k]
       \/ x \in crossed' \/ x \notin Filling

CallIsFresh(g) == CallIsTyped(g) /\ ReadIsWatched(g) /\ WriteIsWatched(g) /\ FillIsCurrent(g)

LEMMA SparedIsFresh ==
    ASSUME TypeOK, NEW x \in Callers, CallIsFresh(x), Spared(x)
    PROVE  CallIsFresh(x)'
<1>1. /\ pc'[x] = pc[x] /\ op'[x] = op[x] /\ reply'[x] = reply[x]
      /\ IsRead(x)' <=> IsRead(x)
      /\ Succeeded(x)' <=> Succeeded(x)
  BY DEF Spared, IsRead, Succeeded
<1>2. CallIsTyped(x)'
  BY <1>1 DEF CallIsFresh, CallIsTyped
<1>3. ASSUME NEW k \in Keys, View(store, k) \in window[x][k]
      PROVE  View(store', k) \in window'[x][k] /\ window[x][k] \subseteq window'[x][k]
  BY <1>3 DEF Spared
<1>4. IsRead(x) => op[x].key \in Keys
  BY OpsAreTyped DEF IsRead
<1>5. ReadIsWatched(x)'
  BY <1>1, <1>3, <1>4 DEF CallIsFresh, ReadIsWatched
<1>6. WriteIsWatched(x)'
  BY <1>1, <1>3, OpsAreTyped DEF CallIsFresh, WriteIsWatched
<1>7. FillIsCurrent(x)'
  BY <1>1 DEF CallIsFresh, FillIsCurrent, Spared, Filling, Succeeded
<1> QED
  BY <1>2, <1>5, <1>6, <1>7 DEF CallIsFresh

FreshInv == (\A g \in Callers : CallIsFresh(g)) /\ SinceIsCurrent /\ CacheKeepsUp

\* Steps that only move a caller, or none.
LEMMA MovedIsFresh ==
    ASSUME TypeOK, FreshInv, UNCHANGED <<store, op, cache, since, window, crossed, late>>,
           NEW g \in Callers, CallIsFresh(g)',
           \A x \in Callers \ {g} : pc'[x] = pc[x] /\ reply'[x] = reply[x]
    PROVE  FreshInv'
<1>1. \A x \in Callers \ {g} : Spared(x)
  BY DEF Spared
<1>2. \A x \in Callers : CallIsFresh(x)'
  BY <1>1, SparedIsFresh DEF FreshInv
<1> QED
  BY <1>2 DEF FreshInv, SinceIsCurrent, CacheKeepsUp

LEMMA ResetIsFresh ==
    ASSUME TypeOK, FreshInv, NEW c, ResetTo(c), UNCHANGED <<store, op, reply, window>>,
           NEW g \in Callers, \A x \in Callers \ {g} : pc'[x] = pc[x],
           \/ pc'[g] = pc[g]
           \/ pc[g] # "idle" /\ pc'[g] \in {"failed", "resend", "request", "refused"}
    PROVE  FreshInv'
<1>1. \A x \in Callers : x \in crossed' \/ x \notin Filling
  BY DEF ResetTo
<1>2. \A x \in Callers : x \in crossed => x \in crossed'
  BY DEF ResetTo
<1>3. \A x \in Callers : pc'[x] = pc[x] => Spared(x)
  BY <1>1, <1>2 DEF Spared
<1>4. ASSUME pc'[g] \in {"failed", "resend", "request", "refused"}, pc[g] # "idle"
      PROVE  CallIsFresh(g)'
  BY <1>4 DEF CallIsFresh, FreshInv, CallIsTyped, ReadIsWatched, WriteIsWatched,
              FillIsCurrent, Succeeded, IsRead
<1>5. \A x \in Callers : CallIsFresh(x)'
  BY <1>3, <1>4, SparedIsFresh DEF FreshInv
<1>6. SinceIsCurrent'
  BY DEF SinceIsCurrent, ResetTo, Now
<1>7. CacheKeepsUp'
  BY OpsAreTyped DEF CacheKeepsUp, ResetTo, NoCache
<1> QED
  BY <1>5, <1>6, <1>7 DEF FreshInv

LEMMA EnvironmentIsFresh ==
    ASSUME TypeOK, FreshInv, Environment PROVE FreshInv'
<1> USE DEF daemonVars, callVars, history, others
<1>1. CASE DaemonStops \/ DaemonStarts \/ Deregister
  <2>1. UNCHANGED <<store, cache, others, history>>
    BY <1>1 DEF DaemonStops, DaemonStarts, Deregister
  <2>2. \A x \in Callers : Spared(x)
    BY <2>1 DEF Spared
  <2>3. \A x \in Callers : CallIsFresh(x)'
    BY <2>2, SparedIsFresh DEF FreshInv
  <2> QED
    BY <2>1, <2>3 DEF FreshInv, SinceIsCurrent, CacheKeepsUp
<1>2. CASE Close
  <2>1. /\ ResetTo("none") /\ UNCHANGED <<store, op, reply, window>> /\ pc' = pc
    BY <1>2 DEF Close
  <2>2. \A x \in Callers : Spared(x)
    BY <2>1 DEF Spared, ResetTo
  <2>3. \A x \in Callers : CallIsFresh(x)'
    BY <2>2, SparedIsFresh DEF FreshInv
  <2>4. SinceIsCurrent'
    BY <2>1 DEF SinceIsCurrent, ResetTo, Now
  <2>5. CacheKeepsUp'
    BY <2>1, OpsAreTyped DEF CacheKeepsUp, ResetTo, NoCache
  <2> QED
    BY <2>3, <2>4, <2>5 DEF FreshInv
<1>3. ASSUME NEW w \in Writes, Foreign(w) PROVE FreshInv'
  <2>1. /\ since' = Observed(store') /\ window' = Watched(store')
        /\ UNCHANGED <<cache, others, crossed, late>>
    BY <1>3 DEF Foreign
  <2>2. \A x \in Callers : Spared(x)
    BY <2>1 DEF Spared, Watched, Observed, TypeOK
  <2>3. \A x \in Callers : CallIsFresh(x)'
    BY <2>2, SparedIsFresh DEF FreshInv
  <2>4. SinceIsCurrent' /\ CacheKeepsUp'
    BY <2>1 DEF SinceIsCurrent, CacheKeepsUp, Observed, FreshInv
  <2> QED
    BY <2>3, <2>4 DEF FreshInv
<1>4. ASSUME NEW k \in Keys, EntryAges(k) PROVE FreshInv'
  <2>1. /\ cache' = [cache EXCEPT ![k] = NoEntry] /\ late' = late \ {k}
        /\ UNCHANGED <<store, others, since, window, crossed>>
    BY <1>4 DEF EntryAges
  <2>2. \A x \in Callers : Spared(x)
    BY <2>1 DEF Spared
  <2>3. \A x \in Callers : CallIsFresh(x)'
    BY <2>2, SparedIsFresh DEF FreshInv
  <2>4. SinceIsCurrent' /\ CacheKeepsUp'
    BY <2>1, OpsAreTyped DEF SinceIsCurrent, CacheKeepsUp, FreshInv, TypeOK
  <2> QED
    BY <2>3, <2>4 DEF FreshInv
<1> QED
  BY <1>1, <1>2, <1>3, <1>4 DEF Environment

LEMMA CallStartsFresh ==
    ASSUME TypeOK, FreshInv, NEW g \in Callers, NEW o \in Ops, Call(g, o)
    PROVE  FreshInv'
<1>1. /\ op'[g] = o /\ \A x \in Callers \ {g} : op'[x] = op[x] /\ pc'[x] = pc[x]
      /\ pc'[g] = IF o \in Reads /\ Cached(o.key) THEN "lookup" ELSE "request"
      /\ window'[g] = Opened(store, IF o \in Reads THEN {o.key} \ CacheKeys ELSE {})
      /\ \A x \in Callers \ {g} : window'[x] = window[x]
      /\ UNCHANGED <<daemonVars, cache, reply, since, crossed, late>>
  BY DEF Call, Go, TypeOK
<1>2. \A x \in Callers \ {g} : Spared(x)
  BY <1>1 DEF Spared, daemonVars
<1>3. CallIsFresh(g)'
  <2>1. o \in Reads /\ o.key \notin CacheKeys => View(store, o.key) \in window'[g][o.key]
    BY <1>1, OpsAreTyped DEF Opened
  <2> QED
    BY <1>1, <2>1
       DEF CallIsFresh, CallIsTyped, ReadIsWatched, WriteIsWatched, FillIsCurrent,
           Succeeded, IsRead, Cached, daemonVars
<1>4. \A x \in Callers : CallIsFresh(x)'
  BY <1>2, <1>3, SparedIsFresh DEF FreshInv
<1> QED
  BY <1>1, <1>4 DEF FreshInv, SinceIsCurrent, CacheKeepsUp, daemonVars

LEMMA QuietCallIsFresh ==
    ASSUME TypeOK, FreshInv, NEW g \in Callers,
           \/ Lookup(g) \/ Acquire(g) \/ Send(g) \/ Receive(g)
           \/ TryRepair(g) \/ RepairFails(g) \/ Restart(g)
    PROVE  FreshInv'
<1>1. UNCHANGED <<store, op, cache, since, window, crossed, late>>
  <2> USE DEF daemonVars, callVars, history
  <2>1. CASE Lookup(g) \/ Acquire(g) \/ Send(g) \/ Receive(g)
    BY <2>1, Zenon DEF Lookup, Acquire, Send, Receive
  <2>2. CASE TryRepair(g) \/ RepairFails(g) \/ Restart(g)
    BY <2>2, Zenon DEF TryRepair, RepairFails, Restart
  <2> QED
    BY <2>1, <2>2
<1>2. PICK l : Go(g, l)
  <2>1. CASE Lookup(g)
    BY <2>1, Zenon DEF Lookup
  <2>2. CASE Acquire(g)
    BY <2>2, Zenon DEF Acquire
  <2>3. CASE Send(g) \/ Receive(g)
    BY <2>3, Zenon DEF Send, Receive
  <2>4. CASE TryRepair(g) \/ RepairFails(g) \/ Restart(g)
    BY <2>4, Zenon DEF TryRepair, RepairFails, Restart
  <2> QED
    BY <2>1, <2>2, <2>3, <2>4
<1>3. /\ pc'[g] = l
      /\ \A x \in Callers \ {g} : pc'[x] = pc[x] /\ reply'[x] = reply[x]
      /\ ~Lookup(g) => reply'[g] = reply[g]
  <2>1. pc'[g] = l /\ \A x \in Callers \ {g} : pc'[x] = pc[x]
    BY <1>2 DEF Go, TypeOK
  <2>2. CASE Lookup(g)
    BY <2>1, <2>2 DEF Lookup, TypeOK
  <2>3. CASE ~Lookup(g)
    <3>1. reply' = reply
      BY <2>3, Zenon DEF Acquire, Send, Receive, TryRepair, RepairFails, Restart, callVars
    <3> QED
      BY <2>1, <2>3, <3>1
  <2> QED
    BY <2>2, <2>3
<1>4. CallIsFresh(g) /\ pc[g] # "idle"
  BY DEF FreshInv, Lookup, Acquire, Send, Receive, TryRepair, RepairFails, Restart
<1> USE DEF CallIsFresh, CallIsTyped, ReadIsWatched, WriteIsWatched, FillIsCurrent,
            Succeeded, IsRead
<1>5. CASE Lookup(g)
  <2>1. pc'[g] \in {"request", "returned"} /\ op[g].key \in CacheKeys /\ op[g] \in Reads
    BY <1>3, <1>4, <1>5 DEF Lookup, Go, TypeOK
  <2>2. CallIsFresh(g)'
    BY <1>1, <2>1
  <2> QED
    BY <1>1, <1>3, <2>2, MovedIsFresh
<1>6. CASE \/ Acquire(g) \/ Send(g) \/ TryRepair(g) \/ RepairFails(g) \/ Restart(g)
  <2>1. pc'[g] \in {"failed", "send", "sent", "restart", "refused", "reopen"}
    <3>1. CASE Acquire(g)
      BY <3>1 DEF Acquire, Go, TypeOK
    <3>2. CASE Send(g) \/ TryRepair(g) \/ RepairFails(g) \/ Restart(g)
      BY <3>2 DEF Send, TryRepair, RepairFails, Restart, Go, TypeOK
    <3> QED
      BY <1>6, <3>1, <3>2
  <2>2. CallIsFresh(g)'
    BY <1>1, <1>4, <2>1
  <2> QED
    BY <1>1, <1>3, <2>2, MovedIsFresh
<1>7. CASE Receive(g)
  <2>1. /\ pc[g] = "served"
        /\ pc'[g] = Outcome(g)
    BY <1>7 DEF Receive, Go, TypeOK
  <2>2. /\ reply[g].status \in {"success", "bad", "denied"} /\ reply'[g] = reply[g]
        /\ op' = op
    BY <1>1, <1>4, <1>7, <2>1 DEF Receive, callVars, TypeOK
  <2>3. CASE reply[g].status # "success"
    <3>1. pc'[g] \in {"denied", "failed"}
      BY <2>1, <2>2, <2>3 DEF Outcome
    <3> QED
      BY <1>1, <1>3, <1>4, <3>1, MovedIsFresh
  <2>4. CASE reply[g].status = "success" /\ ~IsRead(g)
    <3>1. pc'[g] = "invalidate"
      BY <2>1, <2>4 DEF Outcome
    <3>2. CallIsFresh(g)'
      BY <1>1, <1>4, <2>1, <2>2, <2>4, <3>1
    <3> QED
      BY <1>1, <1>3, <3>2, MovedIsFresh
  <2>5. CASE reply[g].status = "success" /\ IsRead(g)
    <3>1. \/ /\ pc'[g] = "put" /\ op[g].key \in CacheKeys /\ reply[g].value # Absent
          \/ pc'[g] = "returned"
      BY <2>1, <2>5 DEF Outcome, Cached, Cacheable
    <3>2. CallIsFresh(g)'
      BY <1>1, <1>4, <2>1, <2>2, <2>5, <3>1
    <3> QED
      BY <1>1, <1>3, <3>2, MovedIsFresh
  <2> QED
    BY <2>2, <2>3, <2>4, <2>5
<1> QED
  BY <1>5, <1>6, <1>7

LEMMA FailureIsFresh ==
    ASSUME TypeOK, FreshInv, NEW g \in Callers, SendFails(g) \/ ReceiveFails(g)
    PROVE  FreshInv'
<1>1. GiveUp(g) \/ \E b \in {retried[g], TRUE} : Reconnect(g, b)
  BY DEF SendFails, ReceiveFails
<1>2. PICK c \in {"none", "live"}, l \in {"failed", "resend"} :
         /\ ResetTo(c) /\ Go(g, l) /\ UNCHANGED <<daemonVars, op, reply, window>>
  BY <1>1 DEF Reconnect, GiveUp, callVars
<1>3. /\ pc[g] # "idle" /\ pc'[g] \in {"failed", "resend"}
      /\ \A x \in Callers \ {g} : pc'[x] = pc[x]
  BY <1>2 DEF SendFails, ReceiveFails, Go, TypeOK
<1> QED
  BY <1>2, <1>3, ResetIsFresh DEF daemonVars

LEMMA ReopenIsFresh ==
    ASSUME TypeOK, FreshInv, NEW g \in Callers, Reopen(g)
    PROVE  FreshInv'
<1>1. PICK c \in {"none", "live"}, l \in {"request", "refused"} :
         /\ ResetTo(c) /\ Go(g, l) /\ UNCHANGED <<daemonVars, op, reply, window>>
  BY DEF Reopen
<1>2. /\ pc[g] # "idle" /\ pc'[g] \in {"request", "refused"}
      /\ \A x \in Callers \ {g} : pc'[x] = pc[x]
  BY <1>1 DEF Reopen, Go, TypeOK
<1> QED
  BY <1>1, <1>2, ResetIsFresh DEF daemonVars

\* The daemon applies a write: its caller watches the listing and the metadata from now on.
LEMMA WriteIsFresh ==
    ASSUME TypeOK, FreshInv, NEW g \in Callers, Serve(g), ~IsRead(g),
           reply' = [reply EXCEPT ![g] = Answer("success", NoEntry)],
           since' = Observed(store'),
           window' = [Watched(store') EXCEPT ![g] = Opened(store', CacheKeys)]
    PROVE  FreshInv'
<1>1. /\ pc'[g] = "served" /\ op' = op /\ cache' = cache /\ late' = late
      /\ crossed' = crossed \ {g}
      /\ \A x \in Callers \ {g} : pc'[x] = pc[x]
  BY DEF Serve, Go, TypeOK
<1>2. /\ reply'[g] = Answer("success", NoEntry)
      /\ \A x \in Callers \ {g} : reply'[x] = reply[x]
  BY DEF TypeOK
<1>3. /\ window'[g] = Opened(store', CacheKeys)
      /\ \A x \in Callers \ {g} : window'[x] = Watched(store')[x]
  BY DEF Watched
<1>4. \A x \in Callers \ {g} : Spared(x)
  BY <1>1, <1>2, <1>3 DEF Spared, Watched, Observed, TypeOK
<1>5. CallIsFresh(g)'
  <2>1. \A k \in CacheKeys : View(store', k) \in window'[g][k]
    BY <1>3, OpsAreTyped DEF Opened
  <2> QED
    BY <1>1, <1>2, <2>1
       DEF CallIsFresh, CallIsTyped, ReadIsWatched, WriteIsWatched, FillIsCurrent,
           Succeeded, IsRead, Answer
<1>6. \A x \in Callers : CallIsFresh(x)'
  BY <1>4, <1>5, SparedIsFresh DEF FreshInv
<1>7. SinceIsCurrent' /\ CacheKeepsUp'
  BY <1>1 DEF SinceIsCurrent, CacheKeepsUp, Observed, FreshInv
<1> QED
  BY <1>6, <1>7 DEF FreshInv

LEMMA ServeIsFresh ==
    ASSUME TypeOK, FreshInv, NEW g \in Callers, Serve(g)
    PROVE  FreshInv'
<1>1. /\ pc[g] = "sent" /\ pc'[g] = "served" /\ op' = op /\ cache' = cache /\ late' = late
      /\ crossed' = crossed \ {g}
      /\ \A x \in Callers \ {g} : pc'[x] = pc[x]
  BY DEF Serve, Go, TypeOK
<1>2. ASSUME NEW a, reply' = [reply EXCEPT ![g] = a], UNCHANGED <<store, since, window>>,
             \/ IsRead(g) /\ a = Answer("success", View(store, op[g].key))
             \/ a \in {Answer("bad", NoEntry), Answer("denied", NoEntry)}
      PROVE  FreshInv'
  <2>1. reply'[g] = a /\ \A x \in Callers \ {g} : reply'[x] = reply[x]
    BY <1>2 DEF TypeOK
  <2>2. \A x \in Callers \ {g} : Spared(x)
    BY <1>1, <1>2, <2>1 DEF Spared
  <2>3. IsRead(g) => op[g].key \in Keys /\ View(store, op[g].key) \in Views
    BY OpsAreTyped, ViewsAreTyped DEF IsRead, TypeOK
  <2>4. CallIsFresh(g) /\ SinceIsCurrent
    BY DEF FreshInv
  <2> USE DEF Answer, CallIsFresh, CallIsTyped, ReadIsWatched, WriteIsWatched,
              FillIsCurrent, Succeeded, IsRead
  <2>5. CASE IsRead(g) /\ a = Answer("success", View(store, op[g].key))
    <3>1. /\ reply'[g].status = "success" /\ reply'[g].value = View(store, op[g].key)
          /\ reply'[g].value \in Views
      BY <2>1, <2>3, <2>5
    <3>2. CallIsFresh(g)'
      BY <1>1, <1>2, <2>3, <2>4, <2>5, <3>1 DEF SinceIsCurrent
    <3>3. \A x \in Callers : CallIsFresh(x)'
      BY <2>2, <3>2, SparedIsFresh DEF FreshInv
    <3> QED
      BY <1>1, <1>2, <3>3 DEF FreshInv, SinceIsCurrent, CacheKeepsUp
  <2>6. CASE a \in {Answer("bad", NoEntry), Answer("denied", NoEntry)}
    <3>1. reply'[g].status \in {"bad", "denied"}
      BY <2>1, <2>6
    <3>2. CallIsFresh(g)'
      BY <1>1, <1>2, <2>4, <3>1
    <3>3. \A x \in Callers : CallIsFresh(x)'
      BY <2>2, <3>2, SparedIsFresh DEF FreshInv
    <3> QED
      BY <1>1, <1>2, <3>3 DEF FreshInv, SinceIsCurrent, CacheKeepsUp
  <2> QED
    BY <1>2, <2>5, <2>6
<1> QED
  BY <1>2, WriteIsFresh DEF Serve

LEMMA PutIsFresh ==
    ASSUME TypeOK, FreshInv, NEW g \in Callers, Put(g)
    PROVE  FreshInv'
<1>1. /\ pc[g] = "put" /\ pc'[g] = "returned"
      /\ UNCHANGED <<store, op, reply, since, window, crossed>>
      /\ \A x \in Callers \ {g} : pc'[x] = pc[x]
  BY DEF Put, Go, TypeOK, daemonVars, callVars
<1>2. CallIsFresh(g)
  BY DEF FreshInv
<1>3. IsRead(g) /\ op[g].key \in CacheKeys /\ op[g].key \in Keys
  BY <1>1, <1>2, OpsAreTyped DEF CallIsFresh, CallIsTyped
<1>4. \A x \in Callers \ {g} : Spared(x)
  BY <1>1 DEF Spared
<1>5. CallIsFresh(g)'
  BY <1>1, <1>3 DEF CallIsFresh, CallIsTyped, ReadIsWatched, WriteIsWatched, FillIsCurrent,
                    Succeeded, IsRead
<1>6. \A x \in Callers : CallIsFresh(x)'
  BY <1>4, <1>5, SparedIsFresh DEF FreshInv
<1>7. ASSUME NEW k \in CacheKeys, cache'[k] # NoEntry, k \notin late'
      PROVE  cache'[k] \in since'[k]
  <2>1. CASE k = op[g].key
    <3>1. g \notin crossed
      BY <1>7, <2>1 DEF Put
    <3>2. reply[g].value \in since[k]
      BY <1>1, <1>2, <1>3, <2>1, <3>1 DEF CallIsFresh, FillIsCurrent
    <3> QED
      BY <1>1, <1>3, <2>1, <3>2 DEF Put, TypeOK
  <2>2. CASE k # op[g].key
    <3>1. cache'[k] = cache[k] /\ k \notin late
      BY <1>7, <2>2, OpsAreTyped DEF Put, TypeOK
    <3> QED
      BY <1>1, <1>7, <3>1 DEF FreshInv, CacheKeepsUp
  <2> QED
    BY <2>1, <2>2
<1>8. SinceIsCurrent'
  BY <1>1 DEF FreshInv, SinceIsCurrent
<1> QED
  BY <1>6, <1>7, <1>8 DEF FreshInv, CacheKeepsUp

LEMMA InvalidateIsFresh ==
    ASSUME TypeOK, FreshInv, NEW g \in Callers, Invalidate(g)
    PROVE  FreshInv'
<1>1. /\ pc[g] = "invalidate" /\ pc'[g] = "returned"
      /\ UNCHANGED <<store, op, reply>> /\ cache' = NoCache
      /\ since' = [k \in CacheKeys |-> since[k] \intersect window[g][k]]
      /\ crossed' = crossed \union Filling
      /\ \A x \in Callers \ {g} : pc'[x] = pc[x] /\ window'[x] = window[x]
  BY DEF Invalidate, Go, TypeOK, daemonVars, callVars
<1>2. CallIsFresh(g) /\ ~IsRead(g)
  BY <1>1 DEF FreshInv, CallIsFresh, CallIsTyped
<1>3. \A x \in Callers \ {g} : Spared(x)
  BY <1>1 DEF Spared
<1>4. CallIsFresh(g)'
  BY <1>1, <1>2 DEF CallIsFresh, CallIsTyped, ReadIsWatched, WriteIsWatched, FillIsCurrent,
                    Succeeded, IsRead
<1>5. \A x \in Callers : CallIsFresh(x)'
  BY <1>3, <1>4, SparedIsFresh DEF FreshInv
<1>6. SinceIsCurrent'
  BY <1>1, <1>2 DEF FreshInv, SinceIsCurrent, CallIsFresh, WriteIsWatched
<1>7. CacheKeepsUp'
  BY <1>1, OpsAreTyped DEF CacheKeepsUp, NoCache
<1> QED
  BY <1>5, <1>6, <1>7 DEF FreshInv

LEMMA DoneIsFresh ==
    ASSUME TypeOK, FreshInv, NEW g \in Callers, Done(g)
    PROVE  FreshInv'
<1>1. /\ pc'[g] = "idle" /\ UNCHANGED <<store, cache, since, late>>
      /\ crossed' = crossed \ {g}
      /\ \A x \in Callers \ {g} : /\ pc'[x] = pc[x] /\ op'[x] = op[x] /\ reply'[x] = reply[x]
                                  /\ window'[x] = window[x]
  BY DEF Done, Go, TypeOK, daemonVars
<1>2. \A x \in Callers \ {g} : Spared(x)
  BY <1>1 DEF Spared
<1>3. CallIsFresh(g)'
  BY <1>1 DEF CallIsFresh, CallIsTyped, ReadIsWatched, WriteIsWatched, FillIsCurrent,
              Succeeded
<1>4. \A x \in Callers : CallIsFresh(x)'
  BY <1>2, <1>3, SparedIsFresh DEF FreshInv
<1> QED
  BY <1>1, <1>4 DEF FreshInv, SinceIsCurrent, CacheKeepsUp

LEMMA FreshStep == TypeOK /\ FreshInv /\ [Next]_vars => FreshInv'
<1> SUFFICES ASSUME TypeOK, FreshInv, [Next]_vars PROVE FreshInv'
  OBVIOUS
<1>1. ASSUME NEW g \in Callers, CallStep(g) PROVE FreshInv'
  BY <1>1, QuietCallIsFresh, FailureIsFresh, ServeIsFresh, PutIsFresh, InvalidateIsFresh,
     ReopenIsFresh DEF CallStep
<1>2. CASE UNCHANGED vars
  <2>1. UNCHANGED <<store, op, cache, since, window, crossed, late, pc, reply>>
    BY <1>2 DEF vars, daemonVars, callVars, history
  <2>2. \A x \in Callers : Spared(x)
    BY <2>1 DEF Spared
  <2>3. \A x \in Callers : CallIsFresh(x)'
    BY <2>2, SparedIsFresh DEF FreshInv
  <2> QED
    BY <2>1, <2>3 DEF FreshInv, SinceIsCurrent, CacheKeepsUp
<1> QED
  BY <1>1, <1>2, EnvironmentIsFresh, CallStartsFresh, DoneIsFresh DEF Next

LEMMA ClientInit == Init => TypeOK /\ SessionIsOwned /\ FreshInv
<1> SUFFICES ASSUME Init PROVE TypeOK /\ SessionIsOwned /\ FreshInv
  OBVIOUS
<1>1. \A g \in Callers : pc[g] = "idle" /\ op[g] = Idle
  BY DEF Init
<1>2. store \in [Items -> Values \union {Absent}]
  BY DEF Init
<1>3. TypeOK
  <2>1. Now(store) \in [CacheKeys -> SUBSET Views]
    <3>1. \A k \in CacheKeys : View(store, k) \in Views
      BY <1>2, ViewsAreTyped, OpsAreTyped
    <3> QED
      BY <3>1 DEF Now
  <2>2. cache \in [Keys -> (Views \ {Absent}) \union {NoEntry}]
    BY DEF Init, NoCache
  <2>3. window \in [Callers -> [Keys -> SUBSET Views]]
    BY DEF Init, NoViews
  <2>4. pc \in [Callers -> Locations] /\ op \in [Callers -> Ops]
    BY OpsAreTyped DEF Init, Locations
  <2>5. reply \in [Callers -> [status : {"none", "success", "bad", "denied"},
                               value : Views \union {NoEntry}]]
    BY DEF Init, NoAnswer, Answer
  <2>6. retried \in [Callers -> BOOLEAN] /\ repaired \in [Callers -> BOOLEAN]
    BY DEF Init
  <2>7. daemon \in BOOLEAN /\ granted \in BOOLEAN
    BY DEF Init
  <2>8. faults \in 0 .. MaxFaults
    BY ClientAssumption DEF Init
  <2>9. /\ conn \in {"none", "live", "broken"} /\ mu \in Callers \union {Nobody}
        /\ repair \in {"never", "running", "done"}
        /\ crossed \in SUBSET Callers /\ late \in SUBSET Keys
    BY DEF Init
  <2> QED
    BY <1>2, <2>1, <2>2, <2>3, <2>4, <2>5, <2>6, <2>7, <2>8, <2>9 DEF TypeOK, Init
<1>4. SessionIsOwned
  BY <1>1 DEF SessionIsOwned, Exchange
<1>5. \A g \in Callers : CallIsFresh(g)
  BY <1>1 DEF CallIsFresh, CallIsTyped, ReadIsWatched, WriteIsWatched, FillIsCurrent,
              Succeeded
<1>6. SinceIsCurrent /\ CacheKeepsUp
  BY OpsAreTyped DEF Init, SinceIsCurrent, CacheKeepsUp, Now, NoCache
<1> QED
  BY <1>3, <1>4, <1>5, <1>6 DEF FreshInv

-----------------------------------------------------------------------------
\* Through every call, resend, repair and fault, exchanges are owned, a read under way
\* has its window open and the cache keeps up (client.go:404-534, cache.go:10-85).
THEOREM ClientInvariant == Spec => [](TypeOK /\ SessionIsOwned /\ FreshInv)
<1>1. FreshInv => CallsAreTyped
  BY DEF FreshInv, CallsAreTyped, CallIsFresh
<1>2. TypeOK /\ SessionIsOwned /\ FreshInv /\ [Next]_vars
         => (TypeOK /\ SessionIsOwned /\ FreshInv)'
  BY <1>1, TypeStep, OwnedStep, FreshStep
<1> QED
  BY <1>2, ClientInit, PTL DEF Spec

\* What every action assigns is of its type; no item without a value is ever in the cache.
THEOREM TypeCorrect == Spec => []TypeOK
<1> QED
  BY ClientInvariant, PTL

\* An exchange has sessionMu and an open connection to itself, whatever number of
\* goroutines call, fail and repair (client.go:454-534, recovery.go:81-108).
THEOREM ExchangesAreExclusive == Spec => []SessionIsOwned
<1> QED
  BY ClientInvariant, PTL

\* A plaintext read returns what was in the keychain at some moment of the call, across
\* resends, repairs and writes of others (client.go:236-238).
THEOREM ReadsAreCurrent == Spec => []ReadIsCurrent
<1>1. FreshInv => ReadIsCurrent
  BY DEF FreshInv, CallIsFresh, ReadIsWatched, ReadIsCurrent, IsRead
<1> QED
  BY <1>1, ClientInvariant, PTL

\* No cache entry is older than the last write of this process that has returned or the
\* last reset of its connection, unless its read was under way then (cache.go:20-21).
THEOREM CacheIsNoOlder == Spec => []CacheKeepsUp
<1> QED
  BY ClientInvariant, PTL DEF FreshInv

=============================================================================
