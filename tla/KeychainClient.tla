--------------------------- MODULE KeychainClient ---------------------------
(***************************************************************************)
(* The client of the keychain-auth daemon (pkg/keychainauth/client.go),    *)
(* its metadata cache (cache.go) and the repair of a registration denial   *)
(* in mid-request (recovery.go).  One process with several goroutines      *)
(* shares one connection under sessionMu; other processes write the same   *)
(* keychain.                                                               *)
(*                                                                         *)
(* The daemon is outside the repository: it starts, stops, drops           *)
(* connections and forgets the registration of this binary at any time,    *)
(* and serves each request of a live connection in one step.  What a       *)
(* repair does to trust store and daemon is KeychainSetup's subject; here  *)
(* it fails or grants.                                                     *)
(***************************************************************************)
EXTENDS Naturals, FiniteSets

CONSTANTS
    Callers,      \* goroutines of the process
    Items,        \* targets in the keychain
    Metadata,     \* those read through the cache: policies, allowlists
    Names,        \* the listing of the other items' names
    Values, Absent, NoEntry,
    Writes,       \* the write requests: partial functions on Items
    Program,      \* Program[g]: the calls goroutine g may make
    MaxFaults,    \* bound: interferences of daemon, upgrades and other code
    AutoRepair,   \* ~DisableAutoRepair
    Nobody

ASSUME ClientAssumption ==
    /\ Metadata \subseteq Items /\ Names \notin Items
    /\ \A w \in Writes : w \in [DOMAIN w -> Values \union {Absent}] /\ DOMAIN w \subseteq Items
    /\ Absent \notin Values /\ NoEntry \notin Values \union {Absent} \union [names : SUBSET Items]
    /\ MaxFaults \in Nat /\ AutoRepair \in BOOLEAN /\ Nobody \notin Callers

VARIABLES
    store,        \* the keychain
    daemon,       \* the daemon runs
    granted,      \* its live policy knows this binary and its hash
    conn,         \* "none" (initialized = false), "live", or "broken" at the far end
    mu,           \* the holder of sessionMu
    cache,        \* valueCache.m, without the entries older than the TTL
    repair,       \* "never", "running" (repairInProgress) or "done" (repairAttempted)
    pc, op, reply, retried,
    repaired,     \* per caller: sendRequest is past its one repair
    since,        \* history: views since the last own write returned or connection reset
    window,       \* history: views since an uncached read began or a write was applied
    crossed,      \* history: such a return or reset fell into this caller's read
    late,         \* history: cache entries put by such a read
    faults        \* how many there have been

daemonVars == <<store, daemon, granted, faults>>
callVars == <<op, reply, retried, repaired>>
history == <<since, window, crossed, late>>
others == <<mu, repair, pc, callVars>>
vars == <<daemonVars, conn, mu, cache, repair, pc, callVars, history>>

-----------------------------------------------------------------------------
(* What can be read: an item, or the listing, which leaves metadata out.   *)

Keys == Items \union {Names}
Listing(s) == [names |-> {i \in Items \ Metadata : s[i] # Absent}]
Listings == [names : SUBSET Items]
View(s, k) == IF k = Names THEN Listing(s) ELSE s[k]
CacheKeys == Metadata \union {Names}
Views == Values \union {Absent} \union Listings

\* Mutant: every read goes through the cache.
CachedEverything(k) == TRUE

\* Plaintext values are read from the daemon each time.
Cached(k) == k \in CacheKeys

\* Mutant: an item that is not there is cached like any other.
CacheableAll(v) == TRUE

\* Items without a value are not put into the cache, listings always are.
Cacheable(v) == v # Absent

Updated(s, w) == [i \in Items |-> IF i \in DOMAIN w THEN w[i] ELSE s[i]]

Reads == {[kind |-> "read", key |-> k] : k \in Keys}
Ops == Reads \union {[kind |-> "write", write |-> w] : w \in Writes}
IsRead(g) == op[g] \in Reads

Answer(status, value) == [status |-> status, value |-> value]
NoAnswer == Answer("none", NoEntry)

\* The caller holds sessionMu, between ensureConn and the end of the exchange.
Exchange == {"send", "resend", "sent", "served"}
Locations == {"idle", "lookup", "request", "denied", "restart", "reopen",
              "invalidate", "put", "returned", "failed", "refused"} \union Exchange

TypeOK ==
    /\ store \in [Items -> Values \union {Absent}]
    /\ daemon \in BOOLEAN /\ granted \in BOOLEAN
    /\ conn \in {"none", "live", "broken"}
    /\ mu \in Callers \union {Nobody}
    /\ cache \in [Keys -> (Views \ {Absent}) \union {NoEntry}]
    /\ repair \in {"never", "running", "done"}
    /\ pc \in [Callers -> Locations]
    /\ op \in [Callers -> Ops]
    /\ reply \in [Callers -> [status : {"none", "success", "bad", "denied"},
                              value : Views \union {NoEntry}]]
    /\ retried \in [Callers -> BOOLEAN] /\ repaired \in [Callers -> BOOLEAN]
    /\ since \in [CacheKeys -> SUBSET Views]
    /\ window \in [Callers -> [Keys -> SUBSET Views]]
    /\ crossed \in SUBSET Callers /\ late \in SUBSET Keys
    /\ faults \in 0 .. MaxFaults

NoCache == [k \in Keys |-> NoEntry]
NoViews == [k \in Keys |-> {}]
Now(s) == [k \in CacheKeys |-> {View(s, k)}]
Opened(s, K) == [k \in Keys |-> IF k \in K THEN {View(s, k)} ELSE {}]
Idle == CHOOSE o \in Ops : TRUE

Init ==
    /\ store = [i \in Items |-> Absent]
    /\ daemon = TRUE /\ granted \in BOOLEAN
    /\ conn = "none" /\ mu = Nobody /\ cache = NoCache /\ repair = "never"
    /\ pc = [g \in Callers |-> "idle"]
    /\ op = [g \in Callers |-> Idle]
    /\ reply = [g \in Callers |-> NoAnswer]
    /\ retried = [g \in Callers |-> FALSE] /\ repaired = [g \in Callers |-> FALSE]
    /\ since = Now(store)
    /\ window = [g \in Callers |-> NoViews]
    /\ crossed = {} /\ late = {} /\ faults = 0

Go(g, l) == pc' = [pc EXCEPT ![g] = l]

\* The histories of a change of the keychain to s: a window that is open grows.
Observed(s) == [k \in CacheKeys |-> since[k] \union {View(s, k)}]
Watched(s) ==
    [g \in Callers |-> [k \in Keys |->
        IF window[g][k] # {} THEN window[g][k] \union {View(s, k)} ELSE {}]]

\* Callers whose read has an answer that is not in the cache yet.
Filling == {g \in Callers : IsRead(g) /\ pc[g] \in {"served", "put"}}

-----------------------------------------------------------------------------
(* The daemon, other processes, and time.                                  *)

Fault == faults < MaxFaults /\ faults' = faults + 1

DaemonStops ==
    /\ daemon /\ daemon' = FALSE
    /\ conn' = IF conn = "live" THEN "broken" ELSE conn
    /\ Fault
    /\ UNCHANGED <<store, granted, cache, others, history>>

DaemonStarts ==
    /\ ~daemon /\ daemon' = TRUE
    /\ UNCHANGED <<store, granted, conn, cache, others, history, faults>>

\* The binary is upgraded, or the daemon reloads a trust store without it.
Deregister ==
    /\ granted /\ granted' = FALSE
    /\ Fault
    /\ UNCHANGED <<store, daemon, conn, cache, others, history>>

Foreign(w) ==
    /\ daemon
    /\ store' = Updated(store, w) /\ store' # store
    /\ since' = Observed(store') /\ window' = Watched(store')
    /\ Fault
    /\ UNCHANGED <<daemon, granted, conn, cache, others, crossed, late>>

EntryAges(k) ==
    /\ cache[k] # NoEntry
    /\ cache' = [cache EXCEPT ![k] = NoEntry]
    /\ late' = late \ {k}
    /\ UNCHANGED <<daemonVars, conn, others, since, window, crossed>>

-----------------------------------------------------------------------------
(* One call: cache, sessionMu, exchange, and what follows the answer.      *)

Call(g, o) ==
    /\ pc[g] = "idle" /\ o \in Program[g]
    /\ op' = [op EXCEPT ![g] = o]
    /\ Go(g, IF o \in Reads /\ Cached(o.key) THEN "lookup" ELSE "request")
    /\ window' = [window EXCEPT ![g] =
                      Opened(store, IF o \in Reads THEN {o.key} \ CacheKeys ELSE {})]
    /\ UNCHANGED <<daemonVars, conn, mu, cache, repair, reply, retried, repaired,
                   since, crossed, late>>

\* secretCache.get.
Lookup(g) ==
    /\ pc[g] = "lookup"
    /\ LET hit == cache[op[g].key]
       IN  /\ reply' = [reply EXCEPT ![g] = Answer("success", hit)]
           /\ Go(g, IF hit = NoEntry THEN "request" ELSE "returned")
    /\ UNCHANGED <<daemonVars, conn, mu, cache, repair, op, retried, repaired, history>>

\* resetConn, with the connection that ensureConn opens next, if any.  The
\* caller holds sessionMu.
ResetTo(c) ==
    /\ conn' = c /\ cache' = NoCache
    /\ since' = Now(store) /\ crossed' = crossed \union Filling /\ late' = {}

\* sessionMu.Lock and ensureConn: dial the daemon unless a connection is
\* believed open.
Acquire(g) ==
    /\ pc[g] = "request" /\ mu = Nobody
    /\ retried' = [retried EXCEPT ![g] = FALSE]
    /\ IF conn = "none" /\ ~daemon
         THEN /\ Go(g, "failed") /\ UNCHANGED <<conn, mu>>
         ELSE /\ conn' = IF conn = "none" THEN "live" ELSE conn
              /\ mu' = g /\ Go(g, "send")
    /\ UNCHANGED <<daemonVars, cache, repair, op, reply, repaired, history>>

\* Encode.  A connection broken at the far end may take the bytes all the same.
Send(g) ==
    /\ pc[g] \in {"send", "resend"}
    /\ Go(g, "sent")
    /\ UNCHANGED <<daemonVars, conn, mu, cache, repair, callVars, history>>

\* The exchange ends in an error: resetConn and unlock.
GiveUp(g) ==
    /\ ResetTo("none") /\ mu' = Nobody /\ Go(g, "failed")
    /\ UNCHANGED <<daemonVars, repair, callVars, window>>

\* resetConn and ensureConn; without a daemon the call fails.  read: the one
\* retry after a failed read is spent.
Reconnect(g, read) ==
    \/ ~daemon /\ GiveUp(g)
    \/ /\ daemon /\ ResetTo("live") /\ Go(g, "resend")
       /\ retried' = [retried EXCEPT ![g] = read]
       /\ UNCHANGED <<daemonVars, mu, repair, op, reply, repaired, window>>

SendFails(g) ==
    /\ conn = "broken"
    /\ \/ pc[g] = "send" /\ Reconnect(g, retried[g])
       \/ pc[g] = "resend" /\ GiveUp(g)

\* Scan fails: the answer is lost, and with it the knowledge whether the
\* request was carried out.  The whole request is sent once more.
ReceiveFails(g) ==
    /\ conn = "broken" /\ pc[g] \in {"sent", "served"}
    /\ IF retried[g] THEN GiveUp(g) ELSE Reconnect(g, TRUE)

\* The daemon's turn.  "bad" is any answer but success and a registration denial.
Serve(g) ==
    /\ pc[g] = "sent" /\ conn = "live" /\ daemon
    /\ Go(g, "served")
    /\ crossed' = crossed \ {g}
    /\ \/ /\ granted /\ ~IsRead(g)
          /\ store' = Updated(store, op[g].write)
          /\ reply' = [reply EXCEPT ![g] = Answer("success", NoEntry)]
          /\ since' = Observed(store')
          /\ window' = [Watched(store') EXCEPT ![g] = Opened(store', CacheKeys)]
       \/ /\ granted /\ IsRead(g)
          /\ reply' = [reply EXCEPT ![g] = Answer("success", View(store, op[g].key))]
          /\ UNCHANGED <<store, since, window>>
       \/ /\ reply' = [reply EXCEPT ![g] = Answer("bad", NoEntry)]
          /\ UNCHANGED <<store, since, window>>
       \/ /\ ~granted
          /\ reply' = [reply EXCEPT ![g] = Answer("denied", NoEntry)]
          /\ UNCHANGED <<store, since, window>>
    /\ UNCHANGED <<daemon, granted, faults, conn, mu, cache, repair, op, retried,
                   repaired, late>>

\* Where a call goes with its answer.
Outcome(g) ==
    LET ok == reply[g].status = "success"
    IN  CASE reply[g].status = "denied" -> "denied"
          [] reply[g].status = "bad" -> "failed"
          [] ok /\ ~IsRead(g) -> "invalidate"
          [] ok /\ IsRead(g) /\ Cached(op[g].key) /\ Cacheable(reply[g].value) -> "put"
          [] OTHER -> "returned"

\* Mutant: the lock is kept while a denial is being repaired.
ReceiveKeepsLock(g) ==
    /\ pc[g] = "served"
    /\ mu' = IF reply[g].status = "denied" THEN g ELSE Nobody
    /\ Go(g, Outcome(g))
    /\ UNCHANGED <<daemonVars, conn, cache, repair, callVars, history>>

\* The answer is read and sessionMu released.
Receive(g) ==
    /\ pc[g] = "served"
    /\ mu' = Nobody
    /\ Go(g, Outcome(g))
    /\ UNCHANGED <<daemonVars, conn, cache, repair, callVars, history>>

\* secretCache.put, after the lock has been released.
Put(g) ==
    /\ pc[g] = "put"
    /\ cache' = [cache EXCEPT ![op[g].key] = reply[g].value]
    /\ late' = IF g \in crossed THEN late \union {op[g].key} ELSE late \ {op[g].key}
    /\ Go(g, "returned")
    /\ UNCHANGED <<daemonVars, conn, mu, repair, callVars, since, window, crossed>>

\* Mutant: a write drops only the entries of the items it has written.
InvalidateWritten(g) ==
    /\ pc[g] = "invalidate"
    /\ cache' = [k \in Keys |-> IF k \in DOMAIN op[g].write THEN NoEntry ELSE cache[k]]
    /\ late' = late \ DOMAIN op[g].write
    /\ since' = [k \in CacheKeys |-> since[k] \intersect window[g][k]]
    /\ crossed' = crossed \union Filling
    /\ window' = [window EXCEPT ![g] = NoViews]
    /\ Go(g, "returned")
    /\ UNCHANGED <<daemonVars, conn, mu, repair, callVars>>

\* invalidateAll, after a write that succeeded.
Invalidate(g) ==
    /\ pc[g] = "invalidate"
    /\ cache' = NoCache /\ late' = {}
    /\ since' = [k \in CacheKeys |-> since[k] \intersect window[g][k]]
    /\ crossed' = crossed \union Filling
    /\ window' = [window EXCEPT ![g] = NoViews]
    /\ Go(g, "returned")
    /\ UNCHANGED <<daemonVars, conn, mu, repair, callVars>>

-----------------------------------------------------------------------------
(* A registration denial.  The first one of the process is repaired and    *)
(* its request sent again; any other is returned, one that comes while the *)
(* repair is running included.                                             *)

TryRepair(g) ==
    /\ pc[g] = "denied"
    /\ IF AutoRepair /\ repair = "never" /\ ~repaired[g]
         THEN repair' = "running" /\ Go(g, "restart")
         ELSE Go(g, "refused") /\ UNCHANGED repair
    /\ UNCHANGED <<daemonVars, conn, mu, cache, callVars, history>>

RepairFails(g) ==
    /\ pc[g] = "restart"
    /\ repair' = "done" /\ Go(g, "refused")
    /\ UNCHANGED <<daemonVars, conn, mu, cache, callVars, history>>

\* The binary is authorized and the daemon restarted, without sessionMu:
\* whatever is under way on the connection is cut off.
Restart(g) ==
    /\ pc[g] = "restart"
    /\ granted' = TRUE /\ daemon' = TRUE
    /\ conn' = IF conn = "live" THEN "broken" ELSE conn
    /\ Go(g, "reopen")
    /\ UNCHANGED <<store, faults, mu, cache, repair, callVars, history>>

\* Mutant: the repair closes the connection without taking sessionMu.
ReopenUnlocked(g) ==
    /\ pc[g] = "reopen"
    /\ ResetTo("none") /\ repair' = "done"
    /\ repaired' = [repaired EXCEPT ![g] = TRUE] /\ Go(g, "request")
    /\ UNCHANGED <<daemonVars, mu, op, reply, retried, window>>

\* Close, Init and probeDaemonGrant, each under sessionMu.
Reopen(g) ==
    /\ pc[g] = "reopen" /\ mu = Nobody
    /\ ResetTo(IF daemon THEN "live" ELSE "none")
    /\ repair' = "done"
    /\ IF daemon /\ granted
         THEN repaired' = [repaired EXCEPT ![g] = TRUE] /\ Go(g, "request")
         ELSE Go(g, "refused") /\ UNCHANGED repaired
    /\ UNCHANGED <<daemonVars, mu, op, reply, retried, window>>

\* The result is with the caller, who may call again.
Done(g) ==
    /\ pc[g] \in {"returned", "failed", "refused"}
    /\ Go(g, "idle")
    /\ op' = [op EXCEPT ![g] = Idle]
    /\ reply' = [reply EXCEPT ![g] = NoAnswer]
    /\ retried' = [retried EXCEPT ![g] = FALSE]
    /\ repaired' = [repaired EXCEPT ![g] = FALSE]
    /\ window' = [window EXCEPT ![g] = NoViews]
    /\ crossed' = crossed \ {g}
    /\ UNCHANGED <<daemonVars, conn, mu, cache, repair, since, late>>

\* Close, by another part of the program.
Close ==
    /\ mu = Nobody /\ conn # "none"
    /\ ResetTo("none") /\ Fault
    /\ UNCHANGED <<store, daemon, granted, others, window>>

CallStep(g) ==
    \/ Lookup(g) \/ Acquire(g) \/ Send(g) \/ SendFails(g) \/ Serve(g)
    \/ Receive(g) \/ ReceiveFails(g) \/ Put(g) \/ Invalidate(g)
    \/ TryRepair(g) \/ RepairFails(g) \/ Restart(g) \/ Reopen(g)

Environment ==
    \/ DaemonStops \/ DaemonStarts \/ Deregister \/ Close
    \/ \E w \in Writes : Foreign(w)
    \/ \E k \in Keys : EntryAges(k)

Next ==
    \/ Environment
    \/ \E g \in Callers :
         \/ \E o \in Ops : Call(g, o)
         \/ CallStep(g)
         \/ Done(g)

Spec == Init /\ [][Next]_vars

\* The scheduler runs a goroutine that can run, Go's mutex starves nobody that
\* waits, and a daemon that is up answers on a live connection or drops it.
Fairness ==
    \A g \in Callers :
        /\ WF_vars(CallStep(g) /\ pc[g] \notin {"request", "reopen"})
        /\ SF_vars(Acquire(g) \/ Reopen(g))

FairSpec == Spec /\ Fairness

-----------------------------------------------------------------------------
(* Properties.                                                             *)

\* client.go:454-534: an exchange has sessionMu and a connection to itself
\* from its first byte to its last.  Nobody, a repair included, closes the
\* connection under it (the encoder would be nil), and no second request is
\* written before the first is answered.
SessionIsOwned ==
    \A g \in Callers : pc[g] \in Exchange => mu = g /\ conn # "none"

\* client.go:236-238: a value that GetSecret returns, or any that comes over the
\* connection, was in the keychain at some moment of the call: a rotation
\* elsewhere is seen by every read that begins after it.
ReadIsCurrent ==
    \A g \in Callers :
        pc[g] = "returned" /\ op[g] \in Reads /\ op[g].key \notin CacheKeys
            => reply[g].value \in window[g][op[g].key]

\* cache.go:20-21, client.go:105-107: what the cache holds was in the keychain
\* after the last write of this process that has returned and the last reset of
\* the connection, except for entries whose read was under way at that moment.
CacheKeepsUp ==
    \A k \in CacheKeys : cache[k] # NoEntry /\ k \notin late => cache[k] \in since[k]

\* client.go:430-534, recovery.go:81-108: every call returns, whatever becomes of
\* the connection and the daemon; one resend, one repair, and the repair's own
\* requests neither repair again nor wait for a lock of their caller.
EveryCallReturns ==
    \A g \in Callers : pc[g] # "idle" ~> pc[g] \in {"returned", "failed", "refused"}
=============================================================================
