------------------------- MODULE LoginSessionProofs -------------------------
(***************************************************************************)
(* Theorems about LoginSession, for any processes, goroutines, users and   *)
(* bounds.                                                                 *)
(*                                                                         *)
(* That a refresh token is never used again rests on who may be in a       *)
(* refresh: one goroutine of a process, for it holds refreshMu or is the   *)
(* only one there (RefreshIsExclusive).  While nobody is, the pair in      *)
(* memory is one the process has not exchanged (MemoryIsUnspent), and a    *)
(* process that has exchanged one does not read the keychain again         *)
(* (MemoryIsKept).                                                         *)
(*                                                                         *)
(* That logout forgets rests on what it has removed at each of its steps   *)
(* (LogoutHasRemoved) and on config.json listing all workspace keys while  *)
(* no login or logout is between the two (KeysAreListed).                  *)
(***************************************************************************)
EXTENDS LoginSession, TLAPS

LoginSteps == {"config", "tokens", "keypair", "wskeys", "wsconfig"}
Clearing == {"clearkeys", "clearconfig", "done"}

\* What a thread of process p in state r knows, where `known` have been logged in.
JobIsTyped(r, p, known) ==
    /\ r.pc \in LoginSteps \union {"login"} => r.user \in Users /\ r.job = "login"
    /\ r.pc \in LoginSteps => r.held \in Pair
    /\ r.pc \in LoginSteps \ {"config"} => r.user \in known
    /\ r.pc \in {"check", "forget", "cleartokens"} \union Clearing => r.job = "logout"
    /\ r.job \in {"login", "logout"} \/ r.pc = "ensure" => p \in Commands
    /\ r.pc = "idle" => r = Idle

JobsAreTyped == \A t \in Threads : JobIsTyped(st[t], Owner[t], users)

RefreshIsExclusive ==
    \A t \in Threads : st[t].pc \in {"ask", "keep"} =>
       /\ mem[Owner[t]] # None
       /\ \/ st[t].via = "retry" /\ mu[Owner[t]] = t
          \/ st[t].via = "ensure" /\ Owner[t] \in Commands

Unspent(p, pair) == pair.refresh \notin spent[p]

MemoryIsUnspent ==
    \A p \in Processes :
       mem[p] # None /\ (\A t \in Threads : Owner[t] = p => st[t].pc # "keep") =>
          Unspent(p, mem[p])

HeldIsUnspent ==
    \A t \in Threads : st[t].pc \in {"ask", "keep"} => Unspent(Owner[t], st[t].held)

MemoryIsKept ==
    /\ \A p \in Processes : mem[p] = None =>
          \/ spent[p] = {}
          \/ p \in Commands /\ \A t \in Threads :
                Owner[t] = p => st[t].pc \in Clearing \union {"idle"}
    /\ \A t \in Threads : st[t].pc \in LoginSteps \union {"login"} => spent[Owner[t]] = {}

TokensAreIssued ==
    /\ \A x \in usable : x[2] <= issued
    /\ \A p \in Processes : \A x \in spent[p] : x[2] <= issued

RefreshInv ==
    /\ NobodyWaitsForEver
    /\ RefreshIsExclusive
    /\ MemoryIsUnspent
    /\ HeldIsUnspent
    /\ MemoryIsKept
    /\ TokensAreIssued

SessionInv == TypeOK /\ JobsAreTyped /\ RefreshInv

-----------------------------------------------------------------------------
KeysAreKnown ==
    /\ keypairs \subseteq users /\ wskeys \subseteq users
    /\ config.plain \subseteq config.workspaces
    /\ config.workspaces \subseteq users
    /\ config.email # None => config.email \in users

KeysAreListed ==
    ~torn /\ (\E u \in Users : users \subseteq {u})
          /\ (\A x \in Threads : st[x].pc \notin HalfWay) => wskeys \subseteq config.workspaces

\* The logout of thread t has had the machine to itself so far.
Undisturbed(t) ==
    st[t].job = "logout" /\ st[t].alone /\ ~st[t].missed /\ users = {st[t].user}

HasRemoved(t) ==
    /\ st[t].pc \in {"cleartokens"} \union Clearing => keypairs = {}
    /\ st[t].pc \in Clearing => stored = None /\ mem[Owner[t]] = None
    /\ st[t].pc \in {"clearconfig", "done"} /\ ~torn /\ ~HalfDone(t) => wskeys = {}
    /\ st[t].pc = "done" => tokenfile = None /\ config = NoConfig

LogoutHasRemoved == \A t \in Threads : Undisturbed(t) => HasRemoved(t)

KeyInv == KeysAreKnown /\ KeysAreListed /\ LogoutHasRemoved

-----------------------------------------------------------------------------
(* What a step does to the threads and to the tokens.                      *)

\* Thread t is in state r now; the others are where they were, and those of other
\* processes no longer alone.
Moved(t, r) ==
    /\ st' \in [Threads -> States]
    /\ st'[t] = r
    /\ \A x \in Threads \ {t} :
          /\ st'[x].pc = st[x].pc /\ st'[x].job = st[x].job
          /\ st'[x].user = st[x].user /\ st'[x].held = st[x].held
          /\ st'[x].via = st[x].via /\ st'[x].missed = st[x].missed
          /\ st[x] = Idle => st'[x] = Idle
          /\ st'[x].alone => st[x].alone /\ (Owner[x] = Owner[t] \/ st[x] = Idle)

LEMMA GoMoves ==
    ASSUME TypeOK, NEW t \in Threads, NEW r \in States, Go(t, r)
    PROVE  Moved(t, r)
<1>1. st' = [x \in Threads |->
              IF x = t THEN r
              ELSE IF Owner[x] = Owner[t] \/ st[x] = Idle THEN st[x]
              ELSE [st[x] EXCEPT !.alone = FALSE]]
  BY DEF Go
<1>2. \A x \in Threads : st[x] \in States
  BY DEF TypeOK
<1>3. \A x \in Threads : [st[x] EXCEPT !.alone = FALSE] \in States
  BY <1>2 DEF States
<1>4. st' \in [Threads -> States]
  BY <1>1, <1>2, <1>3
<1>5. ASSUME NEW x \in Threads \ {t}
      PROVE  \/ st'[x] = st[x] /\ (Owner[x] = Owner[t] \/ st[x] = Idle)
             \/ st'[x] = [st[x] EXCEPT !.alone = FALSE] /\ st[x] # Idle
  <2>1. CASE Owner[x] = Owner[t] \/ st[x] = Idle
    BY <1>1, <2>1
  <2>2. CASE ~(Owner[x] = Owner[t] \/ st[x] = Idle)
    BY <1>1, <2>2
  <2> QED
    BY <2>1, <2>2
<1> QED
  BY <1>1, <1>2, <1>4, <1>5 DEF Moved, States

LEMMA LoadedTokens ==
    ASSUME TypeOK, NEW p \in Processes, NEW pair, LoadTokens(p, pair)
    PROVE  /\ pair \in Pair \union {None}
           /\ mem' = [mem EXCEPT ![p] = pair]
           /\ stored' \in Pair \union {None} /\ tokenfile' \in Pair \union {None}
           /\ faults' \in 0 .. MaxFaults
           /\ mem[p] # None => pair = mem[p]
<1> USE SessionAssumption DEF TypeOK, LoadTokens, tokens, Fault, NoFault
<1>1. CASE mem[p] # None /\ pair = mem[p] /\ NoFault /\ UNCHANGED tokens
  BY <1>1
<1>2. CASE /\ mem[p] = None /\ stored # None /\ pair = stored
           /\ mem' = [mem EXCEPT ![p] = pair]
           /\ NoFault /\ UNCHANGED <<stored, tokenfile>>
  BY <1>2
<1>3. CASE /\ mem[p] = None /\ pair = tokenfile
           /\ \/ stored = None /\ stored' = tokenfile /\ NoFault
              \/ UNCHANGED stored /\ Fault
           /\ mem' = [mem EXCEPT ![p] = pair] /\ tokenfile' = None
  BY <1>3
<1> QED
  BY <1>1, <1>2, <1>3

LEMMA SavedTokens ==
    ASSUME TypeOK, NEW t \in Threads, NEW pair \in Pair, NEW ok, NEW failed,
           SaveTokens(t, pair, ok, failed)
    PROVE  /\ mem' = [mem EXCEPT ![Owner[t]] = pair]
           /\ stored' \in Pair \union {None} /\ tokenfile' \in Pair \union {None}
           /\ faults' \in 0 .. MaxFaults
           /\ Go(t, ok) \/ Go(t, failed)
<1>1. CASE stored' = pair /\ tokenfile' = None /\ NoFault /\ Go(t, ok)
  BY <1>1 DEF SaveTokens, TypeOK, NoFault
<1>2. CASE UNCHANGED <<stored, tokenfile>> /\ Fault /\ Go(t, failed)
  BY <1>2, SessionAssumption DEF SaveTokens, TypeOK, Fault
<1> QED
  BY <1>1, <1>2 DEF SaveTokens

Refreshing == {"ask", "keep"}

\* State r is one that a thread of p may be in next.
Sound(r, p) ==
    /\ r \in States /\ JobIsTyped(r, p, users')
    /\ r.pc \in Refreshing => r.held # None

Takes(t, r) == Sound(r, Owner[t]) /\ Moved(t, r)

\* TypeOK without the threads.
DataIsTyped ==
    /\ good \subseteq Token /\ usable \subseteq Token
    /\ stored \in Pair \union {None} /\ tokenfile \in Pair \union {None}
    /\ mem \in [Processes -> Pair \union {None}]
    /\ keypairs \subseteq Users /\ wskeys \subseteq Users
    /\ config \in [email : Users \union {None}, workspaces : SUBSET Users,
                   plain : SUBSET Users, selected : Users \union {None}]
    /\ mu \in [Processes -> Threads \union {None}]
    /\ spent \in [Processes -> SUBSET Token] /\ users \subseteq Users
    /\ torn \in BOOLEAN /\ issued \in 0 .. MaxTokens
    /\ jobs \in 0 .. MaxJobs /\ faults \in 0 .. MaxFaults

LEMMA StaysTyped ==
    ASSUME TypeOK, JobsAreTyped, NEW t \in Threads, NEW r, Takes(t, r), DataIsTyped',
           users \subseteq users'
    PROVE  TypeOK' /\ JobsAreTyped'
<1>1. \A x \in Threads : JobIsTyped(st'[x], Owner[x], users')
  <2> SUFFICES ASSUME NEW x \in Threads PROVE JobIsTyped(st'[x], Owner[x], users')
    OBVIOUS
  <2>1. CASE x = t
    BY <2>1 DEF Takes, Sound, Moved
  <2>2. CASE x # t
    <3>1. /\ st'[x].pc = st[x].pc /\ st'[x].job = st[x].job
          /\ st'[x].user = st[x].user /\ st'[x].held = st[x].held
          /\ st[x] = Idle => st'[x] = Idle
      BY <2>2 DEF Takes, Moved
    <3>2. JobIsTyped(st[x], Owner[x], users)
      BY DEF JobsAreTyped
    <3> QED
      BY <3>1, <3>2 DEF JobIsTyped
  <2> QED
    BY <2>1, <2>2
<1>2. \A x \in Threads : st'[x].pc \in {"ask", "keep"} => st'[x].held # None
  BY DEF Takes, Sound, Refreshing, Moved, TypeOK
<1> QED
  BY <1>1, <1>2 DEF TypeOK, DataIsTyped, JobsAreTyped, Takes, Moved

LEMMA GoTakes ==
    ASSUME TypeOK, NEW t \in Threads, NEW r, Go(t, r), Sound(r, Owner[t])
    PROVE  Takes(t, r)
<1> QED
  BY GoMoves DEF Takes, Sound

\* The states that the steps of a thread end in.
LEMMA SoundStates ==
    ASSUME TypeOK, JobsAreTyped, NEW t \in Threads
    PROVE  /\ Owner[t] \in Processes
           /\ st[t] \in States /\ JobIsTyped(st[t], Owner[t], users)
           /\ \A p : Sound(Idle, p)
           /\ st[t].pc # "idle" => Sound(Ended(t), Owner[t])
           /\ \A pc \in {"request", "send", "denied"}, held \in Pair \union {None} :
                 /\ Sound(To(t, pc), Owner[t]) /\ To(t, pc).pc = pc
                 /\ Sound([To(t, pc) EXCEPT !.held = held], Owner[t])
                 /\ [To(t, pc) EXCEPT !.held = held].pc = pc
           /\ Idle.pc = "idle"
           /\ Ended(t) = Idle \/ Ended(t).pc = "forget"
<1>1. /\ Owner[t] \in Processes
      /\ st[t] \in States /\ JobIsTyped(st[t], Owner[t], users)
  BY SessionAssumption DEF TypeOK, JobsAreTyped
<1> USE DEF Sound, JobIsTyped, LoginSteps, Clearing, Refreshing
<1>2. (\A p : Sound(Idle, p)) /\ Idle.pc = "idle"
  BY DEF Idle, States, Steps
<1>3. /\ st[t].pc # "idle" => Sound(Ended(t), Owner[t])
      /\ Ended(t) = Idle \/ Ended(t).pc = "forget"
  BY <1>1, <1>2 DEF Ended, To, States, Steps
<1>4. ASSUME NEW pc \in {"request", "send", "denied"}, NEW held \in Pair \union {None}
      PROVE  /\ Sound(To(t, pc), Owner[t]) /\ To(t, pc).pc = pc
             /\ Sound([To(t, pc) EXCEPT !.held = held], Owner[t])
             /\ [To(t, pc) EXCEPT !.held = held].pc = pc
  <2>1. To(t, pc) \in States /\ To(t, pc).pc = pc /\ To(t, pc).job = st[t].job
    BY <1>1 DEF To, States, Steps
  <2>2. /\ [To(t, pc) EXCEPT !.held = held] \in States
        /\ [To(t, pc) EXCEPT !.held = held].pc = pc
        /\ [To(t, pc) EXCEPT !.held = held].job = st[t].job
    BY <2>1 DEF States
  <2> QED
    BY <1>1, <2>1, <2>2
<1> QED
  BY <1>1, <1>2, <1>3, <1>4

-----------------------------------------------------------------------------
(* Steps of no refresh.  They may read the tokens into memory, which       *)
(* changes them only if there were none there.                             *)

Aside(pc) == pc \in Clearing \union {"idle"}
InLogin(pc) == pc \in LoginSteps \union {"login"}

QuietMove(t, r) ==
    /\ st[t].pc \notin Refreshing /\ r.pc \notin Refreshing
    /\ Aside(st[t].pc) => Aside(r.pc)
    /\ InLogin(r.pc) => InLogin(st[t].pc)
    /\ UNCHANGED <<mu, spent>> /\ users \subseteq users'
    /\ \/ UNCHANGED mem
       \/ /\ ~Aside(st[t].pc)
          /\ \E pair \in Pair \union {None} :
                mem' = [mem EXCEPT ![Owner[t]] = pair]
                   /\ (mem[Owner[t]] # None => pair = mem[Owner[t]])
    /\ issued <= issued'
    /\ \A x \in usable' : x \in usable \/ x[2] <= issued'

LEMMA QuietStep ==
    ASSUME SessionInv, NEW t \in Threads, NEW r, Takes(t, r), QuietMove(t, r), DataIsTyped'
    PROVE  SessionInv'
<1>1. TypeOK' /\ JobsAreTyped'
  BY StaysTyped DEF SessionInv, QuietMove
<1>2. /\ TypeOK /\ DataIsTyped' /\ Owner[t] \in Processes
      /\ st[t].pc \notin Refreshing /\ r.pc \notin Refreshing
      /\ mu' = mu /\ spent' = spent
      /\ \A x \in Threads : Owner[x] \in Processes
  BY SessionAssumption DEF SessionInv, QuietMove
<1>3. /\ st'[t] = r
      /\ \A x \in Threads \ {t} : /\ st'[x].pc = st[x].pc /\ st'[x].via = st[x].via
                                  /\ st'[x].held = st[x].held
  BY DEF Takes, Moved
<1>4. ASSUME NEW p \in Processes
      PROVE  \/ mem'[p] = mem[p]
             \/ mem[p] = None /\ mem'[p] # None /\ p = Owner[t] /\ ~Aside(st[t].pc)
  BY <1>2 DEF QuietMove, TypeOK
<1>5. NobodyWaitsForEver'
  BY <1>2, <1>3, SessionAssumption
     DEF NobodyWaitsForEver, TypeOK, SessionInv, RefreshInv, Refreshing
<1>6. RefreshIsExclusive'
  BY <1>2, <1>3, <1>4 DEF RefreshIsExclusive, SessionInv, RefreshInv, Refreshing
<1>7. HeldIsUnspent'
  BY <1>2, <1>3 DEF HeldIsUnspent, Unspent, SessionInv, RefreshInv, Refreshing
<1>8. ASSUME NEW p \in Processes, mem'[p] = None
      PROVE  \/ spent'[p] = {}
             \/ p \in Commands /\ \A x \in Threads : Owner[x] = p => Aside(st'[x].pc)
  <2>1. mem[p] = None
    BY <1>4, <1>8
  <2>2. \/ spent[p] = {}
        \/ p \in Commands /\ \A x \in Threads : Owner[x] = p => Aside(st[x].pc)
    BY <2>1 DEF SessionInv, RefreshInv, MemoryIsKept, Aside
  <2> QED
    BY <1>2, <1>3, <2>2 DEF QuietMove
<1>9. ASSUME NEW x \in Threads, InLogin(st'[x].pc)
      PROVE  spent'[Owner[x]] = {}
  <2>1. InLogin(st[x].pc)
    BY <1>3, <1>9 DEF QuietMove
  <2> QED
    BY <1>2, <2>1 DEF SessionInv, RefreshInv, MemoryIsKept, InLogin
<1>10. MemoryIsKept'
  BY <1>8, <1>9 DEF MemoryIsKept, Aside, InLogin
<1>11. ASSUME NEW p \in Processes, mem'[p] # None,
              \A x \in Threads : Owner[x] = p => st'[x].pc # "keep"
       PROVE  Unspent(p, mem[p])' 
  <2>1. CASE mem'[p] = mem[p]
    <3>1. \A x \in Threads : Owner[x] = p => st[x].pc # "keep"
      BY <1>2, <1>3, <1>11 DEF Refreshing
    <3> QED
      BY <1>2, <1>11, <2>1, <3>1 DEF SessionInv, RefreshInv, MemoryIsUnspent, Unspent
  <2>2. CASE mem[p] = None /\ p = Owner[t] /\ ~Aside(st[t].pc)
    <3>1. spent[p] = {}
      BY <2>2 DEF SessionInv, RefreshInv, MemoryIsKept, Aside
    <3> QED
      BY <1>2, <3>1 DEF Unspent
  <2> QED
    BY <1>4, <2>1, <2>2
<1>12. MemoryIsUnspent'
  BY <1>11 DEF MemoryIsUnspent
<1>13. TokensAreIssued'
  <2>1. ASSUME NEW x \in usable' PROVE x[2] <= issued'
    BY <1>2, <2>1 DEF SessionInv, RefreshInv, TokensAreIssued, QuietMove, TypeOK,
                      DataIsTyped, Token
  <2>2. ASSUME NEW p \in Processes, NEW x \in spent'[p] PROVE x[2] <= issued'
    BY <1>2, <2>2 DEF SessionInv, RefreshInv, TokensAreIssued, QuietMove, TypeOK,
                      DataIsTyped, Token
  <2> QED
    BY <2>1, <2>2 DEF TokensAreIssued
<1> QED
  BY <1>1, <1>5, <1>6, <1>7, <1>10, <1>12, <1>13 DEF SessionInv, RefreshInv

\* What every step that loads the tokens leaves alone.
LEMMA LoadedData ==
    ASSUME TypeOK, NEW p \in Processes, NEW pair, LoadTokens(p, pair),
           mu' \in [Processes -> Threads \union {None}],
           UNCHANGED <<server, keys, config, history, issued, jobs>>
    PROVE  DataIsTyped' /\ spent' = spent /\ usable' = usable /\ users' = users
<1>1. /\ pair \in Pair \union {None} /\ mem' = [mem EXCEPT ![p] = pair]
      /\ stored' \in Pair \union {None} /\ tokenfile' \in Pair \union {None}
      /\ faults' \in 0 .. MaxFaults
  BY LoadedTokens
<1> QED
  BY <1>1 DEF TypeOK, DataIsTyped, server, keys, history

LEMMA LoadStep ==
    ASSUME SessionInv, NEW t \in Threads, NEW pair, LoadTokens(Owner[t], pair),
           UNCHANGED <<server, keys, config, mu, history, issued, jobs>>,
           st[t].pc \notin Refreshing, ~Aside(st[t].pc), ~InLogin(st[t].pc),
           NEW r, Sound(r, Owner[t]), Go(t, r),
           r.pc \notin Refreshing, ~InLogin(r.pc)
    PROVE  SessionInv'
<1>1. TypeOK /\ JobsAreTyped /\ Owner[t] \in Processes
  BY SessionAssumption DEF SessionInv
<1>2. /\ pair \in Pair \union {None}
      /\ mem' = [mem EXCEPT ![Owner[t]] = pair]
      /\ mem[Owner[t]] # None => pair = mem[Owner[t]]
  BY <1>1, LoadedTokens
<1>3. DataIsTyped' /\ spent' = spent /\ usable' = usable /\ users' = users
  BY <1>1, LoadedData DEF TypeOK
<1>4. mu' = mu /\ issued' = issued /\ issued <= issued
  BY <1>1 DEF TypeOK
<1>5. QuietMove(t, r)
  BY <1>2, <1>3, <1>4 DEF QuietMove
<1>6. Takes(t, r)
  BY <1>1, GoTakes
<1> QED
  BY <1>3, <1>5, <1>6, QuietStep

\* The start of a refresh.
LEMMA AskStart ==
    ASSUME SessionInv, NEW t \in Threads, NEW pair, LoadTokens(Owner[t], pair), pair # None,
           UNCHANGED <<server, keys, config, history, issued, jobs>>,
           ~Aside(st[t].pc), ~InLogin(st[t].pc),
           NEW r, r = [To(t, "ask") EXCEPT !.held = pair, !.via = r.via], Go(t, r),
           \/ r.via = "ensure" /\ st[t].pc = "ensure" /\ UNCHANGED mu
           \/ /\ r.via = "retry" /\ st[t].pc = "denied"
              /\ mu[Owner[t]] = None /\ mu' = [mu EXCEPT ![Owner[t]] = t]
    PROVE  SessionInv'
<1> DEFINE p == Owner[t]
<1>1. /\ TypeOK /\ JobsAreTyped /\ p \in Processes
      /\ \A x \in Threads : Owner[x] \in Processes
      /\ st[t] \in States /\ JobIsTyped(st[t], p, users)
  BY SessionAssumption DEF SessionInv, TypeOK, JobsAreTyped
<1>2. /\ pair \in Pair \union {None}
      /\ mem' = [mem EXCEPT ![p] = pair]
      /\ mem[p] # None => pair = mem[p]
  BY <1>1, LoadedTokens
<1>3. mu' \in [Processes -> Threads \union {None}]
  BY <1>1 DEF TypeOK
<1>4. DataIsTyped' /\ spent' = spent /\ usable' = usable /\ users' = users
  BY <1>1, <1>3, LoadedData
<1>5. /\ r \in States /\ r.pc = "ask" /\ r.job = st[t].job /\ r.held = pair
      /\ st[t].pc \notin Refreshing
  BY <1>1, <1>2 DEF To, States, Steps, Refreshing
<1>6. Takes(t, r)
  <2>1. JobIsTyped(r, p, users')
    BY <1>1, <1>4, <1>5 DEF JobIsTyped, LoginSteps, Clearing
  <2> QED
    BY <1>1, <1>5, <2>1, GoTakes DEF Sound
<1>7. TypeOK' /\ JobsAreTyped'
  BY <1>1, <1>4, <1>6, StaysTyped
<1>8. /\ st'[t] = r
      /\ \A x \in Threads \ {t} : /\ st'[x].pc = st[x].pc /\ st'[x].via = st[x].via
                                  /\ st'[x].held = st[x].held
  BY <1>6 DEF Takes, Moved
<1>9. \A x \in Threads : Owner[x] = p => st[x].pc \notin Refreshing
  <2>1. CASE p \in Commands
    BY <1>5, <2>1, SessionAssumption
  <2>2. CASE mu[p] = None
    <3>1. \A x \in Threads : Owner[x] = p /\ st[x].pc \in Refreshing =>
             mu[p] = x \/ p \in Commands
      BY DEF SessionInv, RefreshInv, RefreshIsExclusive, Refreshing
    <3> QED
      BY <2>1, <2>2, <3>1, SessionAssumption
  <2> QED
    BY <1>1, <2>1, <2>2 DEF JobIsTyped
<1>10. Unspent(p, pair)
  <2>1. CASE mem[p] # None
    BY <1>1, <1>2, <1>9, <2>1
       DEF SessionInv, RefreshInv, MemoryIsUnspent, Refreshing
  <2>2. CASE mem[p] = None
    BY <1>1, <2>2 DEF SessionInv, RefreshInv, MemoryIsKept, Aside, Unspent
  <2> QED
    BY <2>1, <2>2
<1>11. ASSUME NEW q \in Processes PROVE mem'[q] = IF q = p THEN pair ELSE mem[q]
  BY <1>1, <1>2 DEF TypeOK
<1>12. NobodyWaitsForEver'
  BY <1>1, <1>5, <1>8, SessionAssumption
     DEF NobodyWaitsForEver, TypeOK, SessionInv, RefreshInv, Refreshing
<1>13. RefreshIsExclusive'
  <2> SUFFICES ASSUME NEW x \in Threads, st'[x].pc \in Refreshing
               PROVE  /\ mem'[Owner[x]] # None
                      /\ \/ st'[x].via = "retry" /\ mu'[Owner[x]] = x
                         \/ st'[x].via = "ensure" /\ Owner[x] \in Commands
    BY DEF RefreshIsExclusive, Refreshing
  <2>1. CASE x = t
    BY <1>1, <1>5, <1>8, <1>11, <2>1 DEF JobIsTyped, TypeOK
  <2>2. CASE x # t
    <3>1. Owner[x] # p /\ mem'[Owner[x]] = mem[Owner[x]] /\ mu'[Owner[x]] = mu[Owner[x]]
      BY <1>1, <1>8, <1>9, <1>11, <2>2 DEF TypeOK
    <3> QED
      BY <1>8, <2>2, <3>1 DEF SessionInv, RefreshInv, RefreshIsExclusive, Refreshing
  <2> QED
    BY <2>1, <2>2
<1>14. HeldIsUnspent'
  BY <1>4, <1>5, <1>8, <1>10
     DEF HeldIsUnspent, Unspent, SessionInv, RefreshInv, Refreshing
<1>15. MemoryIsUnspent'
  <2> SUFFICES ASSUME NEW q \in Processes, mem'[q] # None,
                      \A x \in Threads : Owner[x] = q => st'[x].pc # "keep"
               PROVE  mem'[q].refresh \notin spent'[q]
    BY DEF MemoryIsUnspent, Unspent
  <2>1. CASE q = p
    BY <1>4, <1>10, <1>11, <2>1 DEF Unspent
  <2>2. CASE q # p
    <3>1. \A x \in Threads : Owner[x] = q => st[x].pc # "keep"
      BY <1>8, <2>2
    <3> QED
      BY <1>4, <1>11, <2>2, <3>1 DEF SessionInv, RefreshInv, MemoryIsUnspent, Unspent
  <2> QED
    BY <2>1, <2>2
<1>16. MemoryIsKept'
  <2>1. ASSUME NEW q \in Processes, mem'[q] = None
        PROVE  \/ spent'[q] = {}
               \/ q \in Commands /\ \A x \in Threads : Owner[x] = q => Aside(st'[x].pc)
    <3>1. q # p /\ mem[q] = None
      BY <1>11, <2>1
    <3> QED
      BY <1>4, <1>8, <3>1 DEF SessionInv, RefreshInv, MemoryIsKept, Aside
  <2>2. ASSUME NEW x \in Threads, InLogin(st'[x].pc)
        PROVE  spent'[Owner[x]] = {}
    <3>1. InLogin(st[x].pc)
      BY <1>5, <1>8, <2>2 DEF InLogin, LoginSteps
    <3> QED
      BY <1>4, <3>1 DEF SessionInv, RefreshInv, MemoryIsKept, InLogin
  <2> QED
    BY <2>1, <2>2 DEF MemoryIsKept, Aside, InLogin
<1>17. TokensAreIssued'
  BY <1>4 DEF TokensAreIssued, SessionInv, RefreshInv
<1> QED
  BY <1>7, <1>12, <1>13, <1>14, <1>15, <1>16, <1>17 DEF SessionInv, RefreshInv

LEMMA EnsureStep ==
    ASSUME SessionInv, NEW t \in Threads, Ensure(t) PROVE SessionInv'
<1>1. PICK pair \in Known(Owner[t]), expired \in BOOLEAN :
         /\ LoadTokens(Owner[t], pair)
         /\ Go(t, IF pair = None \/ config.email = None THEN Idle
                  ELSE IF expired
                       THEN [To(t, "ask") EXCEPT !.held = pair, !.via = "ensure"]
                       ELSE To(t, "request"))
  BY Zenon DEF Ensure
<1>2. /\ TypeOK /\ JobsAreTyped /\ st[t].pc = "ensure"
      /\ UNCHANGED <<server, keys, config, mu, history, issued, jobs>>
  BY DEF SessionInv, Ensure, At
<1>3. /\ st[t] \in States
      /\ Sound(Idle, Owner[t]) /\ Idle.pc = "idle"
      /\ Sound(To(t, "request"), Owner[t]) /\ To(t, "request").pc = "request"
  BY <1>2, SoundStates
<1>4. /\ st[t].pc \notin Refreshing /\ ~Aside(st[t].pc) /\ ~InLogin(st[t].pc)
      /\ \A pc \in {"idle", "request"} : pc \notin Refreshing /\ ~InLogin(pc)
  BY <1>2 DEF Refreshing, Aside, InLogin, Clearing, LoginSteps
<1>5. ASSUME NEW r, Sound(r, Owner[t]), Go(t, r), r.pc \in {"idle", "request"}
      PROVE  SessionInv'
  BY <1>1, <1>2, <1>4, <1>5, LoadStep
<1>6. CASE pair # None /\ Go(t, [To(t, "ask") EXCEPT !.held = pair, !.via = "ensure"])
  <2> DEFINE r == [To(t, "ask") EXCEPT !.held = pair, !.via = "ensure"]
  <2>1. r.via = "ensure"
    BY <1>3 DEF To, States
  <2> HIDE DEF r
  <2>2. r = [To(t, "ask") EXCEPT !.held = pair, !.via = r.via]
    BY <2>1 DEF r
  <2>3. Go(t, r) /\ UNCHANGED mu /\ UNCHANGED <<server, keys, config, history, issued, jobs>>
    BY <1>2, <1>6 DEF r
  <2> QED
    BY <1>1, <1>2, <1>4, <1>6, <2>1, <2>2, <2>3, AskStart
<1> QED
  BY <1>1, <1>3, <1>5, <1>6

LEMMA RequestStep ==
    ASSUME SessionInv, NEW t \in Threads, Request(t) PROVE SessionInv'
<1>1. PICK pair \in Known(Owner[t]) :
         LoadTokens(Owner[t], pair) /\ Go(t, [To(t, "send") EXCEPT !.held = pair])
  BY Zenon DEF Request
<1>2. /\ TypeOK /\ JobsAreTyped /\ st[t].pc = "request" /\ Owner[t] \in Processes
      /\ UNCHANGED <<server, keys, config, mu, history, issued, jobs>>
  BY SessionAssumption DEF SessionInv, Request, At
<1>3. pair \in Pair \union {None}
  BY <1>1, <1>2, LoadedTokens
<1> DEFINE r == [To(t, "send") EXCEPT !.held = pair]
<1>4. Sound(r, Owner[t]) /\ r.pc = "send"
  BY <1>2, <1>3, SoundStates
<1>5. /\ st[t].pc \notin Refreshing /\ ~Aside(st[t].pc) /\ ~InLogin(st[t].pc)
      /\ r.pc \notin Refreshing /\ ~InLogin(r.pc)
  BY <1>2, <1>4 DEF Refreshing, Aside, InLogin, Clearing, LoginSteps
<1> QED
  BY <1>1, <1>2, <1>4, <1>5, LoadStep

LEMMA CheckStep ==
    ASSUME SessionInv, NEW t \in Threads, Check(t) PROVE SessionInv'
<1>1. PICK pair \in Known(Owner[t]) :
         /\ LoadTokens(Owner[t], pair)
         /\ Go(t, IF pair = None \/ config.email = None THEN Idle
                  ELSE [To(t, "request") EXCEPT !.user = config.email])
  BY Zenon DEF Check
<1>2. /\ TypeOK /\ JobsAreTyped /\ st[t].pc = "check"
      /\ UNCHANGED <<server, keys, config, mu, history, issued, jobs>>
  BY DEF SessionInv, Check, At
<1>3. /\ st[t] \in States /\ JobIsTyped(st[t], Owner[t], users)
      /\ Sound(Idle, Owner[t]) /\ Idle.pc = "idle"
  BY <1>2, SoundStates
<1> DEFINE r == [To(t, "request") EXCEPT !.user = config.email]
<1>4. r \in States /\ r.pc = "request" /\ r.job = st[t].job
  BY <1>2, <1>3 DEF To, States, Steps, TypeOK
<1>5. Sound(r, Owner[t])
  BY <1>3, <1>4 DEF Sound, JobIsTyped, LoginSteps, Clearing, Refreshing
<1>6. /\ st[t].pc \notin Refreshing /\ ~Aside(st[t].pc) /\ ~InLogin(st[t].pc)
      /\ \A pc \in {"idle", "request"} : pc \notin Refreshing /\ ~InLogin(pc)
  BY <1>2 DEF Refreshing, Aside, InLogin, Clearing, LoginSteps
<1>7. Go(t, Idle) \/ Go(t, r)
  BY <1>1
<1> QED
  BY <1>1, <1>2, <1>3, <1>4, <1>5, <1>6, <1>7, LoadStep

LEMMA DeniedStep ==
    ASSUME SessionInv, NEW t \in Threads, Denied(t) PROVE SessionInv'
<1>1. PICK pair \in Known(Owner[t]) :
         /\ LoadTokens(Owner[t], pair)
         /\ IF pair = None
              THEN Go(t, Ended(t)) /\ UNCHANGED mu
              ELSE /\ Go(t, [To(t, "ask") EXCEPT !.held = pair, !.via = "retry"])
                   /\ mu' = [mu EXCEPT ![Owner[t]] = t]
  BY Zenon DEF Denied, Refresh
<1>2. /\ TypeOK /\ JobsAreTyped /\ st[t].pc = "denied" /\ mu[Owner[t]] = None
      /\ UNCHANGED <<server, keys, config, history, issued, jobs>>
  BY DEF SessionInv, Denied, Refresh, At
<1>3. /\ st[t] \in States
      /\ Sound(Ended(t), Owner[t]) /\ Ended(t).pc \in {"idle", "forget"}
  BY <1>2, SoundStates
<1>4. /\ st[t].pc \notin Refreshing /\ ~Aside(st[t].pc) /\ ~InLogin(st[t].pc)
      /\ \A pc \in {"idle", "forget"} : pc \notin Refreshing /\ ~InLogin(pc)
  BY <1>2 DEF Refreshing, Aside, InLogin, Clearing, LoginSteps
<1>5. CASE pair = None
  <2>1. Go(t, Ended(t)) /\ UNCHANGED <<server, keys, config, mu, history, issued, jobs>>
    BY <1>1, <1>2, <1>5
  <2> QED
    BY <1>1, <1>3, <1>4, <2>1, LoadStep
<1>6. CASE pair # None
  <2> DEFINE r == [To(t, "ask") EXCEPT !.held = pair, !.via = "retry"]
  <2>1. r.via = "retry"
    BY <1>3 DEF To, States
  <2> HIDE DEF r
  <2>2. r = [To(t, "ask") EXCEPT !.held = pair, !.via = r.via]
    BY <2>1 DEF r
  <2>3. Go(t, r) /\ mu' = [mu EXCEPT ![Owner[t]] = t]
    BY <1>1, <1>6 DEF r
  <2> QED
    BY <1>1, <1>2, <1>4, <1>6, <2>1, <2>2, <2>3, AskStart
<1> QED
  BY <1>5, <1>6

\* A step that has nothing to do with the tokens in memory.
LEMMA PlainStep ==
    ASSUME SessionInv, NEW t \in Threads, NEW r, Sound(r, Owner[t]), Go(t, r), DataIsTyped',
           st[t].pc \notin Refreshing, r.pc \notin Refreshing,
           Aside(st[t].pc) => Aside(r.pc), InLogin(r.pc) => InLogin(st[t].pc),
           UNCHANGED <<mem, mu, spent>>, users \subseteq users',
           issued <= issued', \A x \in usable' : x \in usable \/ x[2] <= issued'
    PROVE  SessionInv'
<1>1. QuietMove(t, r)
  BY DEF QuietMove
<1>2. Takes(t, r)
  BY GoTakes DEF SessionInv
<1> QED
  BY <1>1, <1>2, QuietStep

LEMMA SendStep ==
    ASSUME SessionInv, NEW t \in Threads, Send(t) PROVE SessionInv'
<1>1. /\ TypeOK /\ JobsAreTyped /\ st[t].pc = "send"
      /\ UNCHANGED <<tokens, keys, config, mu, history, issued, jobs>>
  BY DEF SessionInv, Send, At
<1>2. /\ good' \subseteq good /\ usable' \subseteq usable
      /\ faults' \in 0 .. MaxFaults
      /\ Go(t, Ended(t)) \/ Go(t, To(t, "denied"))
  BY <1>1, SessionAssumption DEF Send, server, TypeOK, Fault, NoFault
<1>3. /\ Sound(Ended(t), Owner[t]) /\ Ended(t).pc \in {"idle", "forget"}
      /\ Sound(To(t, "denied"), Owner[t]) /\ To(t, "denied").pc = "denied"
  BY <1>1, SoundStates
<1>4. DataIsTyped'
  BY <1>1, <1>2 DEF TypeOK, DataIsTyped, tokens, keys, history
<1>5. /\ st[t].pc \notin Refreshing /\ ~Aside(st[t].pc)
      /\ \A pc \in {"idle", "forget", "denied"} : pc \notin Refreshing /\ ~InLogin(pc)
  BY <1>1 DEF Refreshing, Aside, InLogin, Clearing, LoginSteps
<1>6. UNCHANGED <<mem, mu, spent, issued>> /\ users \subseteq users' /\ issued <= issued'
  BY <1>1 DEF tokens, history, TypeOK
<1> QED
  BY <1>2, <1>3, <1>4, <1>5, <1>6, PlainStep

LEMMA LoginStep ==
    ASSUME SessionInv, NEW t \in Threads, Login(t) PROVE SessionInv'
<1> DEFINE fresh == <<st[t].user, issued + 1>>
           pair == [access |-> fresh, refresh |-> fresh]
           r == [To(t, "config") EXCEPT !.held = pair]
<1>1. /\ TypeOK /\ JobsAreTyped /\ st[t].pc = "login"
      /\ UNCHANGED <<tokens, keys, config, mu, history, jobs>>
  BY DEF SessionInv, Login, At
<1>2. /\ st[t] \in States /\ JobIsTyped(st[t], Owner[t], users)
      /\ Sound(Idle, Owner[t]) /\ Idle.pc = "idle"
  BY <1>1, SoundStates
<1>3. /\ st[t].pc \notin Refreshing /\ ~Aside(st[t].pc) /\ InLogin(st[t].pc)
      /\ \A pc \in {"idle", "config"} : pc \notin Refreshing
  BY <1>1 DEF Refreshing, Aside, InLogin, Clearing, LoginSteps
<1>4. UNCHANGED <<mem, mu, spent>> /\ users \subseteq users' /\ users' = users
  BY <1>1 DEF tokens, history
<1>5. CASE /\ issued < MaxTokens /\ issued' = issued + 1 /\ NoFault
           /\ good' = good \union {fresh} /\ usable' = usable \union {fresh}
           /\ Go(t, r)
  <2>1. fresh \in Token /\ pair \in Pair
    BY <1>1, <1>2, <1>5, SessionAssumption DEF Token, Pair, TypeOK, JobIsTyped
  <2>2. r \in States /\ r.pc = "config" /\ r.job = st[t].job /\ r.user = st[t].user
        /\ r.held = pair
    BY <1>2, <2>1 DEF To, States, Steps
  <2>3. Sound(r, Owner[t])
    BY <1>1, <1>2, <2>1, <2>2 DEF Sound, JobIsTyped, LoginSteps, Clearing, Refreshing
  <2>4. DataIsTyped'
    BY <1>1, <1>5, <2>1, SessionAssumption
       DEF TypeOK, DataIsTyped, tokens, keys, history, NoFault
  <2>5. issued <= issued' /\ \A x \in usable' : x \in usable \/ x[2] <= issued'
    BY <1>1, <1>5 DEF TypeOK
  <2> QED
    BY <1>3, <1>4, <1>5, <2>2, <2>3, <2>4, <2>5, PlainStep
<1>6. CASE UNCHANGED <<server, issued>> /\ Go(t, Idle) /\ (Fault \/ NoFault)
  <2>1. DataIsTyped'
    BY <1>1, <1>6, SessionAssumption
       DEF TypeOK, DataIsTyped, server, tokens, keys, history, Fault, NoFault
  <2>2. issued <= issued' /\ usable' = usable
    BY <1>1, <1>6 DEF server, TypeOK
  <2> QED
    BY <1>2, <1>3, <1>4, <1>6, <2>1, <2>2, PlainStep
<1> QED
  BY <1>5, <1>6 DEF Login

\* The steps of a login and a logout that only move between keychain and config.json.
LEMMA FileStep ==
    ASSUME SessionInv, NEW t \in Threads,
           UNCHANGED <<server, mem, mu, spent, issued, jobs>>, NEW r, Go(t, r),
           Sound(r, Owner[t]), DataIsTyped', users \subseteq users',
           \/ r.pc \in {"idle", "clearconfig", "done"}
           \/ r.pc = "clearkeys" /\ ~Aside(st[t].pc)
           \/ r.pc = "cleartokens" /\ ~Aside(st[t].pc)
           \/ r.pc \in {"tokens", "wskeys", "wsconfig"} /\ InLogin(st[t].pc),
           st[t].pc \notin Refreshing
    PROVE  SessionInv'
<1>1. /\ Aside(st[t].pc) => Aside(r.pc)
      /\ InLogin(r.pc) => InLogin(st[t].pc)
      /\ r.pc \notin Refreshing
  BY DEF Aside, InLogin, Clearing, LoginSteps, Refreshing
<1>2. issued <= issued' /\ usable' = usable /\ UNCHANGED <<mem, mu, spent>>
  BY DEF SessionInv, TypeOK, server
<1> QED
  BY <1>1, <1>2, PlainStep

LEMMA NextInLogin ==
    ASSUME TypeOK, JobsAreTyped, NEW t \in Threads, st[t].pc \in LoginSteps,
           NEW pc \in LoginSteps \ {"config"}, st[t].user \in users'
    PROVE  Sound(To(t, pc), Owner[t]) /\ To(t, pc).pc = pc
<1>1. st[t] \in States /\ JobIsTyped(st[t], Owner[t], users)
  BY SoundStates
<1>2. /\ To(t, pc) \in States /\ To(t, pc).pc = pc /\ To(t, pc).job = st[t].job
      /\ To(t, pc).user = st[t].user /\ To(t, pc).held = st[t].held
  BY <1>1 DEF To, States, Steps, LoginSteps
<1> QED
  BY <1>1, <1>2 DEF Sound, JobIsTyped, LoginSteps, Clearing, Refreshing

LEMMA NextInLogout ==
    ASSUME TypeOK, JobsAreTyped, NEW t \in Threads, st[t].job = "logout",
           NEW pc \in {"cleartokens"} \union Clearing
    PROVE  /\ Sound(To(t, pc), Owner[t]) /\ To(t, pc).pc = pc
           /\ Sound([To(t, pc) EXCEPT !.missed = TRUE], Owner[t])
           /\ [To(t, pc) EXCEPT !.missed = TRUE].pc = pc
<1>1. st[t] \in States /\ JobIsTyped(st[t], Owner[t], users)
  BY SoundStates
<1>2. To(t, pc) \in States /\ To(t, pc).pc = pc /\ To(t, pc).job = st[t].job
  BY <1>1 DEF To, States, Steps, Clearing
<1>3. /\ [To(t, pc) EXCEPT !.missed = TRUE] \in States
      /\ [To(t, pc) EXCEPT !.missed = TRUE].pc = pc
      /\ [To(t, pc) EXCEPT !.missed = TRUE].job = st[t].job
  BY <1>2 DEF States
<1> QED
  BY <1>1, <1>2, <1>3 DEF Sound, JobIsTyped, LoginSteps, Clearing, Refreshing

LEMMA LoginFileStep ==
    ASSUME SessionInv, NEW t \in Threads,
           \/ LoginConfig(t) \/ StoreKeypair(t) \/ StoreKeys(t) \/ StoreWorkspaces(t)
    PROVE  SessionInv'
<1>1. /\ TypeOK /\ JobsAreTyped /\ st[t].pc \in LoginSteps
      /\ st[t].pc \notin Refreshing /\ InLogin(st[t].pc)
  BY DEF SessionInv, LoginConfig, StoreKeypair, StoreKeys, StoreWorkspaces, At,
         LoginSteps, InLogin, Refreshing
<1>2. JobIsTyped(st[t], Owner[t], users) /\ Sound(Idle, Owner[t]) /\ Idle.pc = "idle"
  BY <1>1, SoundStates
<1>3. st[t].user \in Users /\ (st[t].pc # "config" => st[t].user \in users)
  BY <1>1, <1>2 DEF JobIsTyped
<1> USE DEF server, tokens, keys, history, At, NoFault, Fault
<1>4. ASSUME LoginConfig(t) PROVE SessionInv'
  <2>1. DataIsTyped' /\ users' = users \union {st[t].user}
    BY <1>1, <1>3, <1>4 DEF LoginConfig, TypeOK, DataIsTyped
  <2>2. Sound(To(t, "tokens"), Owner[t]) /\ To(t, "tokens").pc = "tokens"
    BY <1>1, <2>1, NextInLogin DEF LoginSteps
  <2> QED
    BY <1>1, <1>4, <2>1, <2>2, FileStep DEF LoginConfig
<1>5. ASSUME StoreKeypair(t) PROVE SessionInv'
  <2>1. DataIsTyped' /\ users' = users
    BY <1>1, <1>3, <1>5, SessionAssumption DEF StoreKeypair, TypeOK, DataIsTyped
  <2>2. Sound(To(t, "wskeys"), Owner[t]) /\ To(t, "wskeys").pc = "wskeys"
    BY <1>1, <1>3, <1>5, <2>1, NextInLogin DEF LoginSteps, StoreKeypair
  <2> QED
    BY <1>1, <1>2, <1>5, <2>1, <2>2, FileStep DEF StoreKeypair
<1>6. ASSUME StoreKeys(t) PROVE SessionInv'
  <2>1. DataIsTyped' /\ users' = users
    BY <1>1, <1>3, <1>6, SessionAssumption DEF StoreKeys, TypeOK, DataIsTyped
  <2>2. Sound(To(t, "wsconfig"), Owner[t]) /\ To(t, "wsconfig").pc = "wsconfig"
    BY <1>1, <1>3, <1>6, <2>1, NextInLogin DEF LoginSteps, StoreKeys
  <2> QED
    BY <1>1, <1>2, <1>6, <2>1, <2>2, FileStep DEF StoreKeys
<1>7. ASSUME StoreWorkspaces(t) PROVE SessionInv'
  <2>1. DataIsTyped' /\ users' = users
    BY <1>1, <1>3, <1>7 DEF StoreWorkspaces, TypeOK, DataIsTyped
  <2> QED
    BY <1>1, <1>2, <1>7, <2>1, FileStep DEF StoreWorkspaces
<1> QED
  BY <1>4, <1>5, <1>6, <1>7

LEMMA LogoutFileStep ==
    ASSUME SessionInv, NEW t \in Threads,
           ForgetKeypair(t) \/ ClearKeys(t) \/ ClearConfig(t) \/ LoggedOut(t)
    PROVE  SessionInv'
<1>1. /\ TypeOK /\ JobsAreTyped /\ st[t].pc \notin Refreshing
      /\ st[t].pc \in {"forget"} \union Clearing
  BY DEF SessionInv, ForgetKeypair, ClearKeys, ClearConfig, LoggedOut, At, Clearing,
         Refreshing
<1>2. /\ JobIsTyped(st[t], Owner[t], users) /\ Sound(Idle, Owner[t]) /\ Idle.pc = "idle"
      /\ \A pc \in {"cleartokens"} \union Clearing : st[t].job = "logout" =>
           /\ Sound(To(t, pc), Owner[t]) /\ To(t, pc).pc = pc
           /\ Sound([To(t, pc) EXCEPT !.missed = TRUE], Owner[t])
           /\ [To(t, pc) EXCEPT !.missed = TRUE].pc = pc
  BY <1>1, SoundStates, NextInLogout
<1>3. st[t].job = "logout"
  BY <1>1, <1>2 DEF JobIsTyped
<1> USE DEF server, tokens, keys, history, At, NoFault, Fault
<1>4. ASSUME ForgetKeypair(t) PROVE SessionInv'
  <2>1. DataIsTyped' /\ users' = users /\ ~Aside(st[t].pc)
    BY <1>1, <1>4, SessionAssumption
       DEF ForgetKeypair, Ignoring, TypeOK, DataIsTyped, Aside, Clearing
  <2>2. \/ Go(t, To(t, "cleartokens"))
        \/ Go(t, [To(t, "cleartokens") EXCEPT !.missed = TRUE])
    BY <1>4 DEF ForgetKeypair, Ignoring
  <2>3. UNCHANGED <<server, mem, mu, spent, issued, jobs>>
    BY <1>4 DEF ForgetKeypair
  <2> QED
    BY <1>1, <1>2, <1>3, <2>1, <2>2, <2>3, FileStep
<1>5. ASSUME ClearKeys(t) PROVE SessionInv'
  <2>1. DataIsTyped' /\ users' = users
    BY <1>1, <1>5, SessionAssumption DEF ClearKeys, Ignoring, TypeOK, DataIsTyped
  <2>2. \/ Go(t, To(t, "clearconfig"))
        \/ Go(t, [To(t, "clearconfig") EXCEPT !.missed = TRUE])
    BY <1>5 DEF ClearKeys, Ignoring
  <2>3. UNCHANGED <<server, mem, mu, spent, issued, jobs>>
    BY <1>5 DEF ClearKeys
  <2>4. "clearconfig" \in Clearing
    BY DEF Clearing
  <2> QED
    BY <1>1, <1>2, <1>3, <2>1, <2>2, <2>3, <2>4, FileStep
<1>6. ASSUME ClearConfig(t) PROVE SessionInv'
  <2>1. DataIsTyped' /\ users' = users
    BY <1>1, <1>6 DEF ClearConfig, TypeOK, DataIsTyped, NoConfig
  <2>2. "done" \in Clearing
    BY DEF Clearing
  <2> QED
    BY <1>1, <1>2, <1>3, <1>6, <2>1, <2>2, FileStep DEF ClearConfig
<1>7. ASSUME LoggedOut(t) PROVE SessionInv'
  <2>1. DataIsTyped' /\ users' = users
    BY <1>1, <1>7 DEF LoggedOut, TypeOK, DataIsTyped
  <2> QED
    BY <1>1, <1>2, <1>7, <2>1, FileStep DEF LoggedOut
<1> QED
  BY <1>4, <1>5, <1>6, <1>7

LEMMA WorkspaceStep ==
    ASSUME SessionInv, NEW t \in Threads, SwitchWorkspace(t) \/ UseWorkspaceKey(t)
    PROVE  SessionInv'
<1>1. TypeOK /\ JobsAreTyped /\ st[t] = Idle
  BY DEF SessionInv, SwitchWorkspace, UseWorkspaceKey
<1>2. Sound(Idle, Owner[t]) /\ Idle.pc = "idle" /\ st[t].pc \notin Refreshing
  BY <1>1, SoundStates DEF Refreshing
<1> USE DEF server, tokens, keys, history, NoFault, Fault
<1>3. ASSUME SwitchWorkspace(t) PROVE SessionInv'
  <2>1. DataIsTyped' /\ users' = users
    BY <1>1, <1>3 DEF SwitchWorkspace, TypeOK, DataIsTyped
  <2> QED
    BY <1>2, <1>3, <2>1, FileStep DEF SwitchWorkspace
<1>4. ASSUME UseWorkspaceKey(t) PROVE SessionInv'
  <2>1. DataIsTyped' /\ users' = users
    BY <1>1, <1>4, SessionAssumption DEF UseWorkspaceKey, TypeOK, DataIsTyped
  <2> QED
    BY <1>2, <1>4, <2>1, FileStep DEF UseWorkspaceKey
<1> QED
  BY <1>3, <1>4

-----------------------------------------------------------------------------
(* The end of a refresh.                                                   *)

LEMMA OneRefresh ==
    ASSUME SessionInv, NEW t \in Threads, NEW x \in Threads, Owner[x] = Owner[t],
           st[t].pc \in Refreshing, st[x].pc \in Refreshing
    PROVE  x = t
<1>1. \A y \in {t, x} : mu[Owner[t]] = y \/ Owner[t] \in Commands
  BY DEF SessionInv, RefreshInv, RefreshIsExclusive, Refreshing
<1> QED
  BY <1>1, SessionAssumption

LEMMA RefreshEnds ==
    ASSUME SessionInv, NEW t \in Threads, NEW r, Sound(r, Owner[t]), Go(t, r), DataIsTyped',
           st[t].pc \in Refreshing, r.pc \notin Refreshing, ~InLogin(r.pc),
           Unlock(t), UNCHANGED <<spent, users>>,
           \/ st[t].pc = "ask" /\ UNCHANGED mem
           \/ st[t].pc = "keep" /\ mem' = [mem EXCEPT ![Owner[t]] = st[t].held],
           issued <= issued', \A x \in usable' : x \in usable \/ x[2] <= issued'
    PROVE  SessionInv'
<1> DEFINE p == Owner[t]
<1>1. /\ TypeOK /\ JobsAreTyped /\ p \in Processes
      /\ \A x \in Threads : Owner[x] \in Processes
      /\ spent' = spent /\ st[t].held # None
  BY SessionAssumption DEF SessionInv, TypeOK, Refreshing
<1>2. Takes(t, r)
  BY <1>1, GoTakes
<1>3. TypeOK' /\ JobsAreTyped'
  BY <1>1, <1>2, StaysTyped
<1>4. /\ st'[t] = r
      /\ \A x \in Threads \ {t} : /\ st'[x].pc = st[x].pc /\ st'[x].via = st[x].via
                                  /\ st'[x].held = st[x].held
  BY <1>2 DEF Takes, Moved
<1>5. \A q \in Processes : mu'[q] = IF q = p /\ mu[q] = t THEN None ELSE mu[q]
  BY <1>1 DEF Unlock, TypeOK
<1>6. \A q \in Processes \ {p} : mem'[q] = mem[q]
  BY <1>1 DEF TypeOK
<1>7. mem'[p] # None
  BY <1>1 DEF SessionInv, RefreshInv, RefreshIsExclusive, Refreshing, TypeOK
<1>8. \A x \in Threads \ {t} : Owner[x] = p => st[x].pc \notin Refreshing
  BY OneRefresh
<1>9. NobodyWaitsForEver'
  <2> SUFFICES ASSUME NEW q \in Processes, mu'[q] # None
               PROVE  /\ Owner[mu'[q]] = q
                      /\ st'[mu'[q]].pc \in Refreshing /\ st'[mu'[q]].via = "retry"
    BY DEF NobodyWaitsForEver, Refreshing
  <2>1. mu'[q] = mu[q] /\ mu[q] \in Threads
    BY <1>1, <1>5 DEF TypeOK
  <2>2. Owner[mu[q]] = q /\ st[mu[q]].pc \in Refreshing /\ st[mu[q]].via = "retry"
    BY <2>1 DEF SessionInv, RefreshInv, NobodyWaitsForEver, Refreshing
  <2>3. mu[q] # t
    BY <1>5, <2>1, <2>2
  <2> QED
    BY <1>4, <2>1, <2>2, <2>3
<1>10. ASSUME NEW x \in Threads, st'[x].pc \in Refreshing
       PROVE  /\ x # t /\ Owner[x] # p /\ Owner[x] \in Processes
              /\ mem'[Owner[x]] = mem[Owner[x]] /\ mu'[Owner[x]] = mu[Owner[x]]
              /\ st[x].pc \in Refreshing
              /\ st'[x].via = st[x].via /\ st'[x].held = st[x].held
  BY <1>1, <1>4, <1>5, <1>6, <1>8, <1>10
<1>11. RefreshIsExclusive'
  BY <1>10 DEF RefreshIsExclusive, SessionInv, RefreshInv, Refreshing
<1>12. HeldIsUnspent'
  BY <1>1, <1>10 DEF HeldIsUnspent, Unspent, SessionInv, RefreshInv, Refreshing
<1>13. ASSUME NEW q \in Processes, mem'[q] # None,
              \A x \in Threads : Owner[x] = q => st'[x].pc # "keep"
       PROVE  mem'[q].refresh \notin spent'[q]
  <2>1. CASE q = p /\ st[t].pc = "ask"
    <3>1. \A x \in Threads : Owner[x] = q => st[x].pc # "keep"
      BY <1>8, <2>1 DEF Refreshing
    <3> QED
      BY <1>1, <1>13, <2>1, <3>1 DEF SessionInv, RefreshInv, MemoryIsUnspent, Unspent
  <2>2. CASE q = p /\ st[t].pc = "keep"
    <3>1. mem'[q] = st[t].held
      BY <1>1, <2>2 DEF TypeOK
    <3> QED
      BY <1>1, <2>2, <3>1 DEF SessionInv, RefreshInv, HeldIsUnspent, Unspent
  <2>3. CASE q # p
    <3>1. \A x \in Threads : Owner[x] = q => st[x].pc # "keep"
      BY <1>4, <1>13, <2>3
    <3> QED
      BY <1>1, <1>6, <1>13, <2>3, <3>1
         DEF SessionInv, RefreshInv, MemoryIsUnspent, Unspent
  <2> QED
    BY <2>1, <2>2, <2>3
<1>14. MemoryIsUnspent'
  BY <1>13 DEF MemoryIsUnspent, Unspent
<1>15. MemoryIsKept'
  <2>1. ASSUME NEW q \in Processes, mem'[q] = None
        PROVE  \/ spent'[q] = {}
               \/ q \in Commands /\ \A x \in Threads : Owner[x] = q => Aside(st'[x].pc)
    <3>1. q # p /\ mem[q] = None
      BY <1>6, <1>7, <2>1
    <3> QED
      BY <1>1, <1>4, <3>1 DEF SessionInv, RefreshInv, MemoryIsKept, Aside
  <2>2. ASSUME NEW x \in Threads, InLogin(st'[x].pc)
        PROVE  spent'[Owner[x]] = {}
    BY <1>1, <1>4, <2>2 DEF SessionInv, RefreshInv, MemoryIsKept, InLogin
  <2> QED
    BY <2>1, <2>2 DEF MemoryIsKept, Aside, InLogin
<1>16. TokensAreIssued'
  <2>1. \A x \in usable : x \in Token /\ x[2] \in Nat /\ x[2] <= issued
    BY <1>1 DEF TypeOK, Token, SessionInv, RefreshInv, TokensAreIssued
  <2>2. \A q \in Processes : \A x \in spent[q] : x[2] \in Nat /\ x[2] <= issued
    BY <1>1 DEF TypeOK, Token, SessionInv, RefreshInv, TokensAreIssued
  <2>3. issued \in Nat /\ issued' \in Nat
    BY <1>1, SessionAssumption DEF TypeOK, DataIsTyped
  <2> QED
    BY <1>1, <2>1, <2>2, <2>3 DEF TokensAreIssued
<1> QED
  BY <1>3, <1>9, <1>11, <1>12, <1>14, <1>15, <1>16 DEF SessionInv, RefreshInv

LEMMA KeepStep ==
    ASSUME SessionInv, NEW t \in Threads, Keep(t) PROVE SessionInv'
<1>1. /\ TypeOK /\ JobsAreTyped /\ st[t].pc = "keep" /\ st[t].pc \in Refreshing
      /\ UNCHANGED <<server, keys, config, history, issued, jobs>>
  BY DEF SessionInv, Keep, At, Refreshing
<1>2. /\ st[t] \in States /\ Owner[t] \in Processes
      /\ Sound(Idle, Owner[t]) /\ Idle.pc = "idle"
      /\ Sound(Ended(t), Owner[t]) /\ Ended(t).pc \in {"idle", "forget"}
      /\ \A pc \in {"request", "send"} : Sound(To(t, pc), Owner[t]) /\ To(t, pc).pc = pc
  BY <1>1, SoundStates
<1>3. st[t].held \in Pair
  BY <1>1, <1>2 DEF TypeOK, States
<1>4. /\ mem' = [mem EXCEPT ![Owner[t]] = st[t].held]
      /\ stored' \in Pair \union {None} /\ tokenfile' \in Pair \union {None}
      /\ faults' \in 0 .. MaxFaults
      /\ \/ Go(t, To(t, IF st[t].via = "ensure" THEN "request" ELSE "send"))
         \/ Go(t, IF st[t].via = "ensure" THEN Idle ELSE Ended(t))
  BY <1>1, <1>2, <1>3, SavedTokens DEF Keep
<1>5. Unlock(t) /\ mu' \in [Processes -> Threads \union {None}]
  BY <1>1 DEF Keep, Unlock, TypeOK
<1>6. DataIsTyped'
  BY <1>1, <1>2, <1>3, <1>4, <1>5 DEF TypeOK, DataIsTyped, server, keys, history
<1>7. /\ issued <= issued' /\ usable' = usable /\ UNCHANGED <<spent, users>>
  BY <1>1 DEF server, history, TypeOK
<1>8. \A pc \in {"idle", "forget", "request", "send"} : pc \notin Refreshing /\ ~InLogin(pc)
  BY DEF Refreshing, InLogin, LoginSteps
<1> QED
  BY <1>1, <1>2, <1>4, <1>5, <1>6, <1>7, <1>8, RefreshEnds

\* The server has given a new pair for the one held.
LEMMA Exchanged ==
    ASSUME SessionInv, NEW t \in Threads, NEW new \in Pair, st[t].pc = "ask",
           Exchange(st[t].held.refresh, new)
    PROVE  /\ good' \subseteq Token /\ usable' \subseteq Token /\ issued' \in 0 .. MaxTokens
           /\ issued <= issued' /\ \A x \in usable' : x \in usable \/ x[2] <= issued'
           /\ st[t].held.refresh \in usable
           /\ new.refresh = st[t].held.refresh \/ new.refresh[2] = issued + 1
<1> DEFINE old == st[t].held.refresh
           fresh == <<old[1], issued + 1>>
<1>1. old \in Token
  BY DEF SessionInv, TypeOK, Exchange
<1>2. issued \in Nat /\ issued < MaxTokens /\ MaxTokens \in Nat
  BY SessionAssumption DEF SessionInv, TypeOK, Exchange
<1>3. fresh \in Token /\ fresh[2] = issued + 1
  BY <1>1, <1>2 DEF Token
<1> QED
  BY <1>1, <1>2, <1>3 DEF Exchange, SessionInv, TypeOK

LEMMA AskStep ==
    ASSUME SessionInv, NEW t \in Threads, Ask(t) PROVE SessionInv'
<1> DEFINE p == Owner[t]
           old == st[t].held.refresh
<1>1. /\ TypeOK /\ JobsAreTyped /\ st[t].pc = "ask" /\ st[t].pc \in Refreshing
      /\ UNCHANGED <<tokens, keys, config, users, torn, jobs>> /\ UNCHANGED mem
  BY DEF SessionInv, Ask, At, Refreshing, tokens
<1>2. /\ st[t] \in States /\ p \in Processes /\ JobIsTyped(st[t], p, users)
      /\ Sound(Idle, p) /\ Idle.pc = "idle"
      /\ Sound(Ended(t), p) /\ Ended(t).pc \in {"idle", "forget"}
  BY <1>1, SoundStates
<1>3. ASSUME AskFailed(t), UNCHANGED spent, Fault \/ NoFault,
             good' \subseteq Token, usable' \subseteq Token, issued' \in 0 .. MaxTokens,
             issued <= issued', \A x \in usable' : x \in usable \/ x[2] <= issued'
      PROVE  SessionInv'
  <2>1. Unlock(t) /\ mu' \in [Processes -> Threads \union {None}]
    BY <1>1, <1>3 DEF AskFailed, Unlock, TypeOK
  <2>2. DataIsTyped'
    BY <1>1, <1>3, <2>1, SessionAssumption
       DEF TypeOK, DataIsTyped, tokens, keys, Fault, NoFault
  <2>3. Go(t, Idle) \/ Go(t, Ended(t))
    BY <1>3 DEF AskFailed
  <2>4. \A pc \in {"idle", "forget"} : pc \notin Refreshing /\ ~InLogin(pc)
    BY DEF Refreshing, InLogin, LoginSteps
  <2> QED
    BY <1>1, <1>2, <1>3, <2>1, <2>2, <2>3, <2>4, RefreshEnds
<1>4. CASE UNCHANGED <<server, issued, spent>> /\ AskFailed(t) /\ (Fault \/ NoFault)
  <2>1. /\ good' \subseteq Token /\ usable' \subseteq Token /\ issued' \in 0 .. MaxTokens
        /\ issued <= issued' /\ \A x \in usable' : x \in usable \/ x[2] <= issued'
    BY <1>1, <1>4 DEF TypeOK, server
  <2> QED
    BY <1>3, <1>4, <2>1
<1>5. ASSUME NEW new \in Pair, Exchange(old, new), Fault, AskFailed(t), UNCHANGED spent
      PROVE  SessionInv'
  BY <1>1, <1>3, <1>5, Exchanged
<1>6. ASSUME NEW new \in Pair, Exchange(old, new), NoFault, UNCHANGED mu,
             Go(t, [To(t, "keep") EXCEPT !.held = new]),
             spent' = IF new.refresh = old THEN spent
                      ELSE [spent EXCEPT ![p] = @ \union {old}]
      PROVE  SessionInv'
  <2> DEFINE r == [To(t, "keep") EXCEPT !.held = new]
  <2>1. /\ good' \subseteq Token /\ usable' \subseteq Token /\ issued' \in 0 .. MaxTokens
        /\ issued <= issued' /\ \A x \in usable' : x \in usable \/ x[2] <= issued'
        /\ old \in usable
        /\ new.refresh = old \/ new.refresh[2] = issued + 1
    BY <1>1, <1>6, Exchanged
  <2>2. issued \in Nat /\ issued' = issued + 1 /\ old \in Token /\ new # None
    BY <1>1, <1>6, <2>1, SessionAssumption DEF TypeOK, Exchange
  <2>3. /\ r \in States /\ r.pc = "keep" /\ r.job = st[t].job /\ r.held = new
        /\ r.via = st[t].via
    BY <1>2 DEF To, States, Steps
  <2>4. Sound(r, p)
    BY <1>1, <1>2, <2>2, <2>3 DEF Sound, JobIsTyped, LoginSteps, Clearing, Refreshing
  <2>5. DataIsTyped'
    BY <1>1, <1>2, <1>6, <2>1, <2>2 DEF TypeOK, DataIsTyped, tokens, keys, NoFault
  <2>6. Takes(t, r)
    BY <1>1, <1>6, <2>4, GoTakes
  <2>7. TypeOK' /\ JobsAreTyped'
    BY <1>1, <2>5, <2>6, StaysTyped
  <2>8. /\ st'[t] = r
        /\ \A x \in Threads \ {t} : /\ st'[x].pc = st[x].pc /\ st'[x].via = st[x].via
                                    /\ st'[x].held = st[x].held
    BY <2>6 DEF Takes, Moved
  <2>9. \A x \in Threads \ {t} : Owner[x] = p => st[x].pc \notin Refreshing
    BY <1>1, OneRefresh
  <2>10. /\ \A q \in Processes \ {p} : spent'[q] = spent[q]
         /\ \A x \in spent'[p] : x \in spent[p] \/ x = old
         /\ spent'[p] = spent[p] \/ new.refresh # old
    BY <1>1, <1>2, <1>6 DEF TypeOK
  <2>11. \A x \in spent[p] : x[2] \in Nat /\ x[2] <= issued
    BY <1>1, <1>2 DEF TypeOK, Token, SessionInv, RefreshInv, TokensAreIssued
  <2>12. old[2] \in Nat /\ old[2] <= issued
    BY <1>1, <2>1 DEF TypeOK, Token, SessionInv, RefreshInv, TokensAreIssued
  <2>13. new.refresh \notin spent'[p]
    <3>1. CASE new.refresh = old
      BY <1>1, <1>6, <3>1 DEF SessionInv, RefreshInv, HeldIsUnspent, Unspent
    <3>2. CASE new.refresh # old
      BY <2>1, <2>2, <2>10, <2>11, <2>12, <3>2
    <3> QED
      BY <3>1, <3>2
  <2>14. \A x \in Threads : Owner[x] \in Processes
    BY SessionAssumption
  <2>15. NobodyWaitsForEver'
    <3>1. \A q \in Processes : mu[q] # None => mu[q] \in Threads
      BY <1>1 DEF TypeOK
    <3>2. \A x \in Threads : st[x].pc \in Refreshing /\ st[x].via = "retry" =>
             st'[x].pc \in Refreshing /\ st'[x].via = "retry"
      BY <2>3, <2>8 DEF Refreshing
    <3> QED
      BY <1>6, <3>1, <3>2 DEF NobodyWaitsForEver, SessionInv, RefreshInv, Refreshing
  <2>16. RefreshIsExclusive'
    BY <1>1, <1>6, <2>3, <2>8 DEF RefreshIsExclusive, SessionInv, RefreshInv, Refreshing
  <2>17. HeldIsUnspent'
    <3> SUFFICES ASSUME NEW x \in Threads, st'[x].pc \in Refreshing
                 PROVE  st'[x].held.refresh \notin spent'[Owner[x]]
      BY DEF HeldIsUnspent, Unspent, Refreshing
    <3>1. CASE x = t
      BY <2>3, <2>8, <2>13, <3>1
    <3>2. CASE x # t
      BY <2>8, <2>9, <2>10, <2>14, <3>2
         DEF HeldIsUnspent, Unspent, SessionInv, RefreshInv, Refreshing
    <3> QED
      BY <3>1, <3>2
  <2>18. MemoryIsUnspent'
    <3> SUFFICES ASSUME NEW q \in Processes, mem'[q] # None,
                        \A x \in Threads : Owner[x] = q => st'[x].pc # "keep"
                 PROVE  mem'[q].refresh \notin spent'[q]
      BY DEF MemoryIsUnspent, Unspent
    <3>1. q # p
      BY <2>3, <2>8
    <3>2. \A x \in Threads : Owner[x] = q => st[x].pc # "keep"
      BY <2>8, <3>1
    <3> QED
      BY <1>1, <2>10, <3>1, <3>2 DEF SessionInv, RefreshInv, MemoryIsUnspent, Unspent
  <2>19. MemoryIsKept'
    <3>1. mem[p] # None
      BY <1>1 DEF SessionInv, RefreshInv, RefreshIsExclusive
    <3>2. ASSUME NEW q \in Processes, mem'[q] = None
          PROVE  \/ spent'[q] = {}
                 \/ q \in Commands /\ \A x \in Threads : Owner[x] = q => Aside(st'[x].pc)
      <4>1. q # p /\ mem[q] = None
        BY <1>1, <3>1, <3>2
      <4> QED
        BY <2>8, <2>10, <4>1 DEF SessionInv, RefreshInv, MemoryIsKept, Aside
    <3>3. ASSUME NEW x \in Threads, InLogin(st'[x].pc)
          PROVE  spent'[Owner[x]] = {}
      <4>1. x # t /\ InLogin(st[x].pc)
        BY <2>3, <2>8, <3>3 DEF InLogin, LoginSteps
      <4>2. Owner[x] \in Commands
        BY <1>1, <4>1 DEF JobsAreTyped, JobIsTyped, InLogin, SessionInv
      <4>3. Owner[x] # p
        BY <4>1, <4>2, SessionAssumption
      <4> QED
        BY <2>10, <2>14, <4>1, <4>3 DEF SessionInv, RefreshInv, MemoryIsKept, InLogin
    <3> QED
      BY <3>2, <3>3 DEF MemoryIsKept, Aside, InLogin
  <2>20. TokensAreIssued'
    <3>1. \A x \in usable : x[2] \in Nat /\ x[2] <= issued
      BY <1>1 DEF TypeOK, Token, SessionInv, RefreshInv, TokensAreIssued
    <3>2. \A q \in Processes : \A x \in spent[q] : x[2] \in Nat /\ x[2] <= issued
      BY <1>1 DEF TypeOK, Token, SessionInv, RefreshInv, TokensAreIssued
    <3> QED
      BY <2>1, <2>2, <2>10, <2>12, <3>1, <3>2 DEF TokensAreIssued
  <2> QED
    BY <2>7, <2>15, <2>16, <2>17, <2>18, <2>19, <2>20 DEF SessionInv, RefreshInv
<1> QED
  BY <1>4, <1>5, <1>6, Zenon DEF Ask

-----------------------------------------------------------------------------
(* Steps of a command, which is the only thread of its process.            *)

LEMMA CommandStep ==
    ASSUME SessionInv, NEW t \in Threads, Owner[t] \in Commands,
           NEW r, Sound(r, Owner[t]), Go(t, r), DataIsTyped', users' = users,
           st[t].pc \notin Refreshing, r.pc \notin Refreshing, UNCHANGED <<usable, mu, issued>>,
           \A q \in Processes \ {Owner[t]} : mem'[q] = mem[q] /\ spent'[q] = spent[q],
           \/ spent'[Owner[t]] = {}
           \/ /\ spent'[Owner[t]] = spent[Owner[t]]
              /\ mem'[Owner[t]] = None /\ Aside(r.pc),
           InLogin(r.pc) => spent'[Owner[t]] = {}
    PROVE  SessionInv'
<1> DEFINE p == Owner[t]
<1>1. /\ TypeOK /\ JobsAreTyped /\ p \in Processes
      /\ \A x \in Threads : Owner[x] \in Processes
      /\ \A x \in Threads \ {t} : Owner[x] # p
      /\ mu' = mu /\ usable' = usable /\ issued' = issued
  BY SessionAssumption DEF SessionInv
<1>2. Takes(t, r)
  BY <1>1, GoTakes
<1>3. TypeOK' /\ JobsAreTyped'
  BY <1>1, <1>2, StaysTyped
<1>4. /\ st'[t] = r
      /\ \A x \in Threads \ {t} : /\ st'[x].pc = st[x].pc /\ st'[x].via = st[x].via
                                  /\ st'[x].held = st[x].held
  BY <1>2 DEF Takes, Moved
<1>5. NobodyWaitsForEver'
  <2> SUFFICES ASSUME NEW q \in Processes, mu[q] # None
               PROVE  /\ Owner[mu[q]] = q
                      /\ st'[mu[q]].pc \in Refreshing /\ st'[mu[q]].via = "retry"
    BY <1>1 DEF NobodyWaitsForEver, Refreshing
  <2>1. mu[q] \in Threads
    BY <1>1 DEF TypeOK
  <2>2. Owner[mu[q]] = q /\ st[mu[q]].pc \in Refreshing /\ st[mu[q]].via = "retry"
    BY DEF SessionInv, RefreshInv, NobodyWaitsForEver, Refreshing
  <2> QED
    BY <1>4, <2>1, <2>2
<1>6. RefreshIsExclusive'
  BY <1>1, <1>4 DEF RefreshIsExclusive, SessionInv, RefreshInv, Refreshing
<1>7. HeldIsUnspent'
  BY <1>1, <1>4 DEF HeldIsUnspent, Unspent, SessionInv, RefreshInv, Refreshing
<1>8. ASSUME NEW q \in Processes, mem'[q] # None,
             \A x \in Threads : Owner[x] = q => st'[x].pc # "keep"
      PROVE  mem'[q].refresh \notin spent'[q]
  <2>1. CASE q = p
    BY <1>8, <2>1
  <2>2. CASE q # p
    <3>1. \A x \in Threads : Owner[x] = q => st[x].pc # "keep"
      BY <1>4, <1>8, <2>2
    <3> QED
      BY <1>8, <2>2, <3>1 DEF SessionInv, RefreshInv, MemoryIsUnspent, Unspent
  <2> QED
    BY <2>1, <2>2
<1>9. MemoryIsUnspent'
  BY <1>8 DEF MemoryIsUnspent, Unspent
<1>10. MemoryIsKept'
  <2>1. ASSUME NEW q \in Processes, mem'[q] = None
        PROVE  \/ spent'[q] = {}
               \/ q \in Commands /\ \A x \in Threads : Owner[x] = q => Aside(st'[x].pc)
    <3>1. CASE q = p
      BY <1>1, <1>4, <3>1
    <3>2. CASE q # p
      BY <1>4, <2>1, <3>2 DEF SessionInv, RefreshInv, MemoryIsKept, Aside
    <3> QED
      BY <3>1, <3>2
  <2>2. ASSUME NEW x \in Threads, InLogin(st'[x].pc)
        PROVE  spent'[Owner[x]] = {}
    BY <1>1, <1>4, <2>2 DEF SessionInv, RefreshInv, MemoryIsKept, InLogin
  <2> QED
    BY <2>1, <2>2 DEF MemoryIsKept, Aside, InLogin
<1>11. TokensAreIssued'
  BY <1>1 DEF TokensAreIssued, SessionInv, RefreshInv
<1> QED
  BY <1>3, <1>5, <1>6, <1>7, <1>9, <1>10, <1>11 DEF SessionInv, RefreshInv

LEMMA LoginTokensStep ==
    ASSUME SessionInv, NEW t \in Threads, LoginTokens(t) PROVE SessionInv'
<1>1. /\ TypeOK /\ JobsAreTyped /\ st[t].pc = "tokens"
      /\ UNCHANGED <<server, keys, config, mu, history, issued, jobs>>
  BY DEF SessionInv, LoginTokens, At
<1>2. /\ JobIsTyped(st[t], Owner[t], users) /\ Sound(Idle, Owner[t]) /\ Idle.pc = "idle"
      /\ Owner[t] \in Processes
  BY <1>1, SoundStates
<1>3. /\ Owner[t] \in Commands /\ st[t].held \in Pair /\ st[t].user \in users'
      /\ spent[Owner[t]] = {} /\ st[t].pc \notin Refreshing
  BY <1>1, <1>2 DEF JobIsTyped, LoginSteps, SessionInv, RefreshInv, MemoryIsKept,
                    Refreshing, history
<1>4. /\ Sound(To(t, "keypair"), Owner[t]) /\ To(t, "keypair").pc = "keypair"
  BY <1>1, <1>3, NextInLogin DEF LoginSteps
<1>5. /\ mem' = [mem EXCEPT ![Owner[t]] = st[t].held]
      /\ stored' \in Pair \union {None} /\ tokenfile' \in Pair \union {None}
      /\ faults' \in 0 .. MaxFaults
      /\ Go(t, To(t, "keypair")) \/ Go(t, Idle)
  BY <1>1, <1>3, SavedTokens DEF LoginTokens
<1>6. DataIsTyped'
  BY <1>1, <1>2, <1>3, <1>5 DEF TypeOK, DataIsTyped, server, keys, history
<1>7. /\ UNCHANGED <<usable, mu, issued>> /\ users' = users /\ spent'[Owner[t]] = {}
      /\ \A q \in Processes \ {Owner[t]} : mem'[q] = mem[q] /\ spent'[q] = spent[q]
  BY <1>1, <1>2, <1>3, <1>5 DEF server, history, TypeOK
<1>8. "keypair" \notin Refreshing /\ "idle" \notin Refreshing
  BY DEF Refreshing
<1> QED
  BY <1>2, <1>3, <1>4, <1>5, <1>6, <1>7, <1>8, CommandStep

LEMMA ClearTokensStep ==
    ASSUME SessionInv, NEW t \in Threads, ClearTokens(t) PROVE SessionInv'
<1>1. /\ TypeOK /\ JobsAreTyped /\ st[t].pc = "cleartokens"
      /\ mem' = [mem EXCEPT ![Owner[t]] = None]
      /\ UNCHANGED <<server, tokenfile, keys, config, mu, history, issued, jobs>>
  BY DEF SessionInv, ClearTokens, At
<1>2. JobIsTyped(st[t], Owner[t], users) /\ Owner[t] \in Processes
  BY <1>1, SoundStates
<1>3. Owner[t] \in Commands /\ st[t].job = "logout" /\ st[t].pc \notin Refreshing
  BY <1>1, <1>2 DEF JobIsTyped, Refreshing
<1>4. /\ Sound(To(t, "clearkeys"), Owner[t]) /\ To(t, "clearkeys").pc = "clearkeys"
      /\ Sound([To(t, "clearkeys") EXCEPT !.missed = TRUE], Owner[t])
      /\ [To(t, "clearkeys") EXCEPT !.missed = TRUE].pc = "clearkeys"
  BY <1>1, <1>3, NextInLogout DEF Clearing
<1>5. /\ stored' \in {stored, None} /\ faults' \in 0 .. MaxFaults
      /\ Go(t, To(t, "clearkeys")) \/ Go(t, [To(t, "clearkeys") EXCEPT !.missed = TRUE])
  BY <1>1, SessionAssumption DEF ClearTokens, Ignoring, Fault, NoFault, TypeOK
<1>6. DataIsTyped'
  BY <1>1, <1>2, <1>5 DEF TypeOK, DataIsTyped, server, keys, history
<1>7. /\ UNCHANGED <<usable, mu, issued>> /\ users' = users /\ mem'[Owner[t]] = None
      /\ spent'[Owner[t]] = spent[Owner[t]]
      /\ \A q \in Processes \ {Owner[t]} : mem'[q] = mem[q] /\ spent'[q] = spent[q]
  BY <1>1, <1>2 DEF server, history, TypeOK
<1>8. "clearkeys" \notin Refreshing /\ Aside("clearkeys") /\ ~InLogin("clearkeys")
  BY DEF Refreshing, Aside, Clearing, InLogin, LoginSteps
<1> QED
  BY <1>3, <1>4, <1>5, <1>6, <1>7, <1>8, CommandStep

LEMMA StartStep ==
    ASSUME SessionInv, NEW t \in Threads, Call(t) \/ StartLogin(t) \/ StartLogout(t)
    PROVE  SessionInv'
<1>1. /\ TypeOK /\ JobsAreTyped /\ Owner[t] \in Processes
      /\ Commands \subseteq Processes
  BY SessionAssumption DEF SessionInv
<1>2. PICK r \in States :
         /\ StartJob(t, r) /\ Sound(r, Owner[t])
         /\ r.pc \in {"ensure", "request", "login", "check"}
         /\ Owner[t] \notin Commands => r.pc = "request"
  <2> USE DEF Sound, JobIsTyped, LoginSteps, Clearing, Refreshing, Idle, States, Steps
  <2>1. CASE Call(t) /\ Owner[t] \in Commands
    <3> DEFINE r == [Idle EXCEPT !.job = "call", !.pc = "ensure"]
    <3>1. StartJob(t, r)
      BY <2>1 DEF Call
    <3>2. r \in States /\ Sound(r, Owner[t]) /\ r.pc = "ensure"
      BY <2>1
    <3> QED
      BY <2>1, <3>1, <3>2, Zenon
  <2>2. CASE Call(t) /\ Owner[t] \notin Commands
    <3> DEFINE r == [Idle EXCEPT !.job = "call", !.pc = "request"]
    <3>1. StartJob(t, r)
      BY <2>2 DEF Call
    <3>2. r \in States /\ Sound(r, Owner[t]) /\ r.pc = "request"
      BY <2>2
    <3> QED
      BY <2>2, <3>1, <3>2, Zenon
  <2>3. CASE StartLogin(t)
    BY <2>3 DEF StartLogin
  <2>4. CASE StartLogout(t)
    BY <2>4 DEF StartLogout
  <2> QED
    BY <2>1, <2>2, <2>3, <2>4
<1>3. /\ st[t] = Idle /\ st[t].pc = "idle" /\ Go(t, r) /\ r.pc \notin Refreshing
      /\ st[t].pc \notin Refreshing
      /\ jobs' \in 0 .. MaxJobs
      /\ UNCHANGED <<server, stored, tokenfile, keys, config, mu, users, torn, issued, faults>>
  BY <1>1, <1>2, SessionAssumption DEF StartJob, Idle, Refreshing, TypeOK
<1>4. CASE Owner[t] \in Commands
  <2>1. mem' = [mem EXCEPT ![Owner[t]] = None] /\ spent' = [spent EXCEPT ![Owner[t]] = {}]
    BY <1>2, <1>4 DEF StartJob
  <2>2. DataIsTyped'
    BY <1>1, <1>3, <2>1 DEF TypeOK, DataIsTyped, server, keys
  <2>3. /\ spent'[Owner[t]] = {}
        /\ \A q \in Processes \ {Owner[t]} : mem'[q] = mem[q] /\ spent'[q] = spent[q]
    BY <1>1, <2>1 DEF TypeOK
  <2>4. UNCHANGED <<usable, mu, issued>> /\ users' = users
    BY <1>3 DEF server
  <2> QED
    BY <1>2, <1>3, <1>4, <2>2, <2>3, <2>4, CommandStep
<1>5. CASE Owner[t] \notin Commands
  <2>1. UNCHANGED <<mem, spent>>
    BY <1>2, <1>5 DEF StartJob
  <2>2. DataIsTyped'
    BY <1>1, <1>3, <2>1 DEF TypeOK, DataIsTyped, server, keys
  <2>3. Takes(t, r) /\ r.pc = "request"
    BY <1>1, <1>2, <1>3, <1>5, GoTakes
  <2>4. TypeOK' /\ JobsAreTyped'
    BY <1>1, <1>3, <2>2, <2>3, StaysTyped
  <2>5. /\ st'[t] = r
        /\ \A x \in Threads \ {t} : /\ st'[x].pc = st[x].pc /\ st'[x].via = st[x].via
                                    /\ st'[x].held = st[x].held
    BY <2>3 DEF Takes, Moved
  <2>6. mem' = mem /\ spent' = spent /\ mu' = mu /\ usable' = usable /\ issued' = issued
    BY <1>3, <2>1 DEF server
  <2>7. NobodyWaitsForEver'
    <3>1. \A q \in Processes : mu[q] # None => mu[q] \in Threads \ {t}
      BY <1>1, <1>3 DEF TypeOK, NobodyWaitsForEver, SessionInv, RefreshInv, Refreshing
    <3> QED
      BY <2>5, <2>6, <3>1 DEF NobodyWaitsForEver, SessionInv, RefreshInv
  <2>8. RefreshIsExclusive' /\ HeldIsUnspent'
    BY <1>3, <2>5, <2>6
       DEF RefreshIsExclusive, HeldIsUnspent, Unspent, SessionInv, RefreshInv, Refreshing
  <2>9. MemoryIsUnspent'
    <3>1. ASSUME NEW q \in Processes, \A x \in Threads : Owner[x] = q => st'[x].pc # "keep"
          PROVE  \A x \in Threads : Owner[x] = q => st[x].pc # "keep"
      BY <1>3, <2>5, <3>1
    <3> QED
      BY <2>6, <3>1 DEF MemoryIsUnspent, Unspent, SessionInv, RefreshInv
  <2>10. MemoryIsKept'
    <3>1. ASSUME NEW q \in Processes, mem'[q] = None
          PROVE  \/ spent'[q] = {}
                 \/ q \in Commands /\ \A x \in Threads : Owner[x] = q => Aside(st'[x].pc)
      BY <1>5, <2>5, <2>6, <3>1 DEF SessionInv, RefreshInv, MemoryIsKept, Aside
    <3>2. ASSUME NEW x \in Threads, InLogin(st'[x].pc)
          PROVE  spent'[Owner[x]] = {}
      <4>1. x # t
        BY <2>3, <2>5, <3>2 DEF InLogin, LoginSteps
      <4> QED
        BY <2>5, <2>6, <3>2, <4>1 DEF SessionInv, RefreshInv, MemoryIsKept, InLogin
    <3> QED
      BY <3>1, <3>2 DEF MemoryIsKept, Aside, InLogin
  <2>11. TokensAreIssued'
    BY <2>6 DEF TokensAreIssued, SessionInv, RefreshInv
  <2> QED
    BY <2>4, <2>7, <2>8, <2>9, <2>10, <2>11 DEF SessionInv, RefreshInv
<1> QED
  BY <1>4, <1>5

LEMMA RestartStep ==
    ASSUME SessionInv, NEW p \in Processes, Restart(p) PROVE SessionInv'
<1>1. /\ TypeOK /\ JobsAreTyped /\ usable' = usable /\ issued' = issued /\ users' = users
      /\ \A x \in Threads : Owner[x] \in Processes
  BY SessionAssumption DEF SessionInv, Restart, server
<1>2. \A q \in Processes : /\ mem'[q] = IF q = p THEN None ELSE mem[q]
                           /\ mu'[q] = IF q = p THEN None ELSE mu[q]
                           /\ spent'[q] = IF q = p THEN {} ELSE spent[q]
  BY <1>1 DEF Restart, TypeOK
<1>3. \A x \in Threads : st'[x] = IF Owner[x] = p THEN Idle ELSE st[x]
  BY DEF Restart
<1>4. Idle \in States /\ Idle.pc = "idle" /\ \A q : JobIsTyped(Idle, q, users)
  BY <1>1, SoundStates
     DEF Idle, States, Steps, JobIsTyped, LoginSteps, Clearing
<1>5. TypeOK'
  <2>1. st' \in [Threads -> States]
    BY <1>1, <1>4 DEF Restart, TypeOK
  <2>2. \A x \in Threads : st'[x].pc \in {"ask", "keep"} => st'[x].held # None
    BY <1>1, <1>3, <1>4 DEF TypeOK
  <2>3. /\ mem' \in [Processes -> Pair \union {None}]
        /\ mu' \in [Processes -> Threads \union {None}]
        /\ spent' \in [Processes -> SUBSET Token]
        /\ faults' \in 0 .. MaxFaults /\ torn' \in BOOLEAN
    BY <1>1, SessionAssumption DEF Restart, TypeOK, Fault
  <2> QED
    BY <1>1, <2>1, <2>2, <2>3 DEF Restart, TypeOK, server, keys
<1>6. JobsAreTyped'
  BY <1>1, <1>3, <1>4 DEF JobsAreTyped
<1>7. \A x \in Threads : st'[x].pc # "idle" => st'[x] = st[x] /\ Owner[x] # p
  BY <1>3, <1>4
<1>8. NobodyWaitsForEver'
  <2> SUFFICES ASSUME NEW q \in Processes, mu'[q] # None
               PROVE  /\ Owner[mu'[q]] = q
                      /\ st'[mu'[q]].pc \in Refreshing /\ st'[mu'[q]].via = "retry"
    BY DEF NobodyWaitsForEver, Refreshing
  <2>1. q # p /\ mu'[q] = mu[q] /\ mu[q] \in Threads
    BY <1>1, <1>2 DEF TypeOK
  <2>2. Owner[mu[q]] = q /\ st[mu[q]].pc \in Refreshing /\ st[mu[q]].via = "retry"
    BY <2>1 DEF SessionInv, RefreshInv, NobodyWaitsForEver, Refreshing
  <2> QED
    BY <1>3, <2>1, <2>2
<1>9. RefreshIsExclusive' /\ HeldIsUnspent'
  BY <1>1, <1>2, <1>7
     DEF RefreshIsExclusive, HeldIsUnspent, Unspent, SessionInv, RefreshInv
<1>10. MemoryIsUnspent'
  <2>1. ASSUME NEW q \in Processes \ {p}, \A x \in Threads : Owner[x] = q => st'[x].pc # "keep"
        PROVE  \A x \in Threads : Owner[x] = q => st[x].pc # "keep"
    BY <1>3, <2>1
  <2> QED
    BY <1>2, <2>1 DEF MemoryIsUnspent, Unspent, SessionInv, RefreshInv
<1>11. MemoryIsKept'
  <2>1. ASSUME NEW q \in Processes, mem'[q] = None
        PROVE  \/ spent'[q] = {}
               \/ q \in Commands /\ \A x \in Threads : Owner[x] = q => Aside(st'[x].pc)
    BY <1>2, <1>3, <2>1 DEF SessionInv, RefreshInv, MemoryIsKept, Aside
  <2>2. ASSUME NEW x \in Threads, InLogin(st'[x].pc)
        PROVE  spent'[Owner[x]] = {}
    <3>1. InLogin(st[x].pc) /\ Owner[x] # p
      BY <1>7, <2>2 DEF InLogin, LoginSteps
    <3> QED
      BY <1>1, <1>2, <3>1 DEF SessionInv, RefreshInv, MemoryIsKept, InLogin
  <2> QED
    BY <2>1, <2>2 DEF MemoryIsKept, Aside, InLogin
<1>12. TokensAreIssued'
  BY <1>1, <1>2 DEF TokensAreIssued, SessionInv, RefreshInv
<1> QED
  BY <1>5, <1>6, <1>8, <1>9, <1>10, <1>11, <1>12 DEF SessionInv, RefreshInv

LEMMA ServerStep ==
    ASSUME SessionInv, Expire \/ Revoke PROVE SessionInv'
<1>1. /\ good' \subseteq good /\ usable' \subseteq usable /\ faults' \in 0 .. MaxFaults
      /\ UNCHANGED <<tokens, keys, config, mu, st, history, issued, jobs>>
  BY SessionAssumption DEF Expire, Revoke, Fault, SessionInv, TypeOK
<1>2. TypeOK'
  BY <1>1 DEF SessionInv, TypeOK, tokens, keys, history
<1>3. JobsAreTyped'
  BY <1>1 DEF SessionInv, JobsAreTyped, history
<1>4. RefreshInv'
  <2>1. NobodyWaitsForEver'
    BY <1>1 DEF SessionInv, RefreshInv, NobodyWaitsForEver
  <2>2. RefreshIsExclusive' /\ MemoryIsUnspent' /\ HeldIsUnspent' /\ MemoryIsKept'
    BY <1>1 DEF SessionInv, RefreshInv, tokens, history, Unspent,
                RefreshIsExclusive, MemoryIsUnspent, HeldIsUnspent, MemoryIsKept
  <2>3. TokensAreIssued'
    BY <1>1 DEF SessionInv, RefreshInv, history, TokensAreIssued
  <2> QED
    BY <2>1, <2>2, <2>3 DEF RefreshInv
<1> QED
  BY <1>2, <1>3, <1>4 DEF SessionInv

LEMMA SessionStep == SessionInv /\ [Next]_vars => SessionInv'
<1> SUFFICES ASSUME SessionInv, [Next]_vars PROVE SessionInv'
  OBVIOUS
<1>1. ASSUME NEW t \in Threads, Step(t) PROVE SessionInv'
  <2>1. CASE Ensure(t) \/ Request(t) \/ Send(t) \/ Denied(t) \/ Ask(t) \/ Keep(t)
    BY <2>1, EnsureStep, RequestStep, SendStep, DeniedStep, AskStep, KeepStep
  <2>2. CASE \/ Login(t) \/ LoginConfig(t) \/ LoginTokens(t) \/ StoreKeypair(t)
             \/ StoreKeys(t) \/ StoreWorkspaces(t)
    BY <2>2, LoginStep, LoginFileStep, LoginTokensStep
  <2>3. CASE \/ Check(t) \/ ForgetKeypair(t) \/ ClearTokens(t)
             \/ ClearKeys(t) \/ ClearConfig(t) \/ LoggedOut(t)
    BY <2>3, CheckStep, LogoutFileStep, ClearTokensStep
  <2> QED
    BY <1>1, <2>1, <2>2, <2>3 DEF Step
<1>2. ASSUME NEW t \in Threads,
             \/ Call(t) \/ StartLogin(t) \/ StartLogout(t)
             \/ SwitchWorkspace(t) \/ UseWorkspaceKey(t)
      PROVE  SessionInv'
  BY <1>2, StartStep, WorkspaceStep
<1>3. CASE UNCHANGED vars
  <2>1. TypeOK' /\ JobsAreTyped'
    BY <1>3 DEF SessionInv, TypeOK, JobsAreTyped, vars, server, tokens, keys, history
  <2>2. NobodyWaitsForEver' /\ RefreshIsExclusive' /\ MemoryIsUnspent' /\ HeldIsUnspent'
    BY <1>3 DEF SessionInv, RefreshInv, vars, server, tokens, history, Unspent,
       NobodyWaitsForEver, RefreshIsExclusive, MemoryIsUnspent, HeldIsUnspent
  <2>3. MemoryIsKept' /\ TokensAreIssued'
    BY <1>3 DEF SessionInv, RefreshInv, vars, server, tokens, history,
       MemoryIsKept, TokensAreIssued
  <2> QED
    BY <2>1, <2>2, <2>3 DEF SessionInv, RefreshInv
<1> QED
  BY <1>1, <1>2, <1>3, RestartStep, ServerStep DEF Next

LEMMA SessionInit == Init => SessionInv
<1> SUFFICES ASSUME Init PROVE SessionInv
  OBVIOUS
<1>1. PICK u \in Users \union {None}, old \in BOOLEAN :
          LET pair == [access |-> <<u, 1>>, refresh |-> <<u, 1>>]
              own == IF u = None THEN {} ELSE {u}
          IN /\ issued = IF u = None THEN 0 ELSE 1
             /\ good = (IF u = None THEN {} ELSE {<<u, 1>>}) /\ usable = good
             /\ stored = IF u = None \/ old THEN None ELSE pair
             /\ tokenfile = IF u # None /\ old THEN pair ELSE None
             /\ keypairs = own /\ wskeys = IF old THEN {} ELSE own
             /\ config = [email |-> u, workspaces |-> own, selected |-> u,
                          plain |-> IF old THEN own ELSE {}]
             /\ users = own
  BY Zenon DEF Init
<1> DEFINE pair == [access |-> <<u, 1>>, refresh |-> <<u, 1>>]
           own == IF u = None THEN {} ELSE {u}
<1>2. /\ mem = [p \in Processes |-> None] /\ mu = [p \in Processes |-> None]
      /\ st = [t \in Threads |-> Idle] /\ spent = [p \in Processes |-> {}]
      /\ torn = FALSE /\ jobs = 0 /\ faults = 0
  BY DEF Init
<1>3. own \subseteq Users /\ (u # None => <<u, 1>> \in Token /\ pair \in Pair)
  BY SessionAssumption DEF Token, Pair
<1>4. Idle \in States /\ Idle.pc = "idle" /\ \A p : JobIsTyped(Idle, p, users)
  BY DEF Idle, States, Steps, JobIsTyped, LoginSteps, Clearing
<1>5. /\ good \subseteq Token /\ usable \subseteq Token
      /\ stored \in Pair \union {None} /\ tokenfile \in Pair \union {None}
      /\ keypairs \subseteq Users /\ wskeys \subseteq Users /\ users \subseteq Users
      /\ issued \in 0 .. MaxTokens /\ \A x \in usable : x[2] <= issued
  BY <1>1, <1>3, SessionAssumption
<1>6. config \in [email : Users \union {None}, workspaces : SUBSET Users,
                  plain : SUBSET Users, selected : Users \union {None}]
  BY <1>1, <1>3
<1>7. TypeOK
  <2>1. /\ mem \in [Processes -> Pair \union {None}]
        /\ mu \in [Processes -> Threads \union {None}]
        /\ spent \in [Processes -> SUBSET Token]
    BY <1>2
  <2>2. /\ st \in [Threads -> States]
        /\ \A t \in Threads : st[t].pc \in {"ask", "keep"} => st[t].held # None
    BY <1>2, <1>4
  <2>3. torn \in BOOLEAN
    BY <1>2
  <2>4. jobs \in 0 .. MaxJobs /\ faults \in 0 .. MaxFaults
    BY <1>2, SessionAssumption
  <2> QED
    BY <1>5, <1>6, <2>1, <2>2, <2>3, <2>4 DEF TypeOK
<1>8. JobsAreTyped
  BY <1>2, <1>4 DEF JobsAreTyped
<1>9. \A t \in Threads : /\ st[t].pc \notin Refreshing /\ ~InLogin(st[t].pc)
                         /\ Owner[t] \in Processes
  BY <1>2, <1>4, SessionAssumption DEF Refreshing, InLogin, LoginSteps
<1>10. RefreshInv
  BY <1>2, <1>5, <1>9
     DEF RefreshInv, NobodyWaitsForEver, RefreshIsExclusive, MemoryIsUnspent,
         HeldIsUnspent, MemoryIsKept, TokensAreIssued, Refreshing, InLogin, Unspent
<1> QED
  BY <1>7, <1>8, <1>10 DEF SessionInv

\* Through every request, refresh, login, logout, failure and kill, refreshMu is held by
\* the one thread that refreshes, and the pair in a process's memory is one it has not
\* used up, or is about to replace (client.go:230-259, middleware.go:52-98).
THEOREM SessionInvariant == Spec => []SessionInv
<1> QED
  BY SessionInit, SessionStep, PTL DEF Spec

\* What every action assigns is of its type: tokens the server has issued, of users, and
\* a pair in memory of whoever asks.
THEOREM TypeCorrect == Spec => []TypeOK
<1> QED
  BY SessionInvariant, PTL DEF SessionInv

\* Whoever holds refreshMu is a goroutine of that process in a refresh, after a 401, at
\* any time and whatever is killed (client.go:235-269).
THEOREM RefreshMuIsReleased == Spec => []NobodyWaitsForEver
<1> QED
  BY SessionInvariant, PTL DEF SessionInv, RefreshInv

\* No process asks with a refresh token that it has exchanged, whatever number of its
\* goroutines are refused at once (client.go:239-242).
THEOREM RefreshTokenIsUsedOnce == Spec => []NeverReused
<1>1. SessionInv => NeverReused
  BY DEF SessionInv, RefreshInv, HeldIsUnspent, Unspent, NeverReused, At
<1> QED
  BY <1>1, SessionInvariant, PTL

-----------------------------------------------------------------------------
(* What a logout has removed.  Its thread is the only one of its process,  *)
(* and it is not alone any more once a thread of another process has made  *)
(* a step.                                                                 *)

LEMMA OwnLogout ==
    ASSUME SessionInv, SessionInv', NEW t \in Threads, NEW r, Go(t, r),
           Undisturbed(t)' => HasRemoved(t)'
    PROVE  /\ LogoutHasRemoved'
           /\ st'[t] = r /\ \A x \in Threads \ {t} : st'[x].pc = st[x].pc
<1>1. st' = [x \in Threads |->
              IF x = t THEN r
              ELSE IF Owner[x] = Owner[t] \/ st[x] = Idle THEN st[x]
              ELSE [st[x] EXCEPT !.alone = FALSE]]
  BY DEF Go
<1>2. st'[t] = r /\ r \in States
  BY <1>1 DEF SessionInv, TypeOK
<1>3. Moved(t, r)
  BY <1>2, GoMoves DEF SessionInv
<1>4. ASSUME NEW x \in Threads \ {t} PROVE ~Undisturbed(x)'
  <2>1. st'[x].alone => Owner[x] = Owner[t] \/ st'[x] = Idle
    BY <1>3 DEF Moved
  <2>2. st'[x].job = "logout" => Owner[x] \in Commands
    BY DEF SessionInv, JobsAreTyped, JobIsTyped
  <2>3. Idle.job # "logout"
    BY DEF Idle
  <2> QED
    BY <2>1, <2>2, <2>3, SessionAssumption DEF Undisturbed
<1> QED
  BY <1>2, <1>3, <1>4 DEF LogoutHasRemoved, Moved

\* Steps that have nothing to do with keys.
LEMMA AwayFromKeys ==
    ASSUME SessionInv, NEW t \in Threads,
           \/ Ensure(t) \/ Request(t) \/ Send(t) \/ Denied(t) \/ Ask(t) \/ Keep(t)
           \/ Login(t) \/ LoginTokens(t) \/ Check(t)
           \/ Call(t) \/ StartLogin(t) \/ StartLogout(t)
    PROVE  /\ UNCHANGED <<keypairs, wskeys, config, users, torn>>
           /\ st[t].pc \notin HalfWay
           /\ \E r : /\ Go(t, r)
                     /\ r.pc \notin {"cleartokens"} \union Clearing \union HalfWay
<1>1. st[t] \in States
  BY DEF SessionInv, TypeOK
<1> DEFINE Away == {"idle", "ensure", "request", "send", "denied", "ask", "keep",
                    "login", "config", "keypair", "check", "forget"}
<1>2. \A pc \in Away : pc \notin {"cleartokens"} \union Clearing \union HalfWay
  BY DEF Clearing, HalfWay
<1>3. Idle.pc \in Away /\ Ended(t).pc \in Away
  BY <1>1 DEF Ended, To, Idle, States
<1>4. /\ \A pc \in Away : To(t, pc).pc \in Away
      /\ \A pc \in Away : \A x : [To(t, pc) EXCEPT !.held = x].pc \in Away
      /\ \A pc \in Away : \A x : [To(t, pc) EXCEPT !.user = x].pc \in Away
      /\ \A pc \in Away : \A x, y : [To(t, pc) EXCEPT !.held = x, !.via = y].pc \in Away
  BY <1>1 DEF To, States
<1>5. /\ "ensure" \in Away /\ "request" \in Away /\ "send" \in Away /\ "denied" \in Away
      /\ "ask" \in Away /\ "keep" \in Away /\ "login" \in Away /\ "config" \in Away
      /\ "keypair" \in Away /\ "check" \in Away
  OBVIOUS
<1> DEFINE Goes == \E r : Go(t, r) /\ r.pc \in Away
<1>6. \A r : Go(t, r) /\ r.pc \in Away => Goes
  OBVIOUS
<1> HIDE DEF Away, Goes
<1>7. Go(t, Idle) \/ Go(t, Ended(t)) => Goes
  BY <1>3, <1>6
<1>8. \A pc \in Away : \A x, y :
         \/ Go(t, To(t, pc)) \/ Go(t, [To(t, pc) EXCEPT !.held = x])
         \/ Go(t, [To(t, pc) EXCEPT !.user = x])
         \/ Go(t, [To(t, pc) EXCEPT !.held = x, !.via = y])
         => Goes
  BY <1>4, <1>6
<1>9. ASSUME Ensure(t) PROVE Goes
  <2>1. PICK pair \in Known(Owner[t]), expired \in BOOLEAN :
           Go(t, IF pair = None \/ config.email = None THEN Idle
                 ELSE IF expired
                      THEN [To(t, "ask") EXCEPT !.held = pair, !.via = "ensure"]
                      ELSE To(t, "request"))
    BY <1>9, Zenon DEF Ensure
  <2>2. \/ Go(t, Idle) \/ Go(t, To(t, "request"))
        \/ Go(t, [To(t, "ask") EXCEPT !.held = pair, !.via = "ensure"])
    BY <2>1
  <2> QED
    BY <1>5, <1>7, <1>8, <2>2, Zenon
<1>10. ASSUME Request(t) PROVE Goes
  <2>1. PICK pair \in Known(Owner[t]) : Go(t, [To(t, "send") EXCEPT !.held = pair])
    BY <1>10, Zenon DEF Request
  <2> QED
    BY <1>5, <1>8, <2>1, Zenon
<1>11. ASSUME Send(t) PROVE Goes
  <2>1. Go(t, Ended(t)) \/ Go(t, To(t, "denied"))
    BY <1>11 DEF Send
  <2> QED
    BY <1>5, <1>7, <1>8, <2>1, Zenon
<1>12. ASSUME Denied(t) PROVE Goes
  <2>1. \E pair \in Known(Owner[t]) :
           \/ Go(t, Ended(t))
           \/ Go(t, [To(t, "ask") EXCEPT !.held = pair, !.via = "retry"])
    BY <1>12, Zenon DEF Denied, Refresh
  <2> QED
    BY <1>5, <1>7, <1>8, <2>1, Zenon
<1>13. ASSUME Ask(t) PROVE Goes
  <2>1. \/ \E new \in Pair : Go(t, [To(t, "keep") EXCEPT !.held = new])
        \/ AskFailed(t)
    BY <1>13, Zenon DEF Ask
  <2>2. AskFailed(t) => Go(t, Idle) \/ Go(t, Ended(t))
    BY DEF AskFailed
  <2> QED
    BY <1>5, <1>7, <1>8, <2>1, <2>2, Zenon
<1>14. ASSUME Keep(t) PROVE Goes
  <2>1. \/ Go(t, To(t, "request")) \/ Go(t, To(t, "send"))
        \/ Go(t, Idle) \/ Go(t, Ended(t))
    BY <1>14 DEF Keep, SaveTokens
  <2> QED
    BY <1>5, <1>7, <1>8, <2>1, Zenon
<1>15. ASSUME Login(t) PROVE Goes
  <2>1. Go(t, Idle) \/ \E pair : Go(t, [To(t, "config") EXCEPT !.held = pair])
    BY <1>15, Zenon DEF Login
  <2> QED
    BY <1>5, <1>7, <1>8, <2>1, Zenon
<1>16. ASSUME LoginTokens(t) PROVE Goes
  <2>1. Go(t, Idle) \/ Go(t, To(t, "keypair"))
    BY <1>16 DEF LoginTokens, SaveTokens
  <2> QED
    BY <1>5, <1>7, <1>8, <2>1, Zenon
<1>17. ASSUME Check(t) PROVE Goes
  <2>1. Go(t, Idle) \/ Go(t, [To(t, "request") EXCEPT !.user = config.email])
    BY <1>17 DEF Check
  <2> QED
    BY <1>5, <1>7, <1>8, <2>1, Zenon
<1>18. ASSUME Call(t) \/ StartLogin(t) \/ StartLogout(t) PROVE Goes
  <2>1. ASSUME NEW pc \in Away, NEW x, Go(t, [Idle EXCEPT !.job = x, !.pc = pc])
        PROVE  Goes
    <3>1. [Idle EXCEPT !.job = x, !.pc = pc].pc = pc
      BY DEF Idle
    <3> QED
      BY <1>6, <2>1, <3>1, Zenon
  <2>2. ASSUME NEW pc \in Away, NEW x, NEW y,
               Go(t, [Idle EXCEPT !.job = x, !.user = y, !.pc = pc])
        PROVE  Goes
    <3>1. [Idle EXCEPT !.job = x, !.user = y, !.pc = pc].pc = pc
      BY DEF Idle
    <3> QED
      BY <1>6, <2>2, <3>1, Zenon
  <2>3. CASE Call(t)
    <3>1. \/ Go(t, [Idle EXCEPT !.job = "call", !.pc = "ensure"])
          \/ Go(t, [Idle EXCEPT !.job = "call", !.pc = "request"])
      BY <2>3 DEF Call, StartJob
    <3> QED
      BY <1>5, <2>1, <3>1
  <2>4. CASE StartLogin(t)
    <3>1. PICK u \in Users :
             Go(t, [Idle EXCEPT !.job = "login", !.user = u, !.pc = "login"])
      BY <2>4 DEF StartLogin, StartJob
    <3> QED
      BY <1>5, <2>2, <3>1
  <2>5. CASE StartLogout(t)
    BY <1>5, <2>1, <2>5 DEF StartLogout, StartJob
  <2> QED
    BY <1>18, <2>3, <2>4, <2>5
<1>19. Goes
  BY <1>9, <1>10, <1>11, <1>12, <1>13, <1>14, <1>15, <1>16, <1>17, <1>18, Zenon
<1>20. UNCHANGED <<keypairs, wskeys, config, users, torn>>
  <2>1. CASE \/ Ensure(t) \/ Request(t) \/ Send(t) \/ Denied(t) \/ Keep(t)
             \/ Login(t) \/ LoginTokens(t) \/ Check(t)
    BY <2>1, Zenon DEF Ensure, Request, Send, Denied, Refresh, Keep, Login, LoginTokens, Check,
                keys, history
  <2>2. CASE Ask(t)
    BY <2>2, Zenon DEF Ask, keys
  <2>3. CASE Call(t) \/ StartLogin(t) \/ StartLogout(t)
    BY <2>3, Zenon DEF Call, StartLogin, StartLogout, StartJob, keys
  <2> QED
    BY <2>1, <2>2, <2>3
<1>21. st[t].pc \notin HalfWay
  <2>1. CASE Call(t) \/ StartLogin(t) \/ StartLogout(t)
    <3>1. st[t] = Idle
      BY <2>1, Zenon DEF Call, StartLogin, StartLogout, StartJob
    <3> QED
      BY <3>1 DEF HalfWay, Idle
  <2>2. CASE \/ Ensure(t) \/ Request(t) \/ Send(t) \/ Denied(t) \/ Ask(t) \/ Keep(t)
             \/ Login(t) \/ LoginTokens(t) \/ Check(t)
    BY <2>2 DEF Ensure, Request, Send, Denied, Ask, Keep, Login, LoginTokens, Check,
                At, HalfWay
  <2> QED
    BY <2>1, <2>2
<1> QED
  BY <1>2, <1>19, <1>20, <1>21 DEF Goes

LEMMA AwayStep ==
    ASSUME SessionInv, SessionInv', KeyInv, NEW t \in Threads, NEW r, Go(t, r),
           UNCHANGED <<keypairs, wskeys, config, users, torn>>, st[t].pc \notin HalfWay,
           r.pc \notin {"cleartokens"} \union Clearing \union HalfWay
    PROVE  KeyInv'
<1>1. st'[t] = r
  BY DEF Go, SessionInv, TypeOK
<1>2. HasRemoved(t)'
  BY <1>1 DEF HasRemoved, Clearing
<1>3. LogoutHasRemoved' /\ \A x \in Threads \ {t} : st'[x].pc = st[x].pc
  BY <1>2, OwnLogout
<1>4. KeysAreKnown'
  BY DEF KeyInv, KeysAreKnown
<1>5. KeysAreListed'
  BY <1>1, <1>3 DEF KeyInv, KeysAreListed
<1> QED
  BY <1>3, <1>4, <1>5 DEF KeyInv

LEMMA LoginKeys ==
    ASSUME SessionInv, SessionInv', KeyInv, NEW t \in Threads,
           LoginConfig(t) \/ StoreKeypair(t) \/ StoreKeys(t) \/ StoreWorkspaces(t)
    PROVE  KeyInv'
<1>1. /\ st[t] \in States /\ Idle.pc = "idle" /\ st[t].user \in Users
      /\ st[t].pc \in LoginSteps /\ (st[t].pc # "config" => st[t].user \in users)
      /\ users \subseteq Users
  BY DEF SessionInv, TypeOK, JobsAreTyped, JobIsTyped, LoginConfig, StoreKeypair, StoreKeys,
         StoreWorkspaces, At, LoginSteps, Idle
<1>2. \A pc \in LoginSteps : To(t, pc).pc = pc
  BY <1>1 DEF To, States
<1>3. PICK r : Go(t, r) /\ r.pc \in LoginSteps \union {"idle"}
  BY <1>1, <1>2 DEF LoginConfig, StoreKeypair, StoreKeys, StoreWorkspaces, LoginSteps
<1>4. st'[t] = r
  BY <1>3 DEF Go, SessionInv, TypeOK
<1>5. HasRemoved(t)'
  BY <1>3, <1>4 DEF HasRemoved, Clearing, LoginSteps
<1>6. LogoutHasRemoved' /\ \A x \in Threads \ {t} : st'[x].pc = st[x].pc
  BY <1>3, <1>5, OwnLogout
<1>7. KeysAreKnown'
  <2> USE DEF KeyInv, KeysAreKnown, keys, history, SessionInv, TypeOK
  <2>1. CASE LoginConfig(t)
    BY <1>1, <2>1 DEF LoginConfig
  <2>2. CASE StoreKeypair(t)
    BY <1>1, <2>2 DEF StoreKeypair, At
  <2>3. CASE StoreKeys(t)
    BY <1>1, <2>3 DEF StoreKeys, At
  <2>4. CASE StoreWorkspaces(t)
    BY <1>1, <2>4 DEF StoreWorkspaces, At
  <2> QED
    BY <2>1, <2>2, <2>3, <2>4
<1>8. KeysAreListed'
  <2> USE DEF KeyInv, KeysAreListed, keys, history
  <2>1. CASE LoginConfig(t)
    BY <1>1, <1>6, <2>1 DEF LoginConfig, HalfWay, At, SessionInv, TypeOK
  <2>2. CASE StoreKeypair(t)
    BY <1>1, <1>6, <2>2 DEF StoreKeypair, HalfWay, At
  <2>3. CASE StoreKeys(t)
    <3>1. CASE UNCHANGED wskeys
      BY <1>1, <1>6, <2>3, <3>1 DEF StoreKeys, HalfWay, At
    <3>2. CASE Go(t, To(t, "wsconfig"))
      <4>1. st'[t].pc \in HalfWay
        BY <1>1, <1>2, <3>2 DEF Go, SessionInv, TypeOK, HalfWay, LoginSteps
      <4> QED
        BY <4>1
    <3> QED
      BY <2>3, <3>1, <3>2 DEF StoreKeys
  <2>4. CASE StoreWorkspaces(t)
    <3>1. wskeys \subseteq users /\ st[t].user \in users
      BY <1>1, <2>4 DEF StoreWorkspaces, At, KeysAreKnown
    <3>2. config'.workspaces = {st[t].user} /\ wskeys' = wskeys /\ users' = users
      BY <2>4 DEF StoreWorkspaces, SessionInv, TypeOK
    <3> QED
      BY <3>1, <3>2
  <2> QED
    BY <2>1, <2>2, <2>3, <2>4
<1> QED
  BY <1>6, <1>7, <1>8 DEF KeyInv

LEMMA LogoutKeys ==
    ASSUME SessionInv, SessionInv', KeyInv, NEW t \in Threads,
           \/ ForgetKeypair(t) \/ ClearTokens(t) \/ ClearKeys(t) \/ ClearConfig(t)
           \/ LoggedOut(t)
    PROVE  KeyInv'
<1>1. /\ st[t] \in States /\ st[t].job = "logout" /\ Owner[t] \in Processes
      /\ st[t].pc \in {"forget", "cleartokens"} \union Clearing
  BY SessionAssumption
     DEF SessionInv, TypeOK, JobsAreTyped, JobIsTyped, ForgetKeypair, ClearTokens,
         ClearKeys, ClearConfig, LoggedOut, At, Clearing
<1>2. ASSUME NEW pc
      PROVE  LET r == To(t, pc)
                 s == [To(t, pc) EXCEPT !.missed = TRUE]
             IN /\ r.pc = pc /\ r.user = st[t].user /\ r.alone = st[t].alone
                /\ r.missed = st[t].missed /\ r.job = "logout"
                /\ s.pc = pc /\ s.missed
  BY <1>1 DEF To, States
<1>3. users' = users
  BY DEF ForgetKeypair, ClearTokens, ClearKeys, ClearConfig, LoggedOut, history
<1>4. \A r : Go(t, r) => st'[t] = r
  BY DEF Go
<1> USE DEF keys, history, server
<1>5. CASE ForgetKeypair(t)
  <2>1. PICK r \in {To(t, "cleartokens"), [To(t, "cleartokens") EXCEPT !.missed = TRUE]} :
           /\ Go(t, r)
           /\ \/ keypairs' = keypairs \ {st[t].user}
              \/ keypairs' = keypairs /\ r.missed
    BY <1>2, <1>5 DEF ForgetKeypair, Ignoring
  <2>2. st'[t] = r /\ r.pc = "cleartokens" /\ r.user = st[t].user
    BY <1>1, <1>4, <2>1 DEF To, States
  <2>3. Undisturbed(t)' => HasRemoved(t)'
    BY <1>3, <2>1, <2>2 DEF Undisturbed, HasRemoved, Clearing, KeyInv, KeysAreKnown
  <2>4. LogoutHasRemoved' /\ \A x \in Threads \ {t} : st'[x].pc = st[x].pc
    BY <2>1, <2>3, OwnLogout
  <2>5. KeysAreKnown'
    BY <1>5, <2>1 DEF ForgetKeypair, KeyInv, KeysAreKnown
  <2>6. KeysAreListed'
    BY <1>5, <2>2, <2>4 DEF ForgetKeypair, KeyInv, KeysAreListed, HalfWay, At
  <2> QED
    BY <2>4, <2>5, <2>6 DEF KeyInv
<1>6. CASE ClearTokens(t)
  <2>1. PICK r \in {To(t, "clearkeys"), [To(t, "clearkeys") EXCEPT !.missed = TRUE]} :
           /\ Go(t, r) /\ (stored' = None \/ r.missed)
           /\ r.alone = st[t].alone /\ (r.missed \/ ~st[t].missed)
    BY <1>1, <1>6 DEF ClearTokens, Ignoring, To, States
  <2>2. st'[t] = r /\ r.pc = "clearkeys" /\ r.user = st[t].user
    BY <1>1, <1>4, <2>1 DEF To, States
  <2>3. mem'[Owner[t]] = None
    BY <1>1, <1>6 DEF ClearTokens, SessionInv, TypeOK
  <2>4. Undisturbed(t)' => HasRemoved(t)'
    BY <1>1, <1>3, <1>6, <2>1, <2>2, <2>3
       DEF Undisturbed, HasRemoved, Clearing, KeyInv, LogoutHasRemoved, ClearTokens, At
  <2>5. LogoutHasRemoved' /\ \A x \in Threads \ {t} : st'[x].pc = st[x].pc
    BY <2>1, <2>4, OwnLogout
  <2>6. KeysAreKnown'
    BY <1>6 DEF ClearTokens, KeyInv, KeysAreKnown
  <2>7. KeysAreListed'
    BY <1>6, <2>2, <2>5 DEF ClearTokens, KeyInv, KeysAreListed, HalfWay, At
  <2> QED
    BY <2>5, <2>6, <2>7 DEF KeyInv
<1>7. CASE ClearKeys(t)
  <2>1. PICK r \in {To(t, "clearconfig"), [To(t, "clearconfig") EXCEPT !.missed = TRUE]} :
           /\ Go(t, r)
           /\ wskeys' = wskeys \ config.workspaces \/ (wskeys' = wskeys /\ r.missed)
           /\ r.alone = st[t].alone /\ (r.missed \/ ~st[t].missed)
    <3> DEFINE ok == To(t, "clearconfig")
               missed == [To(t, "clearconfig") EXCEPT !.missed = TRUE]
    <3>1. /\ ok.alone = st[t].alone /\ ok.missed = st[t].missed
          /\ missed.alone = st[t].alone /\ missed.missed
      BY <1>1 DEF To, States
    <3> HIDE DEF ok, missed
    <3>2. \/ wskeys' = wskeys \ config.workspaces /\ Go(t, ok)
          \/ wskeys' = wskeys /\ Go(t, missed)
      BY <1>7 DEF ClearKeys, Ignoring, ok, missed
    <3>3. ok.missed \/ ~st[t].missed
      BY <1>1 DEF ok, To, States
    <3>4. \E r \in {ok, missed} :
             /\ Go(t, r)
             /\ wskeys' = wskeys \ config.workspaces \/ (wskeys' = wskeys /\ r.missed)
             /\ r.alone = st[t].alone /\ (r.missed \/ ~st[t].missed)
      <4>1. CASE wskeys' = wskeys \ config.workspaces /\ Go(t, ok)
        BY <3>1, <3>3, <4>1, Zenon
      <4>2. CASE wskeys' = wskeys /\ Go(t, missed)
        BY <3>1, <4>2, Zenon
      <4> QED
        BY <3>2, <4>1, <4>2
    <3> QED
      BY <3>4, Zenon DEF ok, missed
  <2>2. st'[t] = r /\ r.pc = "clearconfig" /\ r.user = st[t].user
    BY <1>1, <1>4, <2>1 DEF To, States
  <2>3. \A x \in Threads \ {t} : st'[x].pc = st[x].pc
    <3>1. \A x \in Threads \ {t} : st[x] \in States
      BY DEF SessionInv, TypeOK
    <3> QED
      BY <2>1, <3>1 DEF Go, States
  <2>4. ASSUME Undisturbed(t)' PROVE HasRemoved(t)'
    <3>1. Undisturbed(t) /\ HasRemoved(t) /\ st[t].pc = "clearkeys"
      BY <1>1, <1>3, <1>7, <2>1, <2>2, <2>4
         DEF Undisturbed, KeyInv, LogoutHasRemoved, ClearKeys, At
    <3>2. ASSUME ~torn, ~HalfDone(t)' PROVE wskeys' = {}
      <4>1. \A x \in Threads : st[x].pc \notin HalfWay
        BY <2>3, <3>1, <3>2 DEF HalfDone, HalfWay
      <4>2. wskeys \subseteq config.workspaces
        BY <3>1, <3>2, <4>1 DEF KeyInv, KeysAreListed, Undisturbed, SessionInv, TypeOK
      <4> QED
        BY <2>1, <2>2, <2>4, <4>2 DEF Undisturbed
    <3> QED
      BY <1>7, <2>2, <3>1, <3>2 DEF HasRemoved, Clearing, ClearKeys, tokens
  <2>5. LogoutHasRemoved'
    BY <2>1, <2>4, OwnLogout
  <2>6. KeysAreKnown'
    BY <1>7, <2>1 DEF ClearKeys, KeyInv, KeysAreKnown
  <2>7. KeysAreListed'
    BY <1>7, <2>1, <2>2, <2>3 DEF ClearKeys, KeyInv, KeysAreListed, HalfWay, At
  <2> QED
    BY <2>5, <2>6, <2>7 DEF KeyInv
<1>8. CASE ClearConfig(t)
  <2> DEFINE r == To(t, "done")
  <2>1. Go(t, r) /\ st'[t] = r
    BY <1>4, <1>8 DEF ClearConfig
  <2>2. /\ r.pc = "done" /\ r.user = st[t].user /\ r.alone = st[t].alone
        /\ r.missed = st[t].missed
    BY <1>2
  <2>3. \A x \in Threads \ {t} : st'[x].pc = st[x].pc
    <3>1. \A x \in Threads \ {t} : st[x] \in States
      BY DEF SessionInv, TypeOK
    <3> QED
      BY <2>1, <3>1 DEF Go, States
  <2> HIDE DEF r
  <2>4. ASSUME Undisturbed(t)' PROVE HasRemoved(t)'
    <3>1. Undisturbed(t) /\ HasRemoved(t) /\ st[t].pc = "clearconfig"
      BY <1>1, <1>3, <1>8, <2>1, <2>2, <2>4
         DEF Undisturbed, KeyInv, LogoutHasRemoved, ClearConfig, At
    <3>2. HalfDone(t)' <=> HalfDone(t)
      BY <2>3 DEF HalfDone
    <3> QED
      BY <1>8, <2>1, <2>2, <3>1, <3>2 DEF HasRemoved, Clearing, ClearConfig
  <2>5. LogoutHasRemoved'
    BY <2>1, <2>4, OwnLogout
  <2>6. KeysAreKnown'
    BY <1>8 DEF ClearConfig, KeyInv, KeysAreKnown, NoConfig
  <2>7. KeysAreListed'
    BY <2>1, <2>2 DEF KeysAreListed, HalfWay
  <2> QED
    BY <2>5, <2>6, <2>7 DEF KeyInv
<1>9. CASE LoggedOut(t)
  <2>1. st'[t] = Idle /\ Go(t, Idle) /\ Idle.pc = "idle" /\ Idle.job = "none"
    BY <1>4, <1>9 DEF LoggedOut, Idle
  <2>2. LogoutHasRemoved' /\ \A x \in Threads \ {t} : st'[x].pc = st[x].pc
    BY <2>1, OwnLogout DEF Undisturbed
  <2>3. KeysAreKnown'
    BY <1>9 DEF LoggedOut, KeyInv, KeysAreKnown
  <2>4. KeysAreListed'
    BY <1>9 DEF LoggedOut, KeysAreListed
  <2> QED
    BY <2>2, <2>3, <2>4 DEF KeyInv
<1> QED
  BY <1>5, <1>6, <1>7, <1>8, <1>9

LEMMA WorkspaceKeys ==
    ASSUME SessionInv, SessionInv', KeyInv, NEW t \in Threads,
           SwitchWorkspace(t) \/ UseWorkspaceKey(t)
    PROVE  KeyInv'
<1>1. st[t] = Idle /\ Go(t, Idle) /\ Idle.pc = "idle" /\ Idle.job = "none"
  BY DEF SwitchWorkspace, UseWorkspaceKey, Idle
<1>2. LogoutHasRemoved' /\ st'[t] = Idle /\ \A x \in Threads \ {t} : st'[x].pc = st[x].pc
  <2>1. st'[t] = Idle
    BY <1>1 DEF Go
  <2> QED
    BY <1>1, <2>1, OwnLogout DEF Undisturbed
<1>3. /\ config'.workspaces = config.workspaces /\ config'.email = config.email
      /\ config'.plain \subseteq config.plain /\ wskeys' \subseteq wskeys \union config.plain
      /\ keypairs' = keypairs /\ users' = users /\ torn' = torn
  BY DEF SwitchWorkspace, UseWorkspaceKey, keys, history, SessionInv, TypeOK
<1>4. KeysAreKnown'
  BY <1>3 DEF KeyInv, KeysAreKnown
<1>5. KeysAreListed'
  BY <1>1, <1>2, <1>3 DEF KeyInv, KeysAreKnown, KeysAreListed
<1> QED
  BY <1>2, <1>4, <1>5 DEF KeyInv

\* Whoever restarts in the middle of a login or logout leaves torn, or no key at all.
LEMMA RestartKeys ==
    ASSUME SessionInv, SessionInv', KeyInv, NEW p \in Processes, Restart(p)
    PROVE  KeyInv'
<1>1. /\ UNCHANGED <<keypairs, wskeys, config, users, stored, tokenfile>>
      /\ torn' = (torn \/ /\ wskeys # {}
                          /\ \E t \in Threads : Owner[t] = p /\ st[t].pc \in HalfWay)
      /\ \A x \in Threads : st'[x] = IF Owner[x] = p THEN Idle ELSE st[x]
      /\ Idle.pc = "idle" /\ Idle.job = "none"
  BY DEF Restart, keys, Idle
<1>2. ASSUME ~torn', NEW x \in Threads, st[x].pc \in HalfWay, wskeys # {}
      PROVE  ~torn /\ st'[x].pc \in HalfWay
  BY <1>1, <1>2
<1>3. KeysAreKnown'
  BY <1>1 DEF KeyInv, KeysAreKnown
<1>4. KeysAreListed'
  <2> SUFFICES ASSUME ~torn', \E u \in Users : users \subseteq {u},
                      \A x \in Threads : st'[x].pc \notin HalfWay
               PROVE  wskeys \subseteq config.workspaces
    BY <1>1 DEF KeysAreListed
  <2> QED
    BY <1>1, <1>2 DEF KeyInv, KeysAreListed
<1>5. ASSUME NEW t \in Threads, Undisturbed(t)' PROVE HasRemoved(t)'
  <2>1. st'[t] = st[t] /\ Owner[t] # p /\ Owner[t] \in Processes
    BY <1>1, <1>5, SessionAssumption DEF Undisturbed
  <2>2. Undisturbed(t) /\ HasRemoved(t)
    BY <1>1, <1>5, <2>1 DEF Undisturbed, KeyInv, LogoutHasRemoved
  <2>3. mem'[Owner[t]] = mem[Owner[t]]
    BY <2>1 DEF Restart, SessionInv, TypeOK
  <2>4. ~torn' /\ ~HalfDone(t)' => (~torn /\ ~HalfDone(t)) \/ wskeys = {}
    BY <1>1, <1>2 DEF HalfDone
  <2> QED
    BY <1>1, <2>1, <2>2, <2>3, <2>4 DEF HasRemoved
<1> QED
  BY <1>3, <1>4, <1>5 DEF KeyInv, LogoutHasRemoved

LEMMA KeyStep == SessionInv /\ SessionInv' /\ KeyInv /\ [Next]_vars => KeyInv'
<1> SUFFICES ASSUME SessionInv, SessionInv', KeyInv, [Next]_vars PROVE KeyInv'
  OBVIOUS
<1>1. ASSUME NEW t \in Threads,
             \/ Ensure(t) \/ Request(t) \/ Send(t) \/ Denied(t) \/ Ask(t) \/ Keep(t)
             \/ Login(t) \/ LoginTokens(t) \/ Check(t)
             \/ Call(t) \/ StartLogin(t) \/ StartLogout(t)
      PROVE  KeyInv'
  <2>1. PICK r : /\ Go(t, r) /\ UNCHANGED <<keypairs, wskeys, config, users, torn>>
                 /\ st[t].pc \notin HalfWay
                 /\ r.pc \notin {"cleartokens"} \union Clearing \union HalfWay
    BY <1>1, AwayFromKeys
  <2> QED
    BY <2>1, AwayStep
<1>2. ASSUME NEW t \in Threads,
             \/ LoginConfig(t) \/ StoreKeypair(t) \/ StoreKeys(t) \/ StoreWorkspaces(t)
             \/ ForgetKeypair(t) \/ ClearTokens(t) \/ ClearKeys(t) \/ ClearConfig(t)
             \/ LoggedOut(t) \/ SwitchWorkspace(t) \/ UseWorkspaceKey(t)
      PROVE  KeyInv'
  BY <1>2, LoginKeys, LogoutKeys, WorkspaceKeys
<1>3. CASE UNCHANGED <<stored, tokenfile, mem, keys, config, st, users, torn>>
  <2>1. KeysAreKnown' /\ KeysAreListed'
    BY <1>3 DEF KeyInv, KeysAreKnown, KeysAreListed, keys
  <2>2. ASSUME NEW t \in Threads, Undisturbed(t)' PROVE HasRemoved(t)'
    <3>1. Undisturbed(t) /\ HasRemoved(t)
      BY <1>3, <2>2 DEF Undisturbed, KeyInv, LogoutHasRemoved
    <3> QED
      BY <1>3, <3>1 DEF HasRemoved, HalfDone, keys
  <2> QED
    BY <2>1, <2>2 DEF KeyInv, LogoutHasRemoved
<1>4. CASE Expire \/ Revoke \/ UNCHANGED vars
  BY <1>3, <1>4 DEF Expire, Revoke, vars, tokens, history
<1> QED
  BY <1>1, <1>2, <1>4, RestartKeys DEF Next, Step

LEMMA KeyInit == Init => KeyInv
<1> SUFFICES ASSUME Init PROVE KeyInv
  OBVIOUS
<1>1. PICK u \in Users \union {None}, old \in BOOLEAN :
          LET own == IF u = None THEN {} ELSE {u}
          IN /\ keypairs = own /\ wskeys = IF old THEN {} ELSE own
             /\ config = [email |-> u, workspaces |-> own, selected |-> u,
                          plain |-> IF old THEN own ELSE {}]
             /\ users = own
  BY Zenon DEF Init
<1>2. \A t \in Threads : st[t] = Idle /\ Idle.job = "none"
  BY DEF Init, Idle
<1>3. KeysAreKnown /\ KeysAreListed
  BY <1>1 DEF KeysAreKnown, KeysAreListed
<1> QED
  BY <1>2, <1>3 DEF KeyInv, LogoutHasRemoved, Undisturbed

\* Logout clears all that this machine has stored for the one user who has been logged in
\* here, in the keychain and in files, if nothing of it failed, no other process was at
\* work and none had been killed between keychain and config.json (auth.go:238-252, config.go:810-848).
THEOREM LogoutClearsEverything == Spec => []LogoutForgets
<1>1. Init => SessionInv /\ KeyInv
  BY SessionInit, KeyInit
<1>2. SessionInv /\ KeyInv /\ [Next]_vars => (SessionInv /\ KeyInv)'
  BY SessionStep, KeyStep
<1>3. SessionInv /\ KeyInv => LogoutForgets
  <2> SUFFICES ASSUME SessionInv, KeyInv, NEW t \in Threads,
                      At(t, "done"), st[t].alone, ~st[t].missed, ~torn, ~HalfDone(t),
                      users = {st[t].user}
               PROVE  /\ stored = None /\ tokenfile = None /\ mem[Owner[t]] = None
                      /\ keypairs = {} /\ wskeys = {} /\ config = NoConfig
    BY DEF LogoutForgets
  <2>1. st[t].pc = "done" /\ st[t].job = "logout"
    BY DEF At, SessionInv, JobsAreTyped, JobIsTyped, Clearing
  <2>2. HasRemoved(t)
    BY <2>1 DEF KeyInv, LogoutHasRemoved, Undisturbed
  <2> QED
    BY <2>1, <2>2 DEF HasRemoved, Clearing
<1> QED
  BY <1>1, <1>2, <1>3, PTL DEF Spec

=============================================================================
