--------------------------- MODULE AuditLogProofs ---------------------------
(***************************************************************************)
(* Theorems about AuditLog, for any processes, events, queue and batch.    *)
(*                                                                         *)
(* The inductive invariant follows an event from the queue to its row: it  *)
(* waits in one place only, an upload's marker stands behind all that the  *)
(* upload has to wait for, and what an upload carries are rows.            *)
(***************************************************************************)
EXTENDS AuditLog, FiniteSetTheorems, SequenceTheorems, TLAPS

Positions(p) == 1..Len(queue[p])

\* An entry is the marker or a queued event of the process that is not being written.
QueueHoldsQueued ==
    \A p \in Procs : \A i \in Positions(p) :
        \/ queue[p][i] = Marker /\ sync[p] = "flush"
        \/ /\ queue[p][i] \in Events
           /\ st[queue[p][i]] = "queued"
           /\ Owner[queue[p][i]] = p
           /\ writing[p] # queue[p][i]

\* Nothing is in the queue twice.
QueueHasNoDuplicates ==
    \A p \in Procs : \A i, j \in Positions(p) : queue[p][i] = queue[p][j] => i = j

\* What is being written is an event of the process that has no row yet.
WritesItsOwn ==
    \A p \in Procs : writing[p] # None =>
        /\ writing[p] \in Events
        /\ Owner[writing[p]] = p
        /\ st[writing[p]] \in {"queued", "inline"}

\* A queued event is being written or in its process's queue.
QueuedIsHeld ==
    \A e \in Events : st[e] = "queued" =>
        \/ writing[Owner[e]] = e
        \/ \E i \in Positions(Owner[e]) : queue[Owner[e]][i] = e

\* What an upload has to wait for is done, being written, or ahead of its marker.
AheadOfMarker(p, e) ==
    /\ Owner[e] = p /\ st[e] = "queued"
    /\ \/ writing[p] = e
       \/ \E i, j \in Positions(p) : i < j /\ queue[p][i] = e /\ queue[p][j] = Marker

Done(e) == st[e] \in {"written", "unwritable"}

MarkerIsBehind ==
    \A p \in Procs : sync[p] = "flush" =>
        \A e \in before[p] : Done(e) \/ AheadOfMarker(p, e)

\* An upload carries rows, and what it will mark has been received.
UploadsRows ==
    \A p \in Procs :
        /\ batch[p] \subseteq Rows
        /\ sync[p] = "posted" => batch[p] \subseteq received

\* A command reaches its end only when all its events are queued or beyond.
EndsAfterLogging ==
    \A p \in Procs : kind[p] = "command" /\ life[p] \in {"finishing", "closing"} =>
        \A e \in Of(p) : st[e] \notin {"new", "stamped", "inline"}

\* An event that is not stamped has no created_at.
UnstampedIsNew == \A e \in Events : st[e] = "new" => created[e] = 0

Inv ==
    /\ TypeOK
    /\ QueueHoldsQueued /\ QueueHasNoDuplicates
    /\ WritesItsOwn /\ QueuedIsHeld
    /\ MarkerIsBehind /\ FlushIsABarrier
    /\ UploadsRows /\ MarkedWasReceived
    /\ EndsAfterLogging /\ CloseDrains
    /\ UnstampedIsNew

-----------------------------------------------------------------------------
(* Queues and clocks.                                                      *)

Entries == Events \union {Marker}

\* A send adds an entry behind the others of one queue.
LEMMA Send ==
    ASSUME TypeOK, NEW p \in Procs, NEW x \in Entries,
           queue' = [queue EXCEPT ![p] = Append(@, x)]
    PROVE  /\ queue' \in [Procs -> Seq(Entries)]
           /\ \A q \in Procs : q # p => queue'[q] = queue[q]
           /\ Len(queue[p]) \in Nat /\ Len(queue'[p]) = Len(queue[p]) + 1
           /\ \A i \in 1..Len(queue[p]) : queue'[p][i] = queue[p][i]
           /\ queue'[p][Len(queue[p]) + 1] = x
<1>1. queue \in [Procs -> Seq(Entries)] /\ queue[p] \in Seq(Entries)
  BY DEF TypeOK, Entries
<1>2. Append(queue[p], x) \in Seq(Entries) /\ queue'[p] = Append(queue[p], x)
  BY <1>1
<1> QED
  BY <1>1, <1>2

\* A receive takes the first entry off one queue.
LEMMA Take ==
    ASSUME TypeOK, NEW p \in Procs, queue[p] # <<>>,
           queue' = [queue EXCEPT ![p] = Tail(@)]
    PROVE  /\ queue' \in [Procs -> Seq(Entries)]
           /\ \A q \in Procs : q # p => queue'[q] = queue[q]
           /\ Len(queue[p]) \in Nat /\ Len(queue'[p]) = Len(queue[p]) - 1
           /\ Head(queue[p]) \in Entries
           /\ Head(queue[p]) = queue[p][1] /\ 1 \in 1..Len(queue[p])
           /\ \A i \in 1..Len(queue'[p]) :
                 queue'[p][i] = queue[p][i + 1] /\ i + 1 \in 1..Len(queue[p])
<1>1. queue \in [Procs -> Seq(Entries)] /\ queue[p] \in Seq(Entries)
  BY DEF TypeOK, Entries
<1>2. Tail(queue[p]) \in Seq(Entries) /\ queue'[p] = Tail(queue[p])
  BY <1>1
<1> QED
  BY <1>1, <1>2

\* There is a time left for an event that has none.
LEMMA NextTime ==
    ASSUME NEW e \in Events, created \in [Events -> 0..Cardinality(Events)], created[e] = 0
    PROVE  1 + Cardinality({f \in Events : created[f] > 0}) \in 0..Cardinality(Events)
<1> DEFINE T == {f \in Events : created[f] > 0}
<1>1. IsFiniteSet(Events)
  BY AuditAssumption
<1>2. IsFiniteSet(Events \ {e}) /\ Cardinality(Events \ {e}) = Cardinality(Events) - 1
  BY <1>1, FS_RemoveElement
<1>3. T \subseteq Events \ {e}
  OBVIOUS
<1>4. IsFiniteSet(T) /\ Cardinality(T) <= Cardinality(Events \ {e})
  BY <1>2, <1>3, FS_Subset
<1>5. Cardinality(T) \in Nat /\ Cardinality(Events) \in Nat
  BY <1>1, <1>4, FS_CardinalityType
<1> QED
  BY <1>2, <1>4, <1>5

LEMMA InitInv == Init => Inv
<1> SUFFICES ASSUME Init PROVE Inv
  OBVIOUS
<1>1. Cardinality(Events) \in Nat
  BY AuditAssumption, FS_CardinalityType
<1> QED
  BY <1>1, AuditAssumption
  DEF Init, Inv, TypeOK, States, Lost, Positions, QueueHoldsQueued, QueueHasNoDuplicates,
      WritesItsOwn, QueuedIsHeld, MarkerIsBehind, FlushIsABarrier, UploadsRows, Rows,
      MarkedWasReceived, EndsAfterLogging, CloseDrains, UnstampedIsNew

\* A set of natural numbers with a bound has a greatest element: among the intervals
\* that begin in the set and end at the bound, one includes no other.
LEMMA GreatestNatural ==
    ASSUME NEW N \in Nat, NEW T \in SUBSET (0..N), T # {}
    PROVE  \E i \in T : \A j \in T : j <= i
<1> DEFINE above(k) == k..N
           Intervals == {above(k) : k \in T}
<1>1. Intervals \subseteq FiniteSubsetsOf(Nat)
  <2>1. \A k \in T : above(k) \subseteq Nat /\ IsFiniteSet(above(k))
    BY FS_Interval
  <2> QED
    BY <2>1 DEF FiniteSubsetsOf
<1>2. PICK I \in Intervals :
          \A J \in Intervals : ~ (<<J, I>> \in StrictSubsetOrdering(Nat))
  <2>1. Intervals # {}
    OBVIOUS
  <2> QED
    BY <1>1, <2>1, FS_StrictSubsetOrderingWellFounded, WFMin
<1>3. PICK i \in T : I = above(i)
  BY <1>2
<1>4. ASSUME NEW j \in T, i < j PROVE FALSE
  <2>1. above(j) \subseteq above(i) /\ above(j) # above(i) /\ above(i) \subseteq Nat
    BY <1>4
  <2>2. <<above(j), above(i)>> \in StrictSubsetOrdering(Nat)
    BY <2>1 DEF StrictSubsetOrdering
  <2> QED
    BY <1>2, <1>3, <2>2
<1> QED
  BY <1>4

\* A write is chained to a row, or to the beginning.
LEMMA LatestIsARow ==
    ASSUME TypeOK
    PROVE  Latest(Rows) \in Events \union {Genesis}
<1>1. CASE Rows = {}
  BY <1>1 DEF Latest
<1>2. CASE Rows # {}
  <2>1. \E e \in Rows : \A f \in Rows : created[f] <= created[e]
    <3> DEFINE T == {created[e] : e \in Rows}
    <3>1. Cardinality(Events) \in Nat
      BY AuditAssumption, FS_CardinalityType
    <3>2. T \in SUBSET (0..Cardinality(Events)) /\ T # {}
      <4>1. PICK e \in Rows : created[e] \in T
        BY <1>2
      <4>2. \A n \in T : n \in 0..Cardinality(Events)
        BY DEF TypeOK, Rows
      <4> QED
        BY <4>1, <4>2
    <3>3. PICK n \in T : \A m \in T : m <= n
      BY <3>1, <3>2, GreatestNatural
    <3> QED
      BY <3>3
  <2> QED
    BY <1>2, <2>1 DEF Latest, Rows
<1> QED
  BY <1>1, <1>2

-----------------------------------------------------------------------------
(* Every step keeps the invariant.                                         *)

LEMMA EnqueueInv ==
    ASSUME Inv, NEW e \in Events, Enqueue(e)
    PROVE  Inv'
<1> DEFINE p == Owner[e]
<1> USE DEF Inv
<1>1. /\ p \in Procs /\ e \in Entries /\ e # Marker /\ e # None
      /\ st[e] = "stamped" /\ life[p] \in {"running", "finishing"}
      /\ UNCHANGED <<created, rowVars, life, writing, seen, syncVars, kind, kills>>
  BY AuditAssumption DEF Entries, Enqueue
<1>2. \A q \in Procs : writing[q] # e
  BY <1>1 DEF WritesItsOwn
<1>3. \A q \in Procs : \A i \in Positions(q) : queue[q][i] # e
  BY <1>1 DEF QueueHoldsQueued
<1>4. CASE Len(queue[p]) < QueueCap
  <2>1. /\ queue' = [queue EXCEPT ![p] = Append(@, e)]
        /\ st' = [st EXCEPT ![e] = "queued"]
    BY <1>4 DEF Enqueue
  <2>2. /\ queue' \in [Procs -> Seq(Entries)]
        /\ \A q \in Procs : q # p => queue'[q] = queue[q]
        /\ Len(queue[p]) \in Nat /\ Len(queue'[p]) = Len(queue[p]) + 1
        /\ \A i \in 1..Len(queue[p]) : queue'[p][i] = queue[p][i]
        /\ queue'[p][Len(queue[p]) + 1] = e
    BY <1>1, <2>1, Send
  <2>3. TypeOK'
    <3>1. \A q \in Procs : Len(queue'[q]) <= QueueCap
      <4>1. QueueCap \in Nat /\ Len(queue[p]) + 1 <= QueueCap
        BY <1>4, <2>2, AuditAssumption
      <4> QED
        BY <2>2, <4>1 DEF TypeOK
    <3> QED
      BY <1>1, <2>1, <2>2, <3>1 DEF TypeOK, Entries, States, rowVars, syncVars
  <2>4. QueueHoldsQueued'
    BY <1>1, <1>2, <1>3, <2>1, <2>2 DEF QueueHoldsQueued, Positions, TypeOK, syncVars
  <2>5. QueueHasNoDuplicates'
    BY <1>1, <1>3, <2>2 DEF QueueHasNoDuplicates, Positions
  <2>6. WritesItsOwn'
    BY <1>1, <2>1 DEF WritesItsOwn, TypeOK
  <2>7. QueuedIsHeld'
    <3> SUFFICES ASSUME NEW f \in Events, st'[f] = "queued", writing[Owner[f]] # f
                 PROVE  \E i \in 1..Len(queue'[Owner[f]]) : queue'[Owner[f]][i] = f
      BY <1>1 DEF QueuedIsHeld, Positions
    <3>1. Owner[f] \in Procs
      BY AuditAssumption
    <3>2. CASE f = e
      BY <2>2, <3>2
    <3>3. CASE f # e
      <4>1. PICK i \in 1..Len(queue[Owner[f]]) : queue[Owner[f]][i] = f
        BY <2>1, <3>3 DEF QueuedIsHeld, Positions, TypeOK
      <4>2. CASE Owner[f] = p
        <5>1. i \in 1..Len(queue'[p]) /\ queue'[p][i] = f
          BY <2>2, <4>1, <4>2
        <5> QED
          BY <4>2, <5>1
      <4>3. CASE Owner[f] # p
        BY <2>2, <3>1, <4>1, <4>3
      <4> QED
        BY <4>2, <4>3
    <3> QED
      BY <3>2, <3>3
  <2>8. MarkerIsBehind'
    <3> SUFFICES ASSUME NEW q \in Procs, sync[q] = "flush", NEW f \in before[q]
                 PROVE  (Done(f) \/ AheadOfMarker(q, f))'
      BY <1>1 DEF MarkerIsBehind, syncVars
    <3>1. (Done(f) \/ AheadOfMarker(q, f)) /\ f \in Events
      BY DEF MarkerIsBehind, TypeOK
    <3>2. f # e
      BY <1>1, <3>1 DEF Done, AheadOfMarker
    <3>3. st'[f] = st[f]
      BY <2>1, <3>1, <3>2 DEF TypeOK
    <3>4. ASSUME NEW i \in Positions(q), NEW j \in Positions(q), i < j,
                 queue[q][i] = f, queue[q][j] = Marker
          PROVE  /\ i \in Positions(q)' /\ j \in Positions(q)'
                 /\ queue'[q][i] = f /\ queue'[q][j] = Marker
      BY <2>2, <3>4 DEF Positions
    <3> QED
      BY <1>1, <3>1, <3>3, <3>4 DEF Done, AheadOfMarker
  <2> QED
    BY <1>1, <2>1, <2>3, <2>4, <2>5, <2>6, <2>7, <2>8
    DEF FlushIsABarrier, UploadsRows, Rows, MarkedWasReceived, EndsAfterLogging, Of,
        CloseDrains, UnstampedIsNew, TypeOK, rowVars, syncVars
<1>5. CASE ~ (Len(queue[p]) < QueueCap)
  <2>1. st' = [st EXCEPT ![e] = "inline"] /\ UNCHANGED queue
    BY <1>5 DEF Enqueue
  <2>2. TypeOK'
    BY <1>1, <2>1 DEF TypeOK, States, rowVars, syncVars
  <2>3. QueueHoldsQueued' /\ QueueHasNoDuplicates' /\ WritesItsOwn' /\ QueuedIsHeld'
    BY <1>1, <1>2, <1>3, <2>1
    DEF QueueHoldsQueued, QueueHasNoDuplicates, WritesItsOwn, QueuedIsHeld, Positions,
        TypeOK, syncVars
  <2>4. MarkerIsBehind'
    BY <1>1, <2>1 DEF MarkerIsBehind, Done, AheadOfMarker, Positions, TypeOK, syncVars
  <2> QED
    BY <1>1, <2>1, <2>2, <2>3, <2>4
    DEF FlushIsABarrier, UploadsRows, Rows, MarkedWasReceived, EndsAfterLogging, Of,
        CloseDrains, UnstampedIsNew, TypeOK, rowVars, syncVars
<1> QED
  BY <1>4, <1>5

LEMMA WriteInlineInv ==
    ASSUME Inv, NEW e \in Events, WriteInline(e)
    PROVE  Inv'
<1> DEFINE p == Owner[e]
<1> USE DEF Inv
<1>1. /\ p \in Procs /\ st[e] = "inline" /\ writing[p] = None
      /\ writing' = [writing EXCEPT ![p] = e]
      /\ seen' = [seen EXCEPT ![p] = Latest(Rows)]
      /\ UNCHANGED <<st, created, rowVars, life, queue, syncVars, kind, kills>>
  BY AuditAssumption DEF WriteInline, Select, MutexFree
<1>2. TypeOK'
  BY <1>1, LatestIsARow DEF TypeOK, rowVars, syncVars
<1>3. QueueHoldsQueued' /\ QueueHasNoDuplicates'
  <2>1. \A q \in Procs, f \in Events : st[f] = "queued" /\ writing[q] # f => writing'[q] # f
    BY <1>1 DEF TypeOK
  <2> QED
    BY <1>1, <2>1 DEF QueueHoldsQueued, QueueHasNoDuplicates, Positions, syncVars
<1>4. WritesItsOwn' /\ QueuedIsHeld'
  <2>1. writing'[p] = e /\ \A q \in Procs : q # p => writing'[q] = writing[q]
    BY <1>1 DEF TypeOK
  <2>2. WritesItsOwn'
    BY <1>1, <2>1 DEF WritesItsOwn
  <2>3. \A f \in Events : Owner[f] \in Procs /\ f # None
    BY AuditAssumption
  <2>4. QueuedIsHeld'
    BY <1>1, <2>1, <2>3 DEF QueuedIsHeld, Positions
  <2> QED
    BY <2>2, <2>4
<1>5. MarkerIsBehind'
  <2> SUFFICES ASSUME NEW q \in Procs, sync[q] = "flush", NEW f \in before[q]
               PROVE  (Done(f) \/ AheadOfMarker(q, f))'
    BY <1>1 DEF MarkerIsBehind, syncVars
  <2>1. f \in Events /\ None \notin Events /\ (Done(f) \/ AheadOfMarker(q, f))
    BY AuditAssumption DEF MarkerIsBehind, TypeOK
  <2>2. writing[q] = f => writing'[q] = f
    BY <1>1, <2>1 DEF TypeOK
  <2> QED
    BY <1>1, <2>1, <2>2 DEF Done, AheadOfMarker, Positions, syncVars
<1> QED
  BY <1>1, <1>2, <1>3, <1>4, <1>5
  DEF FlushIsABarrier, UploadsRows, Rows, MarkedWasReceived, EndsAfterLogging, Of,
      CloseDrains, UnstampedIsNew, rowVars, syncVars

LEMMA WriteNextInv ==
    ASSUME Inv, NEW p \in Procs, WriteNext(p)
    PROVE  Inv'
<1> DEFINE e == Head(queue[p])
<1> USE DEF Inv
<1>1. /\ queue[p] # <<>> /\ e # Marker /\ writing[p] = None
      /\ queue' = [queue EXCEPT ![p] = Tail(@)]
      /\ writing' = [writing EXCEPT ![p] = e]
      /\ seen' = [seen EXCEPT ![p] = Latest(Rows)]
      /\ UNCHANGED <<st, created, rowVars, life, syncVars, kind, kills>>
  BY DEF WriteNext, Select, MutexFree
<1>2. /\ queue' \in [Procs -> Seq(Entries)]
      /\ \A q \in Procs : q # p => queue'[q] = queue[q]
      /\ Len(queue[p]) \in Nat /\ Len(queue'[p]) = Len(queue[p]) - 1
      /\ e = queue[p][1] /\ 1 \in 1..Len(queue[p])
      /\ \A i \in 1..Len(queue'[p]) :
            queue'[p][i] = queue[p][i + 1] /\ i + 1 \in 1..Len(queue[p])
  BY <1>1, Take
<1>3. e \in Events /\ st[e] = "queued" /\ Owner[e] = p
  BY <1>1, <1>2 DEF QueueHoldsQueued, Positions
<1>4. writing' \in [Procs -> Events \union {None}] /\ writing'[p] = e
  BY <1>1, <1>3 DEF TypeOK
<1>5. \A q \in Procs : q # p => writing'[q] = writing[q]
  BY <1>1 DEF TypeOK
<1>6. \A i \in 1..Len(queue'[p]) : queue'[p][i] # e
  <2> SUFFICES ASSUME NEW i \in 1..Len(queue'[p]), queue'[p][i] = e PROVE FALSE
    OBVIOUS
  <2>1. queue[p][i + 1] = queue[p][1] /\ i + 1 \in Positions(p) /\ 1 \in Positions(p)
    BY <1>2 DEF Positions
  <2>2. i + 1 = 1
    BY <2>1 DEF QueueHasNoDuplicates
  <2> QED
    BY <2>2
<1>7. TypeOK'
  <2>1. \A q \in Procs : Len(queue'[q]) <= QueueCap
    <3>1. Len(queue[p]) <= QueueCap /\ QueueCap \in Nat
      BY AuditAssumption DEF TypeOK
    <3>2. Len(queue'[p]) <= QueueCap
      BY <1>2, <3>1
    <3> QED
      BY <1>2, <3>2 DEF TypeOK
  <2> QED
    BY <1>1, <1>2, <1>4, <2>1, LatestIsARow DEF TypeOK, Entries, rowVars, syncVars
<1>8. QueueHoldsQueued'
  BY <1>1, <1>2, <1>4, <1>5, <1>6 DEF QueueHoldsQueued, Positions, syncVars
<1>9. QueueHasNoDuplicates'
  <2> SUFFICES ASSUME NEW q \in Procs, NEW i \in Positions(q)', NEW j \in Positions(q)',
                      queue'[q][i] = queue'[q][j]
               PROVE  i = j
    BY DEF QueueHasNoDuplicates
  <2>1. CASE q = p
    <3>1. queue[p][i + 1] = queue[p][j + 1] /\ i + 1 \in Positions(p) /\ j + 1 \in Positions(p)
      BY <1>2, <2>1 DEF Positions
    <3>2. i + 1 = j + 1 /\ i \in Nat /\ j \in Nat
      BY <3>1 DEF QueueHasNoDuplicates, Positions
    <3> QED
      BY <3>2
  <2>2. CASE q # p
    BY <1>2, <2>2 DEF QueueHasNoDuplicates, Positions
  <2> QED
    BY <2>1, <2>2
<1>10. WritesItsOwn'
  BY <1>1, <1>3, <1>4, <1>5 DEF WritesItsOwn
<1>11. QueuedIsHeld'
  <2> SUFFICES ASSUME NEW f \in Events, st[f] = "queued", f # e
               PROVE  \/ writing'[Owner[f]] = f
                      \/ \E i \in Positions(Owner[f])' : queue'[Owner[f]][i] = f
    BY <1>1, <1>3, <1>4 DEF QueuedIsHeld
  <2>1. Owner[f] \in Procs /\ f # None
    BY AuditAssumption
  <2>2. CASE Owner[f] # p
    BY <1>2, <1>5, <2>1, <2>2 DEF QueuedIsHeld, Positions
  <2>3. CASE Owner[f] = p
    <3>1. PICK i \in Positions(p) : queue[p][i] = f
      BY <1>1, <2>1, <2>3 DEF QueuedIsHeld
    <3>2. i - 1 \in 1..Len(queue'[p])
      BY <1>2, <3>1 DEF Positions
    <3>3. queue'[p][i - 1] = f
      BY <1>2, <3>1, <3>2 DEF Positions
    <3> QED
      BY <2>3, <3>2, <3>3 DEF Positions
  <2> QED
    BY <2>2, <2>3
<1>12. MarkerIsBehind'
  <2> SUFFICES ASSUME NEW q \in Procs, sync[q] = "flush", NEW f \in before[q]
               PROVE  (Done(f) \/ AheadOfMarker(q, f))'
    BY <1>1 DEF MarkerIsBehind, syncVars
  <2>1. (Done(f) \/ AheadOfMarker(q, f)) /\ f \in Events /\ f # None
    BY AuditAssumption DEF MarkerIsBehind, TypeOK
  <2>2. CASE q # p
    BY <1>1, <1>2, <1>5, <2>1, <2>2 DEF Done, AheadOfMarker, Positions
  <2>3. CASE q = p /\ ~ Done(f) /\ f # e
    <3>1. /\ Owner[f] = p /\ st[f] = "queued"
          /\ \E i, j \in Positions(p) : i < j /\ queue[p][i] = f /\ queue[p][j] = Marker
      BY <1>1, <2>1, <2>3 DEF AheadOfMarker
    <3>2. PICK i, j \in Positions(p) : i < j /\ queue[p][i] = f /\ queue[p][j] = Marker
      BY <3>1
    <3>3. i - 1 \in 1..Len(queue'[p]) /\ j - 1 \in 1..Len(queue'[p]) /\ i - 1 < j - 1
      BY <1>2, <2>3, <3>2 DEF Positions
    <3>4. queue'[p][i - 1] = f /\ queue'[p][j - 1] = Marker
      BY <1>2, <3>2, <3>3 DEF Positions
    <3> QED
      BY <1>1, <2>3, <3>1, <3>3, <3>4 DEF AheadOfMarker, Positions
  <2>4. CASE q = p /\ f = e
    BY <1>1, <1>3, <1>4, <2>4 DEF AheadOfMarker
  <2> QED
    BY <1>1, <2>2, <2>3, <2>4 DEF Done
<1> QED
  BY <1>1, <1>7, <1>8, <1>9, <1>10, <1>11, <1>12
  DEF FlushIsABarrier, UploadsRows, Rows, MarkedWasReceived, EndsAfterLogging, Of,
      CloseDrains, UnstampedIsNew, rowVars, syncVars

LEMMA InsertInv ==
    ASSUME Inv, NEW p \in Procs, Insert(p)
    PROVE  Inv'
<1> DEFINE e == writing[p]
<1> USE DEF Inv
<1>1. /\ e \in Events /\ Owner[e] = p /\ st[e] \in {"queued", "inline"}
      /\ writing' = [writing EXCEPT ![p] = None]
      /\ seen' = [seen EXCEPT ![p] = None]
      /\ UNCHANGED <<created, synced, received, life, queue, syncVars, kind, kills>>
  BY DEF Insert, WritesItsOwn
<1>2. PICK v \in {"written", "unwritable"} : st' = [st EXCEPT ![e] = v]
  BY DEF Insert
<1>3. st'[e] = v /\ \A f \in Events : f # e => st'[f] = st[f]
  BY <1>1, <1>2 DEF TypeOK
<1>4. /\ writing' \in [Procs -> Events \union {None}] /\ writing'[p] = None
      /\ \A q \in Procs : q # p => writing'[q] = writing[q] /\ writing[q] # e
  <2>1. \A q \in Procs : q # p => writing[q] # e
    BY <1>1, AuditAssumption DEF WritesItsOwn
  <2> QED
    BY <1>1, <2>1 DEF TypeOK
<1>5. \A q \in Procs : \A i \in Positions(q) : queue[q][i] # e
  <2> SUFFICES ASSUME NEW q \in Procs, NEW i \in Positions(q), queue[q][i] = e PROVE FALSE
    OBVIOUS
  <2>1. e # Marker
    BY <1>1, AuditAssumption
  <2>2. Owner[e] = q /\ writing[q] # e
    BY <2>1 DEF QueueHoldsQueued
  <2> QED
    BY <1>1, <2>2
<1>6. TypeOK'
  <2>1. link' \in [Events -> Events \union {Genesis, None}]
    BY <1>1 DEF Insert, TypeOK
  <2>2. st' \in [Events -> States]
    BY <1>1, <1>2 DEF TypeOK, States, Lost
  <2> QED
    BY <1>1, <1>4, <2>1, <2>2 DEF TypeOK, syncVars
<1>7. QueueHoldsQueued' /\ QueueHasNoDuplicates'
  <2>1. None \notin Events
    BY AuditAssumption
  <2> QED
    BY <1>1, <1>3, <1>4, <1>5, <2>1 DEF QueueHoldsQueued, QueueHasNoDuplicates, Positions, syncVars
<1>8. WritesItsOwn'
  BY <1>3, <1>4 DEF WritesItsOwn
<1>9. QueuedIsHeld'
  <2>1. \A f \in Events : Owner[f] \in Procs
    BY AuditAssumption
  <2> QED
    BY <1>1, <1>2, <1>3, <1>4, <2>1 DEF QueuedIsHeld, Positions
<1>10. MarkerIsBehind'
  <2> SUFFICES ASSUME NEW q \in Procs, sync[q] = "flush", NEW f \in before[q]
               PROVE  (Done(f) \/ AheadOfMarker(q, f))'
    BY <1>1 DEF MarkerIsBehind, syncVars
  <2>1. f \in Events /\ (Done(f) \/ AheadOfMarker(q, f))
    BY DEF MarkerIsBehind, TypeOK
  <2>2. CASE f = e
    BY <1>2, <1>3, <2>2 DEF Done
  <2>3. CASE f # e
    BY <1>1, <1>3, <1>4, <2>1, <2>3 DEF Done, AheadOfMarker, Positions
  <2> QED
    BY <2>2, <2>3
<1>11. FlushIsABarrier'
  <2> SUFFICES ASSUME NEW q \in Procs, sync[q] \in {"flushed", "read", "posted"},
                      NEW f \in before[q]
               PROVE  st'[f] \in {"written", "unwritable"}
    BY <1>1 DEF FlushIsABarrier, syncVars
  <2> QED
    BY <1>3 DEF FlushIsABarrier, TypeOK
<1>12. Rows \subseteq Rows'
  BY <1>1, <1>3 DEF Rows
<1>13. UploadsRows' /\ MarkedWasReceived'
  BY <1>1, <1>12 DEF UploadsRows, MarkedWasReceived, syncVars
<1>14. EndsAfterLogging' /\ CloseDrains' /\ UnstampedIsNew'
  BY <1>1, <1>2, <1>3 DEF EndsAfterLogging, CloseDrains, UnstampedIsNew, Of
<1> QED
  BY <1>6, <1>7, <1>8, <1>9, <1>10, <1>11, <1>13, <1>14

LEMMA FlushedInv ==
    ASSUME Inv, NEW p \in Procs, Flushed(p)
    PROVE  Inv'
<1> USE DEF Inv
<1>1. /\ queue[p] # <<>> /\ Head(queue[p]) = Marker
      /\ writing[p] # None => st[writing[p]] = "inline"
      /\ queue' = [queue EXCEPT ![p] = Tail(@)]
      /\ sync' = [sync EXCEPT ![p] = "flushed"]
      /\ UNCHANGED <<st, created, rowVars, life, writing, seen, batch, before, kind, kills>>
  BY DEF Flushed
<1>2. /\ queue' \in [Procs -> Seq(Entries)]
      /\ \A q \in Procs : q # p => queue'[q] = queue[q]
      /\ Len(queue[p]) \in Nat /\ Len(queue'[p]) = Len(queue[p]) - 1
      /\ queue[p][1] = Marker /\ 1 \in 1..Len(queue[p])
      /\ \A i \in 1..Len(queue'[p]) :
            queue'[p][i] = queue[p][i + 1] /\ i + 1 \in 1..Len(queue[p])
  BY <1>1, Take
<1>3. sync[p] = "flush"
  BY <1>2, AuditAssumption DEF QueueHoldsQueued, Positions
<1>4. sync'[p] = "flushed" /\ \A q \in Procs : q # p => sync'[q] = sync[q]
  BY <1>1 DEF TypeOK
<1>5. \A i \in Positions(p) : queue[p][i] = Marker => i = 1
  BY <1>2 DEF QueueHasNoDuplicates, Positions
<1>6. TypeOK'
  <2>1. \A q \in Procs : Len(queue'[q]) <= QueueCap
    <3>1. Len(queue[p]) <= QueueCap /\ QueueCap \in Nat
      BY AuditAssumption DEF TypeOK
    <3>2. Len(queue'[p]) <= QueueCap
      BY <1>2, <3>1
    <3> QED
      BY <1>2, <3>2 DEF TypeOK
  <2> QED
    BY <1>1, <1>2, <2>1 DEF TypeOK, Entries, rowVars
<1>7. QueueHoldsQueued'
  <2>1. ASSUME NEW i \in 1..Len(queue'[p])
        PROVE  /\ queue'[p][i] \in Events /\ st[queue'[p][i]] = "queued"
               /\ Owner[queue'[p][i]] = p /\ writing[p] # queue'[p][i]
    <3>1. queue'[p][i] = queue[p][i + 1] /\ i + 1 \in Positions(p) /\ i + 1 # 1
      BY <1>2 DEF Positions
    <3>2. queue[p][i + 1] # Marker
      BY <1>5, <3>1
    <3> QED
      BY <3>1, <3>2 DEF QueueHoldsQueued
  <2> QED
    BY <1>1, <1>2, <1>4, <2>1 DEF QueueHoldsQueued, Positions
<1>8. QueueHasNoDuplicates'
  <2> SUFFICES ASSUME NEW q \in Procs, NEW i \in Positions(q)', NEW j \in Positions(q)',
                      queue'[q][i] = queue'[q][j]
               PROVE  i = j
    BY DEF QueueHasNoDuplicates
  <2>1. CASE q = p
    <3>1. queue[p][i + 1] = queue[p][j + 1] /\ i + 1 \in Positions(p) /\ j + 1 \in Positions(p)
      BY <1>2, <2>1 DEF Positions
    <3>2. i + 1 = j + 1 /\ i \in Nat /\ j \in Nat
      BY <3>1 DEF QueueHasNoDuplicates, Positions
    <3> QED
      BY <3>2
  <2>2. CASE q # p
    BY <1>2, <2>2 DEF QueueHasNoDuplicates, Positions
  <2> QED
    BY <2>1, <2>2
<1>9. WritesItsOwn'
  BY <1>1 DEF WritesItsOwn
<1>10. QueuedIsHeld'
  <2> SUFFICES ASSUME NEW f \in Events, st[f] = "queued", writing[Owner[f]] # f
               PROVE  \E i \in Positions(Owner[f])' : queue'[Owner[f]][i] = f
    BY <1>1 DEF QueuedIsHeld
  <2>1. Owner[f] \in Procs /\ f # Marker
    BY AuditAssumption
  <2>2. PICK i \in Positions(Owner[f]) : queue[Owner[f]][i] = f
    BY DEF QueuedIsHeld
  <2>3. CASE Owner[f] # p
    BY <1>2, <2>1, <2>2, <2>3 DEF Positions
  <2>4. CASE Owner[f] = p
    <3>1. i - 1 \in 1..Len(queue'[p])
      BY <1>2, <2>1, <2>2, <2>4 DEF Positions
    <3>2. queue'[p][i - 1] = f
      BY <1>2, <2>2, <2>4, <3>1 DEF Positions
    <3> QED
      BY <2>4, <3>1, <3>2 DEF Positions
  <2> QED
    BY <2>3, <2>4
<1>11. MarkerIsBehind'
  <2> SUFFICES ASSUME NEW q \in Procs, sync'[q] = "flush", NEW f \in before[q]
               PROVE  (Done(f) \/ AheadOfMarker(q, f))'
    BY <1>1 DEF MarkerIsBehind
  <2>1. q # p
    BY <1>4
  <2> QED
    BY <1>1, <1>2, <1>4, <2>1 DEF MarkerIsBehind, Done, AheadOfMarker, Positions
<1>12. FlushIsABarrier'
  <2>1. \A f \in before[p] : Done(f)
    <3> SUFFICES ASSUME NEW f \in before[p], AheadOfMarker(p, f) PROVE FALSE
      BY <1>3 DEF MarkerIsBehind
    <3>1. f # None
      BY AuditAssumption DEF TypeOK
    <3>2. writing[p] # f
      BY <1>1, <3>1 DEF AheadOfMarker
    <3>3. PICK i, j \in Positions(p) : i < j /\ queue[p][j] = Marker
      BY <3>2 DEF AheadOfMarker
    <3>4. j = 1
      BY <1>5, <3>3
    <3> QED
      BY <3>3, <3>4 DEF Positions
  <2> QED
    BY <1>1, <1>4, <2>1 DEF FlushIsABarrier, Done
<1>13. UploadsRows' /\ MarkedWasReceived'
  BY <1>1, <1>4 DEF UploadsRows, MarkedWasReceived, Rows, rowVars
<1> QED
  BY <1>1, <1>6, <1>7, <1>8, <1>9, <1>10, <1>11, <1>12, <1>13
  DEF EndsAfterLogging, Of, CloseDrains, UnstampedIsNew, rowVars

LEMMA StartSyncInv ==
    ASSUME Inv, NEW p \in Procs, StartSync(p)
    PROVE  Inv'
<1> USE DEF Inv
<1>1. /\ sync[p] = "idle" /\ Len(queue[p]) < QueueCap
      /\ sync' = [sync EXCEPT ![p] = "flush"]
      /\ queue' = [queue EXCEPT ![p] = Append(@, Marker)]
      /\ before' = [before EXCEPT ![p] = Queued(p)]
      /\ UNCHANGED <<st, created, rowVars, writing, seen, batch, kind, kills>>
  BY DEF StartSync
<1>2. /\ queue' \in [Procs -> Seq(Entries)]
      /\ \A q \in Procs : q # p => queue'[q] = queue[q]
      /\ Len(queue[p]) \in Nat /\ Len(queue'[p]) = Len(queue[p]) + 1
      /\ \A i \in 1..Len(queue[p]) : queue'[p][i] = queue[p][i]
      /\ queue'[p][Len(queue[p]) + 1] = Marker
  BY <1>1, Send DEF Entries
<1>3. /\ sync'[p] = "flush" /\ before'[p] = Queued(p)
      /\ \A q \in Procs : q # p => sync'[q] = sync[q] /\ before'[q] = before[q]
  BY <1>1 DEF TypeOK
<1>4. \A i \in Positions(p) : queue[p][i] # Marker
  BY <1>1, AuditAssumption DEF QueueHoldsQueued
<1>5. life' \in [Procs -> {"running", "finishing", "closing", "gone"}]
  BY DEF StartSync, TypeOK
<1>6. TypeOK'
  <2>1. \A q \in Procs : Len(queue'[q]) <= QueueCap
    <3>1. QueueCap \in Nat /\ Len(queue[p]) + 1 <= QueueCap
      BY <1>1, <1>2, AuditAssumption
    <3> QED
      BY <1>2, <3>1 DEF TypeOK
  <2>2. before' \in [Procs -> SUBSET Events]
    BY <1>1 DEF TypeOK, Queued, Of
  <2> QED
    BY <1>1, <1>2, <1>5, <2>1, <2>2 DEF TypeOK, Entries, rowVars
<1>7. QueueHoldsQueued'
  BY <1>1, <1>2, <1>3 DEF QueueHoldsQueued, Positions
<1>8. QueueHasNoDuplicates'
  BY <1>2, <1>4 DEF QueueHasNoDuplicates, Positions
<1>9. WritesItsOwn'
  BY <1>1 DEF WritesItsOwn
<1>10. QueuedIsHeld'
  <2> SUFFICES ASSUME NEW f \in Events, st[f] = "queued", writing[Owner[f]] # f
               PROVE  \E i \in Positions(Owner[f])' : queue'[Owner[f]][i] = f
    BY <1>1 DEF QueuedIsHeld
  <2>1. Owner[f] \in Procs
    BY AuditAssumption
  <2>2. PICK i \in Positions(Owner[f]) : queue[Owner[f]][i] = f
    BY DEF QueuedIsHeld
  <2>3. i \in Positions(Owner[f])' /\ queue'[Owner[f]][i] = f
    <3>1. CASE Owner[f] = p
      BY <1>2, <2>2, <3>1 DEF Positions
    <3>2. CASE Owner[f] # p
      BY <1>2, <2>1, <2>2, <3>2 DEF Positions
    <3> QED
      BY <3>1, <3>2
  <2> QED
    BY <2>3
<1>11. MarkerIsBehind'
  <2> SUFFICES ASSUME NEW q \in Procs, sync'[q] = "flush", NEW f \in before'[q]
               PROVE  (Done(f) \/ AheadOfMarker(q, f))'
    BY DEF MarkerIsBehind
  <2>1. CASE q # p
    <3>1. (Done(f) \/ AheadOfMarker(q, f)) /\ queue'[q] = queue[q]
      BY <1>2, <1>3, <2>1 DEF MarkerIsBehind
    <3> QED
      BY <1>1, <3>1 DEF Done, AheadOfMarker, Positions
  <2>2. CASE q = p
    <3>1. f \in Events /\ Owner[f] = p /\ st[f] = "queued"
      BY <1>3, <2>2 DEF Queued, Of
    <3>2. CASE writing[p] = f
      BY <1>1, <2>2, <3>1, <3>2 DEF AheadOfMarker
    <3>3. CASE writing[p] # f
      <4>1. PICK i \in Positions(p) : queue[p][i] = f
        BY <3>1, <3>3 DEF QueuedIsHeld
      <4> DEFINE j == Len(queue[p]) + 1
      <4>2. i \in 1..Len(queue'[p]) /\ j \in 1..Len(queue'[p]) /\ i < j
        BY <1>2, <4>1 DEF Positions
      <4>3. queue'[p][i] = f /\ queue'[p][j] = Marker
        BY <1>2, <4>1 DEF Positions
      <4> QED
        BY <1>1, <2>2, <3>1, <4>2, <4>3 DEF AheadOfMarker, Positions
    <3> QED
      BY <3>2, <3>3
  <2> QED
    BY <2>1, <2>2
<1>12. FlushIsABarrier' /\ UploadsRows' /\ MarkedWasReceived'
  BY <1>1, <1>3 DEF FlushIsABarrier, UploadsRows, MarkedWasReceived, Rows, rowVars
<1>13. EndsAfterLogging'
  <2> SUFFICES ASSUME NEW q \in Procs, kind[q] = "command",
                      life'[q] \in {"finishing", "closing"}, NEW e \in Of(q)
               PROVE  st[e] \notin {"new", "stamped", "inline"}
    BY <1>1 DEF EndsAfterLogging, Of
  <2>1. CASE q = p
    BY <2>1 DEF StartSync, MayEnd
  <2>2. CASE q # p
    <3>1. life'[q] = life[q]
      BY <2>2 DEF StartSync, TypeOK
    <3> QED
      BY <3>1 DEF EndsAfterLogging
  <2> QED
    BY <2>1, <2>2
<1> QED
  BY <1>1, <1>6, <1>7, <1>8, <1>9, <1>10, <1>11, <1>12, <1>13
  DEF CloseDrains, UnstampedIsNew, rowVars

\* Close leaves nothing behind: what a closing command has queued is written first.
LEMMA ClosedIsDrained ==
    ASSUME Inv, NEW p \in Procs, Closed(p), kind[p] = "command", NEW e \in Of(p)
    PROVE  st[e] \notin {"queued", "inline"}
<1>1. e \in Events /\ Owner[e] = p /\ e # None
  BY AuditAssumption DEF Of
<1>2. life[p] = "closing" /\ queue[p] = <<>> /\ writing[p] = None
  BY DEF Closed
<1>3. st[e] # "inline"
  BY <1>2 DEF Inv, EndsAfterLogging
<1>4. Positions(p) = {}
  BY <1>2 DEF Positions
<1>5. st[e] # "queued"
  BY <1>1, <1>2, <1>4 DEF Inv, QueuedIsHeld
<1> QED
  BY <1>3, <1>5

LEMMA NextInv == Inv /\ [Next]_vars => Inv'
<1> SUFFICES ASSUME Inv, [Next]_vars PROVE Inv'
  OBVIOUS
<1>1. ASSUME NEW e \in Events, Enqueue(e) \/ WriteInline(e) PROVE Inv'
  BY <1>1, EnqueueInv, WriteInlineInv
<1>2. ASSUME NEW p \in Procs, WriteNext(p) \/ Insert(p) \/ Flushed(p) \/ StartSync(p)
      PROVE  Inv'
  BY <1>2, WriteNextInv, InsertInv, FlushedInv, StartSyncInv
<1> USE AuditAssumption
<1> USE DEF Inv, TypeOK, States, Lost, Of, Rows, Positions, QueueHoldsQueued,
            QueueHasNoDuplicates, WritesItsOwn, QueuedIsHeld, Done, AheadOfMarker,
            MarkerIsBehind, FlushIsABarrier, UploadsRows, MarkedWasReceived,
            EndsAfterLogging, CloseDrains, UnstampedIsNew, rowVars, writeVars, syncVars
<1>3. ASSUME NEW e \in Events, Stamp(e) PROVE Inv'
  <2>1. 1 + Cardinality({f \in Events : created[f] > 0}) \in 0..Cardinality(Events)
    BY <1>3, NextTime DEF Stamp
  <2>2. TypeOK'
    BY <1>3, <2>1 DEF Stamp
  <2>3. QueueHoldsQueued' /\ QueueHasNoDuplicates' /\ WritesItsOwn' /\ QueuedIsHeld'
    BY <1>3 DEF Stamp
  <2>4. MarkerIsBehind'
    BY <1>3 DEF Stamp
  <2>5. FlushIsABarrier' /\ UploadsRows' /\ MarkedWasReceived'
    BY <1>3 DEF Stamp
  <2>6. EndsAfterLogging' /\ CloseDrains' /\ UnstampedIsNew'
    BY <1>3 DEF Stamp
  <2> QED
    BY <2>2, <2>3, <2>4, <2>5, <2>6
<1>4. ASSUME NEW p \in Procs, Read(p) PROVE Inv'
  <2>1. TypeOK' /\ WritesItsOwn' /\ QueuedIsHeld'
    BY <1>4 DEF Read, MutexFree
  <2>2. QueueHoldsQueued' /\ QueueHasNoDuplicates'
    BY <1>4 DEF Read, MutexFree
  <2>3. MarkerIsBehind' /\ FlushIsABarrier' /\ UploadsRows' /\ MarkedWasReceived'
    BY <1>4 DEF Read, MutexFree
  <2>4. EndsAfterLogging' /\ CloseDrains' /\ UnstampedIsNew'
    BY <1>4 DEF Read, MutexFree
  <2> QED
    BY <2>1, <2>2, <2>3, <2>4 DEF Inv
<1>5. ASSUME NEW p \in Procs, NothingToPost(p) PROVE Inv'
  <2>1. TypeOK' /\ WritesItsOwn' /\ QueuedIsHeld'
    BY <1>5 DEF NothingToPost, EndSync
  <2>2. QueueHoldsQueued' /\ QueueHasNoDuplicates'
    BY <1>5 DEF NothingToPost, EndSync
  <2>3. MarkerIsBehind' /\ FlushIsABarrier' /\ UploadsRows' /\ MarkedWasReceived'
    BY <1>5 DEF NothingToPost, EndSync
  <2>4. EndsAfterLogging' /\ CloseDrains' /\ UnstampedIsNew'
    BY <1>5 DEF NothingToPost, EndSync
  <2> QED
    BY <2>1, <2>2, <2>3, <2>4 DEF Inv
<1>6. ASSUME NEW p \in Procs, PostAccepted(p) PROVE Inv'
  <2>1. TypeOK' /\ WritesItsOwn' /\ QueuedIsHeld'
    BY <1>6 DEF PostAccepted
  <2>2. QueueHoldsQueued' /\ QueueHasNoDuplicates'
    BY <1>6 DEF PostAccepted
  <2>3. MarkerIsBehind' /\ FlushIsABarrier' /\ UploadsRows' /\ MarkedWasReceived'
    BY <1>6 DEF PostAccepted
  <2>4. EndsAfterLogging' /\ CloseDrains' /\ UnstampedIsNew'
    BY <1>6 DEF PostAccepted
  <2> QED
    BY <2>1, <2>2, <2>3, <2>4 DEF Inv
<1>7. ASSUME NEW p \in Procs, PostFails(p) PROVE Inv'
  <2>1. TypeOK' /\ WritesItsOwn' /\ QueuedIsHeld'
    BY <1>7 DEF PostFails, EndSync
  <2>2. QueueHoldsQueued' /\ QueueHasNoDuplicates'
    BY <1>7 DEF PostFails, EndSync
  <2>3. MarkerIsBehind' /\ FlushIsABarrier' /\ UploadsRows' /\ MarkedWasReceived'
    BY <1>7 DEF PostFails, EndSync
  <2>4. EndsAfterLogging' /\ CloseDrains' /\ UnstampedIsNew'
    BY <1>7 DEF PostFails, EndSync
  <2> QED
    BY <2>1, <2>2, <2>3, <2>4 DEF Inv
<1>8. ASSUME NEW p \in Procs, Mark(p) PROVE Inv'
  <2>1. TypeOK' /\ WritesItsOwn' /\ QueuedIsHeld'
    BY <1>8 DEF Mark, EndSync
  <2>2. QueueHoldsQueued' /\ QueueHasNoDuplicates'
    BY <1>8 DEF Mark, EndSync
  <2>3. MarkerIsBehind' /\ FlushIsABarrier' /\ UploadsRows' /\ MarkedWasReceived'
    BY <1>8 DEF Mark, EndSync
  <2>4. EndsAfterLogging' /\ CloseDrains' /\ UnstampedIsNew'
    BY <1>8 DEF Mark, EndSync
  <2> QED
    BY <2>1, <2>2, <2>3, <2>4 DEF Inv
<1>9. ASSUME NEW p \in Procs, MarkFails(p) PROVE Inv'
  <2>1. TypeOK' /\ WritesItsOwn' /\ QueuedIsHeld'
    BY <1>9 DEF MarkFails, EndSync
  <2>2. QueueHoldsQueued' /\ QueueHasNoDuplicates'
    BY <1>9 DEF MarkFails, EndSync
  <2>3. MarkerIsBehind' /\ FlushIsABarrier' /\ UploadsRows' /\ MarkedWasReceived'
    BY <1>9 DEF MarkFails, EndSync
  <2>4. EndsAfterLogging' /\ CloseDrains' /\ UnstampedIsNew'
    BY <1>9 DEF MarkFails, EndSync
  <2> QED
    BY <2>1, <2>2, <2>3, <2>4 DEF Inv
<1>10. ASSUME NEW p \in Procs, SkipSync(p) PROVE Inv'
  <2>1. TypeOK' /\ WritesItsOwn' /\ QueuedIsHeld'
    BY <1>10 DEF SkipSync, MayEnd
  <2>2. QueueHoldsQueued' /\ QueueHasNoDuplicates'
    BY <1>10 DEF SkipSync, MayEnd
  <2>3. MarkerIsBehind' /\ FlushIsABarrier' /\ UploadsRows' /\ MarkedWasReceived'
    BY <1>10 DEF SkipSync, MayEnd
  <2>4. EndsAfterLogging' /\ CloseDrains' /\ UnstampedIsNew'
    BY <1>10 DEF SkipSync, MayEnd
  <2> QED
    BY <2>1, <2>2, <2>3, <2>4 DEF Inv
<1>11. ASSUME NEW p \in Procs, Close(p) PROVE Inv'
  <2>1. TypeOK' /\ WritesItsOwn' /\ QueuedIsHeld'
    BY <1>11 DEF Close
  <2>2. QueueHoldsQueued' /\ QueueHasNoDuplicates'
    BY <1>11 DEF Close
  <2>3. MarkerIsBehind' /\ FlushIsABarrier' /\ UploadsRows' /\ MarkedWasReceived'
    BY <1>11 DEF Close
  <2>4. EndsAfterLogging' /\ CloseDrains' /\ UnstampedIsNew'
    BY <1>11 DEF Close
  <2> QED
    BY <2>1, <2>2, <2>3, <2>4 DEF Inv
<1>12. ASSUME NEW p \in Procs, Leave(p) PROVE Inv'
  <2>1. TypeOK' /\ WritesItsOwn' /\ QueuedIsHeld'
    BY <1>12 DEF Leave, Discard
  <2>2. QueueHoldsQueued' /\ QueueHasNoDuplicates'
    BY <1>12 DEF Leave, Discard
  <2>3. MarkerIsBehind' /\ FlushIsABarrier' /\ UploadsRows' /\ MarkedWasReceived'
    BY <1>12 DEF Leave, Discard
  <2>4. EndsAfterLogging' /\ CloseDrains' /\ UnstampedIsNew'
    BY <1>12 DEF Leave, Discard
  <2> QED
    BY <2>1, <2>2, <2>3, <2>4 DEF Inv
<1>13. ASSUME NEW p \in Procs, Kill(p) PROVE Inv'
  <2>1. TypeOK' /\ WritesItsOwn' /\ QueuedIsHeld'
    BY <1>13 DEF Kill, Discard
  <2>2. QueueHoldsQueued' /\ QueueHasNoDuplicates'
    BY <1>13 DEF Kill, Discard
  <2>3. MarkerIsBehind' /\ FlushIsABarrier' /\ UploadsRows' /\ MarkedWasReceived'
    BY <1>13 DEF Kill, Discard
  <2>4. EndsAfterLogging' /\ CloseDrains' /\ UnstampedIsNew'
    BY <1>13 DEF Kill, Discard
  <2> QED
    BY <2>1, <2>2, <2>3, <2>4 DEF Inv
<1>14. ASSUME NEW p \in Procs, Closed(p) PROVE Inv'
  <2>1. TypeOK' /\ WritesItsOwn' /\ QueuedIsHeld'
    BY <1>14 DEF Closed, Discard
  <2>2. QueueHoldsQueued' /\ QueueHasNoDuplicates'
    BY <1>14 DEF Closed, Discard
  <2>3. MarkerIsBehind' /\ FlushIsABarrier' /\ UploadsRows' /\ MarkedWasReceived'
    BY <1>14 DEF Closed, Discard
  <2>4. EndsAfterLogging' /\ UnstampedIsNew'
    BY <1>14 DEF Closed, Discard
  <2>5. CloseDrains'
    <3> SUFFICES ASSUME NEW e \in Events, kind[Owner[e]] = "command", st[e] # "dropped"
                 PROVE  st'[e] # "dropped"
      BY <1>14 DEF Closed
    <3>1. CASE Owner[e] = p
      <4>1. st[e] \notin {"queued", "inline"}
        BY <1>14, <3>1, ClosedIsDrained
      <4> QED
        BY <1>14, <3>1, <4>1 DEF Closed, Discard
    <3>2. CASE Owner[e] # p
      BY <1>14, <3>2 DEF Closed, Discard
    <3> QED
      BY <3>1, <3>2
  <2> QED
    BY <2>1, <2>2, <2>3, <2>4, <2>5
<1>15. CASE UNCHANGED vars
  <2>1. TypeOK' /\ WritesItsOwn' /\ QueuedIsHeld'
    BY <1>15 DEF vars
  <2>2. QueueHoldsQueued' /\ QueueHasNoDuplicates'
    BY <1>15 DEF vars
  <2>3. MarkerIsBehind' /\ FlushIsABarrier' /\ UploadsRows' /\ MarkedWasReceived'
    BY <1>15 DEF vars
  <2>4. EndsAfterLogging' /\ CloseDrains' /\ UnstampedIsNew'
    BY <1>15 DEF vars
  <2> QED
    BY <2>1, <2>2, <2>3, <2>4 DEF Inv
<1> QED
  BY <1>1, <1>2, <1>3, <1>4, <1>5, <1>6, <1>7, <1>8, <1>9, <1>10, <1>11, <1>12, <1>13,
     <1>14, <1>15
  DEF Next, Writer, Uploader, End

LEMMA AlwaysInv == Spec => []Inv
<1> QED
  BY InitInv, NextInv, PTL DEF Spec

-----------------------------------------------------------------------------

\* Every variable keeps its range and every queue its capacity.
THEOREM TypeCorrect == Spec => []TypeOK
<1>1. Inv => TypeOK
  BY DEF Inv
<1> QED
  BY <1>1, AlwaysInv, PTL

\* Flush is a barrier: an upload reads after every write queued before it, however
\* many callers write inline meanwhile.
THEOREM FlushWorks == Spec => []FlushIsABarrier
<1>1. Inv => FlushIsABarrier
  BY DEF Inv
<1> QED
  BY <1>1, AlwaysInv, PTL

\* No row is marked as synced that the backend does not have, whatever processes
\* are killed and answers lost: no row is ever skipped.
THEOREM NothingSkipped == Spec => []MarkedWasReceived
<1>1. Inv => MarkedWasReceived
  BY DEF Inv
<1> QED
  BY <1>1, AlwaysInv, PTL

\* A command that closes its logger has written its event.
THEOREM CommandsKeepTheirEvents == Spec => []CloseDrains
<1>1. Inv => CloseDrains
  BY DEF Inv
<1> QED
  BY <1>1, AlwaysInv, PTL
=============================================================================
