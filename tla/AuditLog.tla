------------------------------ MODULE AuditLog ------------------------------
(***************************************************************************)
(* The audit log (pkg/proxy/audit.go) and the processes that share its     *)
(* database: proxy daemons, transient proxies (client.go) and commands     *)
(* that log one event (LogManagementEvent, `env`).  Each process has a     *)
(* logger of its own, with a bounded queue, one writer goroutine, a mutex  *)
(* and an upload of the rows that are not yet synced.                      *)
(*                                                                         *)
(* An event is a forensic record, the only kind that is chained; rows of   *)
(* audit_events take the same way.  SELECT and INSERT are two statements,  *)
(* and a process may be killed between any two steps.                      *)
(***************************************************************************)
EXTENDS Integers, Sequences, FiniteSets

CONSTANTS
    Procs,       \* processes
    Kinds,       \* what each process may be: daemon, transient or command
    Events,      \* the events that are ever logged
    Owner,       \* Owner[e]: the process that logs e
    Genesis,     \* what the first row is chained to
    None,        \* no event
    Marker,      \* the entry Flush puts into the queue
    QueueCap,    \* auditWriteBuffer (256 in the code)
    Batch,       \* rows of one upload (100 in the code)
    MaxKills     \* bound on killed processes

ASSUME AuditAssumption ==
    /\ Kinds \subseteq [Procs -> {"daemon", "transient", "command"}]
    /\ Owner \in [Events -> Procs]
    /\ IsFiniteSet(Events)
    /\ Genesis \notin Events /\ None \notin Events /\ Marker \notin Events
    /\ QueueCap \in Nat \ {0} /\ Batch \in Nat \ {0} /\ MaxKills \in Nat

VARIABLES
    kind,        \* kind[p]: what process p is
    st,          \* st[e]: how far event e has come
    created,     \* created[e]: its created_at, 0 before it is stamped
    link,        \* link[e]: the row its chain hash was computed from
    synced,      \* rows marked as synced
    received,    \* events the backend has accepted
    life,        \* life[p]: running, finishing, closing, gone
    queue,       \* queue[p]: the write channel
    writing,     \* writing[p]: the event being written under the mutex
    seen,        \* seen[p]: the row that write has found to be the last
    sync,        \* sync[p]: where SyncUnpushedLogs is
    batch,       \* batch[p]: the rows it has read
    before,      \* before[p]: the events its Flush has to wait for
    kills

rowVars  == <<link, synced, received>>
writeVars == <<queue, writing, seen>>
syncVars == <<sync, batch, before>>
vars == <<kind, st, created, rowVars, life, writeVars, syncVars, kills>>

\* Not logged: its process ended while the call that logs it was under way.
\* Lost with a killed process, for an error of the INSERT (which is ignored),
\* or because its process ended without waiting for its writer.
Lost == {"unlogged", "killed", "unwritable", "dropped"}

States == {"new", "stamped", "queued", "inline", "written"} \union Lost

Of(p) == {e \in Events : Owner[e] = p}
Rows  == {e \in Events : st[e] = "written"}

Latest(es) ==
    IF es = {} THEN Genesis
    ELSE CHOOSE e \in es : \A f \in es : created[f] <= created[e]

Init ==
    /\ kind \in Kinds
    /\ st = [e \in Events |-> "new"]
    /\ created = [e \in Events |-> 0]
    /\ link = [e \in Events |-> None]
    /\ synced = {} /\ received = {}
    /\ life = [p \in Procs |-> "running"]
    /\ queue = [p \in Procs |-> <<>>]
    /\ writing = [p \in Procs |-> None]
    /\ seen = [p \in Procs |-> None]
    /\ sync = [p \in Procs |-> "idle"]
    /\ batch = [p \in Procs |-> {}]
    /\ before = [p \in Procs |-> {}]
    /\ kills = 0

-----------------------------------------------------------------------------
(* LogForensic, on the caller's goroutine.                                 *)

Stamp(e) ==
    /\ st[e] = "new" /\ life[Owner[e]] \in {"running", "finishing"}
    /\ st' = [st EXCEPT ![e] = "stamped"]
    /\ created' = [created EXCEPT ![e] =
                      1 + Cardinality({f \in Events : created[f] > 0})]
    /\ UNCHANGED <<rowVars, life, writeVars, syncVars, kind, kills>>

\* Mutant: the capacity of the channel is not looked at.
EnqueueAlways(e) ==
    /\ st[e] = "stamped" /\ life[Owner[e]] \in {"running", "finishing"}
    /\ queue' = [queue EXCEPT ![Owner[e]] = Append(@, e)]
    /\ st' = [st EXCEPT ![e] = "queued"]
    /\ UNCHANGED <<created, rowVars, life, writing, seen, syncVars, kind, kills>>

\* A full queue makes the caller write by itself.
Enqueue(e) ==
    LET p == Owner[e]
    IN  /\ st[e] = "stamped" /\ life[p] \in {"running", "finishing"}
        /\ IF Len(queue[p]) < QueueCap
             THEN /\ queue' = [queue EXCEPT ![p] = Append(@, e)]
                  /\ st' = [st EXCEPT ![e] = "queued"]
             ELSE st' = [st EXCEPT ![e] = "inline"] /\ UNCHANGED queue
        /\ UNCHANGED <<created, rowVars, life, writing, seen, syncVars, kind, kills>>

-----------------------------------------------------------------------------
(* A write: by the writer goroutine, or inline.  The mutex is held from    *)
(* the SELECT to the INSERT, and by an upload from its read to its end.    *)

MutexFree(p) == writing[p] = None /\ sync[p] \notin {"read", "posted"}

Select(p, e) ==
    /\ MutexFree(p)
    /\ writing' = [writing EXCEPT ![p] = e]
    /\ seen' = [seen EXCEPT ![p] = Latest(Rows)]

\* (The goroutine takes the entry off the channel and then waits for the
\* mutex; the two are one step here.)
WriteNext(p) ==
    /\ queue[p] # <<>> /\ Head(queue[p]) # Marker
    /\ Select(p, Head(queue[p]))
    /\ queue' = [queue EXCEPT ![p] = Tail(@)]
    /\ UNCHANGED <<st, created, rowVars, life, syncVars, kind, kills>>

WriteInline(e) ==
    /\ st[e] = "inline" /\ writing[Owner[e]] # e
    /\ Select(Owner[e], e)
    /\ UNCHANGED <<st, created, rowVars, life, queue, syncVars, kind, kills>>

Insert(p) ==
    LET e == writing[p]
    IN  /\ e # None
        /\ \/ /\ st' = [st EXCEPT ![e] = "written"]
              /\ link' = [link EXCEPT ![e] = seen[p]]
           \/ st' = [st EXCEPT ![e] = "unwritable"] /\ UNCHANGED link
        /\ writing' = [writing EXCEPT ![p] = None]
        /\ seen' = [seen EXCEPT ![p] = None]
        /\ UNCHANGED <<created, synced, received, life, queue, syncVars, kind, kills>>

-----------------------------------------------------------------------------
(* SyncUnpushedLogs: every minute in a daemon; in the others once before   *)
(* the end, which a command reaches after its event is logged.             *)

MayEnd(p) ==
    /\ kind[p] # "daemon" /\ life[p] = "running"
    /\ kind[p] = "command" =>
          \A e \in Of(p) : st[e] \notin {"new", "stamped", "inline"}

Queued(p) == {e \in Of(p) : st[e] = "queued"}

\* Flush waits for room in the queue, and then for its marker.
StartSync(p) ==
    /\ sync[p] = "idle" /\ Len(queue[p]) < QueueCap
    /\ IF kind[p] = "daemon" THEN UNCHANGED life
       ELSE MayEnd(p) /\ life' = [life EXCEPT ![p] = "finishing"]
    /\ sync' = [sync EXCEPT ![p] = "flush"]
    /\ queue' = [queue EXCEPT ![p] = Append(@, Marker)]
    /\ before' = [before EXCEPT ![p] = Queued(p)]
    /\ UNCHANGED <<st, created, rowVars, writing, seen, batch, kind, kills>>

\* Mutant: the marker is seen while the write before it is under way.
FlushedTooEarly(p) ==
    /\ queue[p] # <<>> /\ Head(queue[p]) = Marker
    /\ queue' = [queue EXCEPT ![p] = Tail(@)]
    /\ sync' = [sync EXCEPT ![p] = "flushed"]
    /\ UNCHANGED <<st, created, rowVars, life, writing, seen, batch, before, kind, kills>>

\* The writer goroutine has come to the marker.
Flushed(p) ==
    /\ queue[p] # <<>> /\ Head(queue[p]) = Marker
    /\ writing[p] # None => st[writing[p]] = "inline"
    /\ queue' = [queue EXCEPT ![p] = Tail(@)]
    /\ sync' = [sync EXCEPT ![p] = "flushed"]
    /\ UNCHANGED <<st, created, rowVars, life, writing, seen, batch, before, kind, kills>>

EndSync(p) ==
    /\ sync' = [sync EXCEPT ![p] = "idle"]
    /\ batch' = [batch EXCEPT ![p] = {}]
    /\ before' = [before EXCEPT ![p] = {}]
    /\ UNCHANGED <<st, created, link, life, writeVars, kind, kills>>

Read(p) ==
    /\ sync[p] = "flushed" /\ MutexFree(p)
    /\ \E es \in SUBSET (Rows \ synced) :
          /\ Cardinality(es) = Batch \/ (es = Rows \ synced /\ Cardinality(es) < Batch)
          /\ batch' = [batch EXCEPT ![p] = es]
    /\ sync' = [sync EXCEPT ![p] = "read"]
    /\ UNCHANGED <<st, created, rowVars, life, writeVars, before, kind, kills>>

NothingToPost(p) ==
    /\ sync[p] = "read" /\ batch[p] = {}
    /\ EndSync(p) /\ UNCHANGED <<synced, received>>

PostAccepted(p) ==
    /\ sync[p] = "read" /\ batch[p] # {}
    /\ sync' = [sync EXCEPT ![p] = "posted"]
    /\ received' = received \union batch[p]
    /\ UNCHANGED <<st, created, link, synced, life, writeVars, batch, before, kind, kills>>

\* Mutant: the rows of a POST that failed are marked, too.
PostFailsAndMarks(p) ==
    /\ sync[p] = "read" /\ batch[p] # {}
    /\ synced' = synced \union batch[p]
    /\ EndSync(p) /\ UNCHANGED received

\* The backend may have accepted the rows of a POST whose answer is lost.
PostFails(p) ==
    /\ sync[p] = "read" /\ batch[p] # {}
    /\ received' \in {received, received \union batch[p]}
    /\ EndSync(p) /\ UNCHANGED synced

\* Mutant: every row is marked, not only those that were posted.
MarkAll(p) ==
    /\ sync[p] = "posted"
    /\ synced' = Rows
    /\ EndSync(p) /\ UNCHANGED received

Mark(p) ==
    /\ sync[p] = "posted"
    /\ synced' = synced \union batch[p]
    /\ EndSync(p) /\ UNCHANGED received

\* The UPDATE fails (another process has locked the database).
MarkFails(p) ==
    /\ sync[p] = "posted"
    /\ EndSync(p) /\ UNCHANGED <<synced, received>>

-----------------------------------------------------------------------------
(* The end of a process.                                                   *)

\* What a process that is no more had in memory; its events end as `how` says.
Discard(p, how) ==
    /\ st' = [e \in Events |->
                 IF e \notin Of(p) THEN st[e]
                 ELSE IF st[e] = "stamped" THEN "unlogged"
                 ELSE IF st[e] \in {"queued", "inline"} THEN how ELSE st[e]]
    /\ queue' = [queue EXCEPT ![p] = <<>>]
    /\ writing' = [writing EXCEPT ![p] = None]
    /\ seen' = [seen EXCEPT ![p] = None]
    /\ sync' = [sync EXCEPT ![p] = "idle"]
    /\ batch' = [batch EXCEPT ![p] = {}]
    /\ before' = [before EXCEPT ![p] = {}]
    /\ UNCHANGED <<created, rowVars>>

\* Without a session, or a client, there is no last upload, and no Flush.
SkipSync(p) ==
    /\ MayEnd(p)
    /\ life' = [life EXCEPT ![p] = "finishing"]
    /\ UNCHANGED <<st, created, rowVars, writeVars, syncVars, kind, kills>>

\* closeFunc of a transient proxy shuts the server down and returns.
Leave(p) ==
    /\ kind[p] = "transient" /\ life[p] = "finishing" /\ sync[p] = "idle"
    /\ life' = [life EXCEPT ![p] = "gone"]
    /\ Discard(p, "dropped")
    /\ UNCHANGED <<kind, kills>>

\* A command logs its event, uploads, and closes its logger.
Close(p) ==
    /\ kind[p] = "command" /\ life[p] = "finishing" /\ sync[p] = "idle"
    /\ life' = [life EXCEPT ![p] = "closing"]
    /\ UNCHANGED <<st, created, rowVars, writeVars, syncVars, kind, kills>>

\* Mutant: Close does not drain the queue.
ClosedAtOnce(p) ==
    /\ life[p] = "closing" /\ writing[p] = None
    /\ life' = [life EXCEPT ![p] = "gone"]
    /\ Discard(p, "dropped")
    /\ UNCHANGED <<kind, kills>>

\* Close waits for the writer, which drains the queue.
Closed(p) ==
    /\ life[p] = "closing" /\ queue[p] = <<>> /\ writing[p] = None
    /\ life' = [life EXCEPT ![p] = "gone"]
    /\ Discard(p, "dropped")
    /\ UNCHANGED <<kind, kills>>

\* A killed daemon is started again.
Kill(p) ==
    /\ kills < MaxKills /\ life[p] # "gone"
    /\ kills' = kills + 1
    /\ life' = [life EXCEPT ![p] = IF kind[p] = "daemon" THEN "running" ELSE "gone"]
    /\ Discard(p, "killed")
    /\ UNCHANGED kind

-----------------------------------------------------------------------------

Writer(p) == WriteNext(p) \/ Insert(p) \/ Flushed(p)

Uploader(p) ==
    \/ StartSync(p) \/ Read(p) \/ NothingToPost(p)
    \/ PostAccepted(p) \/ PostFails(p) \/ Mark(p) \/ MarkFails(p)

End(p) == SkipSync(p) \/ Leave(p) \/ Close(p) \/ Closed(p) \/ Kill(p)

Next ==
    \/ \E e \in Events : Stamp(e) \/ Enqueue(e) \/ WriteInline(e)
    \/ \E p \in Procs : Writer(p) \/ Uploader(p) \/ End(p)

Spec == Init /\ [][Next]_vars

\* A daemon's two goroutines go on as long as they can, and a POST, or an
\* UPDATE, that is tried again and again succeeds at last.  Nothing is assumed
\* of the other processes.
Fairness ==
    \A p \in Procs :
        /\ WF_vars(kind[p] = "daemon" /\ Writer(p))
        /\ WF_vars(kind[p] = "daemon" /\ Uploader(p))
        /\ SF_vars(kind[p] = "daemon" /\ PostAccepted(p))
        /\ SF_vars(kind[p] = "daemon" /\ Mark(p))

FairSpec == Spec /\ Fairness

-----------------------------------------------------------------------------
(* Properties.                                                             *)

TypeOK ==
    /\ kind \in Kinds
    /\ st \in [Events -> States]
    /\ created \in [Events -> 0..Cardinality(Events)]
    /\ link \in [Events -> Events \union {Genesis, None}]
    /\ synced \subseteq Events /\ received \subseteq Events
    /\ life \in [Procs -> {"running", "finishing", "closing", "gone"}]
    /\ queue \in [Procs -> Seq(Events \union {Marker})]
    /\ \A p \in Procs : Len(queue[p]) <= QueueCap
    /\ writing \in [Procs -> Events \union {None}]
    /\ seen \in [Procs -> Events \union {Genesis, None}]
    /\ sync \in [Procs -> {"idle", "flush", "flushed", "read", "posted"}]
    /\ batch \in [Procs -> SUBSET Events]
    /\ before \in [Procs -> SUBSET Events]
    /\ kills \in 0..MaxKills

\* "SyncUnpushedLogs() flushes before reading so it always sees a consistent
\* view": when an upload reads, the writes that were queued before it are done.
FlushIsABarrier ==
    \A p \in Procs : sync[p] \in {"flushed", "read", "posted"} =>
        \A e \in before[p] : st[e] \in {"written", "unwritable"}

\* A row is marked only after the backend has it, whatever is killed, fails or
\* is inserted by another process during the upload: no row is skipped.
MarkedWasReceived == synced \subseteq received /\ received \subseteq Rows

\* A command never ends with its event still on its way: Close drains.
CloseDrains ==
    \A e \in Events : kind[Owner[e]] = "command" => st[e] # "dropped"

\* Every row reaches the backend at last, also one written by a process that is
\* gone, whose answer was lost, or whose upload was killed before it was marked.
RowsAreUploaded ==
    \A e \in Events : st[e] = "written" ~> e \in received

\* Claimed at audit.go:582-584: the chain, read in the order of created_at as
\* VerifyChain does, is intact.  Two goroutines may log in the order opposite
\* to their stamps.
ChainIntact ==
    \A e \in Rows : link[e] = Latest({f \in Rows : created[f] < created[e]})
=============================================================================
