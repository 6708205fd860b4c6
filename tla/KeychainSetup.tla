--------------------------- MODULE KeychainSetup ----------------------------
(***************************************************************************)
(* Installing, upgrading, registering with and starting the keychain-auth  *)
(* daemon on Linux (pkg/keychainauth/setup.go, recovery.go, daemoninfo.go, *)
(* doctor.go) and the ladder every command climbs before it runs           *)
(* (commands/root.go, env.go, exec.go).  Several agentsecrets processes do *)
(* this at once on one host and share its files; a privileged or network   *)
(* step may fail each time, a process may be killed between two steps.     *)
(*                                                                         *)
(* Each process works through a list of steps.  A step may put others      *)
(* before the rest; a step that fails drops what follows, up to the next   *)
(* point where the code ignores or handles the error ("or").               *)
(*                                                                         *)
(* Homebrew, the other search paths, `systemctl --user`, macOS, Windows    *)
(* and file permissions are left out.                                      *)
(***************************************************************************)
EXTENDS Naturals, Sequences, FiniteSetsExt

CONSTANTS
    Processes,
    Kinds,           \* what they run: among "command", "machine" (env, exec), "doctor"
    Installations,   \* the hosts looked at: [disk, unit, up], see Init
    Down,
    MaxRuns,         \* bound: commands started
    MaxFaults        \* bound: kills, daemon deaths and upgrades of agentsecrets

Places == <<"system", "home">>   \* /usr/local/bin, ~/.agentsecrets/bin: search order
PlaceNames == {"system", "home"}
Modes == {"system", "user"}
Runnable == {"old", "new"}       \* "new": at least RequiredDaemonVersion
Builds == Runnable \union {"none", "broken"}
Daemons == [code : Runnable, at : PlaceNames, grants : BOOLEAN, socket : BOOLEAN]
Steps == {"avail", "again", "fresh", "update", "binary", "init", "verify", "record",
          "machine", "diagnose", "reach", "unlink", "install", "download", "unpack",
          "promote", "copy", "copied", "swap", "settle", "sandbox", "register",
          "authorize", "restart", "probe", "running", "start", "close", "or", "exit"}

\* At first a daemon runs the file it was started from, systemd's the system's.
ASSUME SetupAssumption ==
    /\ Kinds \subseteq {"command", "machine", "doctor"}
    /\ Installations \subseteq [disk : [PlaceNames -> Builds], unit : BOOLEAN,
                                up : [Modes -> Daemons \union {Down}]]
    /\ \A h \in Installations, m \in Modes : h.up[m] # Down =>
          /\ h.up[m].code = h.disk[h.up[m].at]
          /\ m = "system" => h.up[m].at = "system"
    /\ MaxRuns \in Nat /\ MaxFaults \in Nat

VARIABLES
    disk,        \* the keychain-auth binaries
    tmp,         \* /usr/local/bin/keychain-auth.new
    unit,        \* the system installation: its config and systemd unit
    release,     \* the newest published release
    daemon,      \* the daemon of each mode: the code it runs, the path it was
                 \* started from, whether its policy grants this agentsecrets binary
                 \* and whether its socket file is there
    trust,       \* each mode's trust store knows this binary and its hash
    marker,      \* ~/.agentsecrets/keychain-verified names this binary
    todo,        \* per process: the steps before it
    kc,          \* the binary EnsureInstalled has returned
    out,         \* the file its `sudo cp` is writing
    changed,     \* binaryChanged
    tried,       \* recovery kinds of the current attempt
    spent,       \* repairAttempted, repairInProgress or DisableAutoRepair
    accepted,    \* history: a daemon has accepted this build of agentsecrets
    ranNew,      \* history: modes whose daemon has run the required version
    served,      \* history: processes whose update found the system installation
    runs, faults

files == <<disk, tmp, unit, release>>
host == <<daemon, trust, marker>>
locals == <<kc, out, changed, tried, spent>>
history == <<accepted, ranNew, served>>
counters == <<runs, faults>>
vars == <<files, host, todo, locals, history, counters>>

TypeOK ==
    /\ disk \in [PlaceNames -> Builds] /\ tmp \in Builds
    /\ unit \in BOOLEAN /\ release \in Runnable
    /\ daemon \in [Modes -> Daemons \union {Down}]
    /\ trust \in [Modes -> BOOLEAN] /\ marker \in BOOLEAN
    /\ accepted \in BOOLEAN /\ ranNew \subseteq Modes /\ served \subseteq Processes
    /\ todo \in [Processes -> Seq(Steps)]
    /\ kc \in [Processes -> PlaceNames]
    /\ out \in [Processes -> {"nothing", "tmp", "system"}]
    /\ changed \in [Processes -> BOOLEAN] /\ spent \in [Processes -> BOOLEAN]
    /\ tried \in [Processes -> SUBSET {"daemon", "protocol", "register"}]
    /\ runs \in 0 .. MaxRuns /\ faults \in 0 .. MaxFaults

RunNew(d) == {m \in Modes : d[m] # Down /\ d[m].code = "new"}

\* agentsecrets itself is new on the host or was just upgraded.
Init ==
    /\ \E h \in Installations :
          disk = h.disk /\ unit = h.unit /\ daemon = h.up
    /\ tmp = "none" /\ release \in Runnable
    /\ trust = [m \in Modes |-> FALSE] /\ marker = FALSE /\ accepted = FALSE
    /\ ranNew = RunNew(daemon) /\ served = {}
    /\ todo = [p \in Processes |-> <<>>]
    /\ kc = [p \in Processes |-> "system"]
    /\ out = [p \in Processes |-> "nothing"]
    /\ changed = [p \in Processes |-> FALSE]
    /\ tried = [p \in Processes |-> {}]
    /\ spent = [p \in Processes |-> FALSE]
    /\ runs = 0 /\ faults = 0

-----------------------------------------------------------------------------
(* Steps.                                                                  *)

At(p, s) == todo[p] # <<>> /\ Head(todo[p]) = s

From(s, I) == IF I = {} THEN <<>> ELSE SubSeq(s, Min(I), Len(s))
PastOr(s) == From(s, {i \in DOMAIN s : s[i] # "or"})
UpToOr(s) == From(s, {i \in DOMAIN s : s[i] = "or"})

\* This step is done; the given ones come next.
Then(p, steps) == todo' = [todo EXCEPT ![p] = PastOr(steps \o Tail(todo[p]))]
Done(p) == Then(p, <<>>)

\* An error return, up to the next place that handles it.
Fails(p) == todo' = [todo EXCEPT ![p] = PastOr(UpToOr(@))]

AutoSetup == <<"install", "sandbox", "register", "running">>
RegisterAndActivate == <<"install", "promote", "register">>

\* Mutant: the system binary is not replaced before the restart.
EnsureDaemonUpToDateInPlace == <<"install", "restart", "close">>

EnsureDaemonUpToDate == <<"install", "promote", "restart", "close">>
PromoteBinaryTo == <<"copy", "copied", "swap">>
Authorization == <<"authorize", "restart", "probe">>

-----------------------------------------------------------------------------
(* What the probes see.                                                    *)

Existing == {i \in DOMAIN Places : disk[Places[i]] # "none"}
Sufficient == {i \in DOMAIN Places : disk[Places[i]] = "new"}
First(I) == Places[Min(I)]

\* findBestDaemon, for a host that has a binary.
FindBestDaemon == First(IF Sufficient # {} THEN Sufficient ELSE Existing)

Running == {daemon[m] : m \in Modes} \ {Down}
Reachable(m) == daemon[m] # Down /\ daemon[m].socket
IsAvailable == \E m \in Modes : Reachable(m)

\* The daemon a client connects to: SocketPath prefers the system's.
Serving == IF Reachable("system") THEN daemon["system"] ELSE daemon["user"]
Granted == IsAvailable /\ Serving.grants

\* DaemonUpdateNeeded: the installed binary, and the file at the path from which
\* the daemon process r was started.
DaemonUpdateNeeded(r) ==
    \/ Existing = {} \/ disk[FindBestDaemon] # "new"
    \/ r # Down /\ r.at # FindBestDaemon /\ disk[r.at] = "old"

\* No marker for this binary.
BinaryVerificationNeeded == ~marker

\* The process that a scan of /proc comes upon first.
Scanned == IF Running = {} THEN {Down} ELSE Running

StoreMode == IF unit THEN "system" ELSE "user"

\* This binary's path and hash are in the store the daemon would load.
Registered == trust[StoreMode]

Started(place, mode) ==
    [code |-> disk[place], at |-> place, grants |-> trust[mode], socket |-> TRUE]

-----------------------------------------------------------------------------
(* The start of a run, and its end.                                        *)

Program(kind) ==
    CASE kind = "command" -> <<"avail", "fresh", "init", "binary">>
      [] kind = "machine" -> <<"machine">>
      [] kind = "doctor" -> <<"diagnose">>

Begin(p, kind) ==
    /\ todo[p] = <<>> /\ runs < MaxRuns /\ runs' = runs + 1
    /\ todo' = [todo EXCEPT ![p] = Program(kind) \o <<"or", "exit">>]
    /\ spent' = [spent EXCEPT ![p] = (kind = "machine")]
    /\ UNCHANGED <<files, host, kc, out, changed, tried, history, faults>>

Reset(p) ==
    /\ todo' = [todo EXCEPT ![p] = <<>>]
    /\ kc' = [kc EXCEPT ![p] = "system"] /\ out' = [out EXCEPT ![p] = "nothing"]
    /\ changed' = [changed EXCEPT ![p] = FALSE] /\ tried' = [tried EXCEPT ![p] = {}]
    /\ spent' = [spent EXCEPT ![p] = FALSE] /\ served' = served \ {p}

Exit(p) ==
    /\ At(p, "exit") /\ Reset(p)
    /\ UNCHANGED <<files, host, accepted, ranNew, counters>>

\* ensureDaemonInitialized, step 2.
Avail(p) ==
    /\ At(p, "avail")
    /\ IF IsAvailable THEN Done(p)
                      ELSE Then(p, <<"unlink", "install", "running", "or", "again">>)
    /\ UNCHANGED <<files, host, locals, history, counters>>

Again(p) ==
    /\ At(p, "again") \/ At(p, "machine")
    /\ IF IsAvailable THEN Done(p) ELSE Then(p, <<"unlink">> \o AutoSetup)
    /\ UNCHANGED <<files, host, locals, history, counters>>

\* Step 3.  A prompt for the password lies between the two looks at the version.
Fresh(p) ==
    /\ At(p, "fresh")
    /\ changed' = [changed EXCEPT ![p] = BinaryVerificationNeeded]
    /\ \E r \in Scanned : IF DaemonUpdateNeeded(r) THEN Then(p, <<"update">>) ELSE Done(p)
    /\ UNCHANGED <<files, host, kc, out, tried, spent, history, counters>>

Update(p) ==
    /\ At(p, "update")
    /\ \E r \in Scanned :
          IF DaemonUpdateNeeded(r) THEN Then(p, EnsureDaemonUpToDate) ELSE Done(p)
    /\ served' = IF unit THEN served \union {p} ELSE served \ {p}
    /\ UNCHANGED <<files, host, locals, accepted, ranNew, counters>>

\* Step 5, only for a binary without a marker.
Binary(p) ==
    /\ At(p, "binary")
    /\ tried' = [tried EXCEPT ![p] = {}]
    /\ IF changed[p] THEN Then(p, <<"verify", "record">>) ELSE Done(p)
    /\ UNCHANGED <<files, host, kc, out, changed, spent, history, counters>>

Recovery(kind) ==
    CASE kind = "daemon" -> <<"unlink">> \o AutoSetup
      [] kind = "protocol" -> <<"restart">>
      [] kind = "register" -> RegisterAndActivate

\* Mutant: the kinds that were tried are not remembered.
RecoverForever(p, kind, attempt) ==
    Then(p, Recovery(kind) \o attempt) /\ UNCHANGED tried

\* recoverableAttempt and recoverDaemonState: each kind once.
Recover(p, kind, attempt) ==
    IF kind \in tried[p]
      THEN Fails(p) /\ UNCHANGED tried
      ELSE /\ tried' = [tried EXCEPT ![p] = @ \union {kind}]
           /\ Then(p, Recovery(kind) \o attempt)

Connect(p) ==
    /\ At(p, "init")
    /\ IF IsAvailable THEN Done(p) /\ UNCHANGED tried
                      ELSE Recover(p, "daemon", <<"init">>)
    /\ UNCHANGED <<files, host, kc, out, changed, spent, history, counters>>

\* A denial to sendRequest, whose repair runs once per process.  Where it fails the
\* code goes by the denial it has; here it asks again.
RepairAnd(p, step) ==
    /\ IsAvailable /\ ~Serving.grants /\ ~spent[p]
    /\ spent' = [spent EXCEPT ![p] = TRUE]
    /\ Then(p, RegisterAndActivate \o <<"or", step>>)

\* Mutant: a run that finds no daemon counts as verified.
VerifyUnreachable(p) ==
    /\ At(p, "verify")
    /\ \/ RepairAnd(p, "verify") /\ UNCHANGED <<tried, accepted>>
       \/ Granted /\ accepted' = TRUE /\ Done(p) /\ UNCHANGED <<tried, spent>>
       \/ /\ ~IsAvailable /\ Done(p) /\ UNCHANGED <<tried, spent, accepted>>
       \/ /\ IsAvailable /\ ~Serving.grants /\ spent[p]
          /\ Recover(p, "register", <<"init", "verify">>) /\ UNCHANGED <<spent, accepted>>
    /\ UNCHANGED <<files, host, kc, out, changed, ranNew, served, counters>>

\* Verify.  An old daemon may answer in a protocol of its own.
Verify(p) ==
    /\ At(p, "verify")
    /\ \/ RepairAnd(p, "verify") /\ UNCHANGED <<tried, accepted>>
       \/ Granted /\ accepted' = TRUE /\ Done(p) /\ UNCHANGED <<tried, spent>>
       \/ /\ \/ ~IsAvailable /\ Recover(p, "daemon", <<"init", "verify">>)
             \/ /\ IsAvailable /\ Serving.code = "old"
                /\ Recover(p, "protocol", <<"init", "verify">>)
             \/ /\ IsAvailable /\ ~Serving.grants /\ spent[p]
                /\ Recover(p, "register", <<"init", "verify">>)
          /\ UNCHANGED <<spent, accepted>>
    /\ UNCHANGED <<files, host, kc, out, changed, ranNew, served, counters>>

Record(p) ==
    /\ At(p, "record")
    /\ marker' = TRUE /\ Done(p)
    /\ UNCHANGED <<files, daemon, trust, locals, history, counters>>

-----------------------------------------------------------------------------
(* doctor: the repairs of what it finds broken, in the order of its checks, *)
(* each error ignored.                                                     *)

\* checkRegistrationInvariants, of the binary b that would be asked.
Unregistered(b) == b = "broken" \/ ~Registered

Repairs(r) ==
    LET If(finding, repair) == IF finding THEN repair \o <<"or">> ELSE <<>>
        best == disk[FindBestDaemon]
    IN  IF Existing = {} THEN <<"install", "or">>
        ELSE If(best = "broken", <<"install">>)
             \o If(best = "old", <<"update">>)
             \o If(best = "broken", <<"update">>)
             \o If(~IsAvailable, AutoSetup)
             \o If(IsAvailable /\ r # Down /\ disk[r.at] = "old", <<"update">>)
             \o If(Unregistered(best), RegisterAndActivate)
             \o If(IsAvailable /\ ~Serving.grants, RegisterAndActivate)

Diagnose(p) ==
    /\ At(p, "diagnose")
    /\ \E r \in Scanned :
          Then(p, (IF IsAvailable \/ Existing = {} THEN <<>> ELSE <<"unlink">>)
                  \o Repairs(r) \o <<"reach">>)
    /\ UNCHANGED <<files, host, locals, history, counters>>

\* The diagnosis that proves the result changes nothing but dead sockets.
Reach(p) ==
    /\ At(p, "reach")
    /\ IF IsAvailable THEN Done(p) ELSE Then(p, <<"unlink">>)
    /\ UNCHANGED <<files, host, locals, history, counters>>

-----------------------------------------------------------------------------
(* Sockets and binaries.                                                   *)

\* The user's socket file is removed after no daemon answered: a daemon that has
\* started since runs on without one.  The system's is not the user's to remove.
Unlink(p) ==
    /\ At(p, "unlink")
    /\ daemon' = IF daemon["user"] = Down THEN daemon
                 ELSE [daemon EXCEPT !["user"].socket = FALSE]
    /\ Done(p)
    /\ UNCHANGED <<files, trust, marker, locals, history, counters>>

\* Mutant: whatever binary exists will do.
InstallAny(p) ==
    /\ At(p, "install")
    /\ IF Existing # {}
         THEN kc' = [kc EXCEPT ![p] = First(Existing)] /\ Done(p)
         ELSE Then(p, <<"download">>) /\ UNCHANGED kc
    /\ UNCHANGED <<files, host, out, changed, tried, spent, history, counters>>

\* EnsureInstalled.
Install(p) ==
    /\ At(p, "install")
    /\ IF Sufficient # {}
         THEN kc' = [kc EXCEPT ![p] = First(Sufficient)] /\ Done(p)
         ELSE Then(p, <<"download">>) /\ UNCHANGED kc
    /\ UNCHANGED <<files, host, out, changed, tried, spent, history, counters>>

\* fetchReleaseBinary truncates the file in place, which the kernel refuses while
\* a daemon runs from it.
Download(p) ==
    /\ At(p, "download")
    /\ \/ Fails(p) /\ UNCHANGED disk
       \/ /\ \A r \in Running : r.at # "home"
          /\ disk' = [disk EXCEPT !["home"] = "broken"] /\ Then(p, <<"unpack">>)
    /\ UNCHANGED <<tmp, unit, release, host, locals, history, counters>>

\* A release that is new enough also replaces the system's copy, if it can.
Unpack(p) ==
    /\ At(p, "unpack")
    /\ \/ Fails(p) /\ UNCHANGED <<disk, kc>>
       \/ /\ disk' = [disk EXCEPT !["home"] = release]
          /\ kc' = [kc EXCEPT ![p] = "home"]
          /\ IF release = "new" /\ disk["system"] # "none"
               THEN Then(p, PromoteBinaryTo \o <<"settle", "or">>) ELSE Done(p)
    /\ UNCHANGED <<tmp, unit, release, host, out, changed, tried, spent, history, counters>>

Settle(p) ==
    /\ At(p, "settle")
    /\ kc' = IF disk["system"] = "new" THEN [kc EXCEPT ![p] = "system"] ELSE kc
    /\ Done(p)
    /\ UNCHANGED <<files, host, out, changed, tried, spent, history, counters>>

\* ensureSystemDaemonBinary.
Promote(p) ==
    /\ At(p, "promote")
    /\ IF unit /\ kc[p] # "system" THEN Then(p, PromoteBinaryTo) ELSE Done(p)
    /\ UNCHANGED <<files, host, locals, history, counters>>

\* promoteBinaryTo: `sudo cp` opens the one temporary file of the host ...
Copy(p) ==
    /\ At(p, "copy")
    /\ \/ Fails(p) /\ UNCHANGED <<tmp, out>>
       \/ /\ disk[kc[p]] # "none"
          /\ tmp' = "broken" /\ out' = [out EXCEPT ![p] = "tmp"] /\ Done(p)
    /\ UNCHANGED <<disk, unit, release, host, kc, changed, tried, spent, history, counters>>

\* ... and fills it, wherever it has been moved meanwhile ...
Copied(p) ==
    /\ At(p, "copied")
    /\ out' = [out EXCEPT ![p] = "nothing"]
    /\ \/ Fails(p) /\ UNCHANGED <<disk, tmp>>
       \/ /\ Done(p)
          /\ tmp' = IF out[p] = "tmp" THEN disk[kc[p]] ELSE tmp
          /\ disk' = IF out[p] = "system" THEN [disk EXCEPT !["system"] = disk[kc[p]]]
                     ELSE disk
    /\ UNCHANGED <<unit, release, host, kc, changed, tried, spent, history, counters>>

\* ... and `sudo mv` puts it in place.
Swap(p) ==
    /\ At(p, "swap")
    /\ \/ Fails(p) /\ UNCHANGED <<disk, tmp, out>>
       \/ /\ tmp # "none"
          /\ disk' = [disk EXCEPT !["system"] = tmp] /\ tmp' = "none"
          /\ out' = [q \in Processes |-> IF out[q] = "tmp" THEN "system" ELSE "nothing"]
          /\ Done(p)
    /\ UNCHANGED <<unit, release, host, kc, changed, tried, spent, history, counters>>

-----------------------------------------------------------------------------
(* Registration and the daemon's life.                                     *)

\* ensureSandboxInstalled: the daemon's own installer, which may put itself in place.
Sandbox(p) ==
    /\ At(p, "sandbox")
    /\ IF unit THEN Done(p) /\ UNCHANGED <<disk, unit, trust>>
       ELSE \/ Fails(p) /\ UNCHANGED <<disk, unit, trust>>
            \/ /\ disk[kc[p]] \in Runnable
               /\ unit' = TRUE /\ trust' = [trust EXCEPT !["system"] = FALSE]
               /\ disk' \in {disk, [disk EXCEPT !["system"] = disk[kc[p]]]}
               /\ Done(p)
    /\ UNCHANGED <<tmp, release, daemon, marker, locals, history, counters>>

\* EnsureRegistered, as far as IsFullyConfigured.
Register(p) ==
    /\ At(p, "register")
    /\ \/ RepairAnd(p, "register")
       \/ Granted /\ Done(p) /\ UNCHANGED spent
       \/ /\ IsAvailable => ~Serving.grants /\ spent[p]
          /\ Then(p, Authorization) /\ UNCHANGED spent
    /\ UNCHANGED <<files, host, kc, out, changed, tried, history, counters>>

Authorize(p) ==
    /\ At(p, "authorize")
    /\ \/ Fails(p) /\ UNCHANGED trust
       \/ /\ disk[kc[p]] \in Runnable
          /\ trust' = [trust EXCEPT ![StoreMode] = TRUE] /\ Done(p)
    /\ UNCHANGED <<files, daemon, marker, locals, history, counters>>

\* Mutant: whatever the unit points at runs.
SystemdStartsAny(p) ==
    daemon' = [daemon EXCEPT !["system"] = Started("system", "system")] /\ Done(p)

\* systemctl restart, of what the unit points at.
SystemdRestarts(p) ==
    IF disk["system"] \in Runnable
      THEN daemon' = [daemon EXCEPT !["system"] = Started("system", "system")] /\ Done(p)
      ELSE daemon' = [daemon EXCEPT !["system"] = Down] /\ Fails(p)

\* RestartDaemon: systemd's, or every process of that name.
Restart(p) ==
    /\ At(p, "restart")
    /\ IF unit THEN \/ Fails(p) /\ UNCHANGED daemon
                    \/ SystemdRestarts(p)
       ELSE daemon' = [m \in Modes |-> Down] /\ Then(p, <<"install", "start">>)
    /\ ranNew' = ranNew \union RunNew(daemon')
    /\ UNCHANGED <<files, trust, marker, locals, accepted, served, counters>>

\* The policy in memory is what is asked, not the store.
Probe(p) ==
    /\ At(p, "probe")
    /\ IF Granted THEN Done(p) ELSE Fails(p)
    /\ UNCHANGED <<files, host, locals, history, counters>>

EnsureDaemonRunning(p) ==
    /\ At(p, "running")
    /\ IF IsAvailable THEN Done(p) ELSE Then(p, <<"unlink", "start">>)
    /\ UNCHANGED <<files, host, locals, history, counters>>

\* startDaemonLinux: systemd where there is a unit, else or failing that startDirect.
Start(p) ==
    /\ At(p, "start")
    /\ \/ /\ unit /\ disk["system"] \in Runnable /\ SystemdRestarts(p)
       \/ unit /\ Reachable("system") /\ Done(p) /\ UNCHANGED daemon
       \/ /\ ~unit \/ ~Reachable("system")
          /\ disk[kc[p]] \in Runnable
          /\ daemon' = [daemon EXCEPT !["user"] = Started(kc[p], "user")] /\ Done(p)
       \/ ~Reachable("system") /\ Fails(p) /\ UNCHANGED daemon
    /\ ranNew' = ranNew \union RunNew(daemon')
    /\ UNCHANGED <<files, trust, marker, locals, accepted, served, counters>>

\* EnsureDaemonUpToDate closes its connection and returns.
Close(p) ==
    /\ At(p, "close") /\ Done(p) /\ served' = served \ {p}
    /\ UNCHANGED <<files, host, locals, accepted, ranNew, counters>>

-----------------------------------------------------------------------------
(* Faults.                                                                 *)

Fault == faults < MaxFaults /\ faults' = faults + 1 /\ UNCHANGED runs

DaemonDies(m) ==
    /\ daemon[m] # Down /\ daemon' = [daemon EXCEPT ![m] = Down]
    /\ Fault
    /\ UNCHANGED <<files, trust, marker, todo, locals, history>>

\* What it was writing stays as it is.
Kill(p) ==
    /\ todo[p] # <<>> /\ Reset(p)
    /\ Fault
    /\ UNCHANGED <<files, host, accepted, ranNew>>

\* A new build of agentsecrets, with a hash nobody knows, between two commands.
Upgrade ==
    /\ \A p \in Processes : todo[p] = <<>>
    /\ trust' = [m \in Modes |-> FALSE] /\ marker' = FALSE /\ accepted' = FALSE
    /\ daemon' = [m \in Modes |-> IF daemon[m] = Down THEN Down
                                  ELSE [daemon[m] EXCEPT !.grants = FALSE]]
    /\ Fault
    /\ UNCHANGED <<files, todo, locals, ranNew, served>>

Step(p) ==
    \/ Avail(p) \/ Again(p) \/ Fresh(p) \/ Update(p) \/ Binary(p) \/ Connect(p)
    \/ Verify(p) \/ Record(p) \/ Diagnose(p) \/ Reach(p) \/ Unlink(p)
    \/ Install(p) \/ Download(p) \/ Unpack(p) \/ Settle(p) \/ Promote(p)
    \/ Copy(p) \/ Copied(p) \/ Swap(p) \/ Sandbox(p) \/ Register(p) \/ Authorize(p)
    \/ Restart(p) \/ Probe(p) \/ EnsureDaemonRunning(p) \/ Start(p) \/ Close(p)
    \/ Exit(p)

Next ==
    \/ \E p \in Processes :
         \/ Step(p) \/ Kill(p)
         \/ \E kind \in Kinds : Begin(p, kind)
    \/ \E m \in Modes : DaemonDies(m)
    \/ Upgrade

Spec == Init /\ [][Next]_vars

\* A process goes on, and every command it runs has a timeout.
FairSpec == Spec /\ \A p \in Processes : WF_vars(Step(p))

-----------------------------------------------------------------------------
(* Properties.                                                             *)

\* root.go:376-391, 467-481: the marker, for whose sake later commands ask nothing,
\* is written only for a build that a daemon has accepted, whatever recovery and
\* other processes did in between.
MarkerWasGranted == marker => accepted

\* setup.go:278-316: a daemon that has run the required version is never followed by
\* an older one, with downloads that fail, older releases, several processes at work,
\* and other binaries left on the host.
NeverDowngraded == \A m \in ranNew : daemon[m] # Down => daemon[m].code = "new"

\* setup.go:210-236: when EnsureDaemonUpToDate returns on a host that had a system
\* service when it began, that service runs the required version, if it has been
\* published.  (A service another process installs meanwhile may run an old one.)
UpdateTakesEffect ==
    \A p \in Processes :
        At(p, "close") /\ p \in served /\ release = "new"
            => daemon["system"] = Down \/ daemon["system"].code = "new"

\* root.go:394-415, recovery.go:81-108: every run ends: repairs nest inside requests of
\* repairs, but each kind is tried once per attempt and the request-time repair once
\* per process.
EveryRunEnds == \A p \in Processes : todo[p] # <<>> ~> todo[p] = <<>>
=============================================================================
