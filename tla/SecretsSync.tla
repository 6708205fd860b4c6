---------------------------- MODULE SecretsSync -----------------------------
(***************************************************************************)
(* The secrets of one project in the places that hold them: the cloud,     *)
(* the keychain, the .env files, the cached copy of the cloud and          *)
(* .env.example (pkg/secrets, commands/secrets.go and environment.go, the  *)
(* secret tools of pkg/mcp).  Command-line processes and MCP servers, a    *)
(* teammate and the user with an editor change them at the same time; a    *)
(* request or a write may fail and a process may be killed.                *)
(*                                                                         *)
(* A process works through the plan of its command, a step at a time; a    *)
(* file that is read, changed and written back takes two steps.  A secret  *)
(* stands for its plaintext, its ciphertext and its policy.  The           *)
(* allowlist and the agent capabilities a pull refreshes as well share no  *)
(* state with the secrets and are left out, as are password prompts.       *)
(***************************************************************************)
EXTENDS Naturals, Sequences

CONSTANTS
    Processes,
    Servers,         \* those that are MCP servers; the others run CLI commands
    Environments,    \* ValidEnvironments, in their order
    Keys,
    Values,
    None,
    Clouds,          \* what the cloud may hold at first
    Batches,         \* what `set` may be given
    Edits,           \* what a teammate or an editor may change, <<env, key, new>>
    MaxCommands,     \* bound: commands started
    MaxEvents        \* bound: failures, kills, edits and other people's changes

Envs == {Environments[i] : i \in DOMAIN Environments}
Content == [Keys -> Values \union {None}]

ASSUME SyncAssumption ==
    /\ Environments \in Seq(Envs) /\ Environments # <<>>
    /\ Servers \subseteq Processes /\ None \notin Keys \union Values
    /\ Clouds \subseteq [Envs -> Content] /\ Batches \subseteq Content
    /\ Edits \subseteq Envs \X Keys \X (Values \union {None})
    /\ MaxCommands \in Nat /\ MaxEvents \in Nat

Empty == [k \in Keys |-> None]
Has(f) == {k \in Keys : f[k] # None}
Only(f, S) == [k \in Keys |-> IF k \in S THEN f[k] ELSE None]
Merge(f, g) == [k \in Keys |-> IF g[k] # None THEN g[k] ELSE f[k]]

VARIABLES
    cloud, keychain,
    dotenv,      \* the .env file of each environment
    cache,       \* cloud_cache_<project>_<env>.json, None if there is none
    example,     \* .env.example: which keys exist in which environments
    active,      \* the environment in project.json
    keychainOnly,\* storage mode 1: no .env files
    view, file,  \* per process: the environment in its copy of project.json and the
                 \* environment whose .env file its service was made for
    run,         \* per process: the command it runs
    accepted,    \* history: what the cloud has ever accepted, <<env, key, value>>
    typed,       \* history: what the user has typed into .env files
    commands, events

places == <<cloud, keychain, dotenv, cache, example>>
history == <<accepted, typed>>
counters == <<commands, events>>
vars == <<places, active, keychainOnly, view, file, run, history, counters>>

\* Mutant: the .env file and the cache before secrets.create
SetPlanEarly == <<"keychain", "env", "envw", "cache", "cachew", "upload", "example">>
SetPlan == <<"keychain", "upload", "env", "envw", "cache", "cachew", "example">>
PullPlan == <<"list", "store", "load", "keychain", "env", "envw", "save", "example">>
PushPlan == <<"read", "keychain", "upload", "save", "example", "refresh", "store">>
\* Mutant: no removal from the .env file
DeletePlanKeepsFile == <<"drop", "forget", "cache", "cachew", "example">>
DeletePlan == <<"drop", "env", "envw", "forget", "cache", "cachew", "example">>
DiffPlan == <<"compare", "list", "store", "choose">>

Idle == [op |-> "idle", plan |-> <<>>, env |-> None, envs |-> <<>>, keys |-> {},
         kv |-> Empty, key |-> None, buf |-> Empty, start |-> Empty, only |-> Keys,
         choice |-> "all", where |-> {}, gone |-> {}, alone |-> TRUE, missed |-> FALSE]

Ops == {"idle", "set", "pull", "push", "delete", "clean", "list", "status", "diff"}
Triples == Envs \X Keys \X Values

TypeOK ==
    /\ cloud \in [Envs -> Content] /\ keychain \in [Envs -> Content]
    /\ dotenv \in [Envs -> Content] /\ cache \in [Envs -> Content \union {None}]
    /\ example \subseteq Envs \X Keys /\ active \in Envs /\ keychainOnly \in BOOLEAN
    /\ view \in [Processes -> Envs] /\ file \in [Processes -> Envs]
    /\ accepted \subseteq Triples /\ typed \subseteq Triples
    /\ commands \in 0 .. MaxCommands /\ events \in 0 .. MaxEvents
    /\ \A p \in Processes :
          /\ DOMAIN run[p] = DOMAIN Idle
          /\ run[p].op \in Ops /\ run[p].env \in Envs \union {None}
          /\ {run[p].kv, run[p].buf, run[p].start} \subseteq Content
          /\ run[p].key \in Keys \union {None}
          /\ run[p].keys \union run[p].only \union run[p].gone \subseteq Keys
          /\ run[p].where \subseteq Envs

\* A project just set up on this machine, in the default environment, "development".
Init ==
    /\ cloud \in Clouds /\ keychain = [e \in Envs |-> Empty]
    /\ dotenv = keychain /\ cache = [e \in Envs |-> None] /\ example = {}
    /\ active = Environments[1] /\ keychainOnly \in BOOLEAN
    /\ view = [p \in Processes |-> active] /\ file = view
    /\ run = [p \in Processes |-> Idle]
    /\ accepted = {t \in Triples : cloud[t[1]][t[2]] = t[3]} /\ typed = {}
    /\ commands = 0 /\ events = 0

-----------------------------------------------------------------------------
Fault == events < MaxEvents /\ events' = events + 1
NoFault == UNCHANGED events

At(p, step) == run[p].plan # <<>> /\ Head(run[p].plan) = step
After(r) == [r EXCEPT !.plan = Tail(@)]
Missed(r) == [r EXCEPT !.missed = TRUE]

\* `set --all-envs` and `clean` go on with the next environment or key; everything
\* else stops at its first error.
Abort(r) ==
    [r EXCEPT !.plan = <<>>, !.missed = TRUE, !.keys = IF r.op = "clean" THEN @ ELSE {},
              !.envs = IF r.op = "diff" THEN <<>> ELSE @]

\* The others no longer run alone.
Disturbed(q) == IF run[q] = Idle THEN Idle ELSE [run[q] EXCEPT !.alone = FALSE]
Go(p, r) == run' = [q \in Processes |-> IF q = p THEN r ELSE Disturbed(q)]

Local(p) == IF keychainOnly THEN keychain[view[p]] ELSE dotenv[file[p]]

\* EnvManager.updateFile or removeFromFile, updateCacheAfterSet or -Delete: the new
\* content of what was read before.
Updated(r) ==
    IF r.key = None THEN Merge(r.buf, r.kv) ELSE [r.buf EXCEPT ![r.key] = None]

-----------------------------------------------------------------------------
(* Steps that several commands share.                                      *)

\* SetSecretsBatch, or SetSecret key by key: an error only warns.
Keychain(p) ==
    /\ At(p, "keychain")
    /\ \E S \in SUBSET Has(run[p].kv) :
          /\ keychain' = [keychain EXCEPT ![run[p].env] = Merge(@, Only(run[p].kv, S))]
          /\ IF S = Has(run[p].kv) THEN NoFault /\ Go(p, After(run[p]))
                                   ELSE Fault /\ Go(p, Missed(After(run[p])))
    /\ UNCHANGED <<cloud, dotenv, cache, example, active, keychainOnly, view, file,
                   history, commands>>

\* secrets.create: one call for all keys.  Its answer may get lost.
Upload(p) ==
    LET r == run[p]
        Take == /\ cloud' = [cloud EXCEPT ![r.env] = Merge(@, r.kv)]
                /\ accepted' = accepted \union {<<r.env, k, r.kv[k]>> : k \in Has(r.kv)}
    IN /\ At(p, "upload")
       /\ \/ Take /\ NoFault /\ Go(p, After(r))
          \/ Take /\ Fault /\ Go(p, Abort(r))
          \/ UNCHANGED <<cloud, accepted>> /\ Fault /\ Go(p, Abort(r))
       /\ UNCHANGED <<keychain, dotenv, cache, example, active, keychainOnly, view,
                      file, typed, commands>>

\* EnvManager.Write and Delete: nothing in storage mode 1, else read the file ...
Env(p) ==
    /\ At(p, "env")
    /\ Go(p, IF keychainOnly THEN After(After(run[p]))
             ELSE [After(run[p]) EXCEPT !.buf = dotenv[file[p]]])
    /\ UNCHANGED <<places, active, keychainOnly, view, file, history, counters>>

\* ... and write it back.  os.WriteFile truncates first: an error or a kill in
\* between leaves the file empty.
EnvWrite(p) ==
    /\ At(p, "envw")
    /\ \/ /\ dotenv' = [dotenv EXCEPT ![file[p]] = Updated(run[p])]
          /\ NoFault /\ Go(p, After(run[p]))
       \/ /\ dotenv' = [dotenv EXCEPT ![file[p]] = Empty]
          /\ Fault /\ Go(p, Abort(run[p]))
    /\ UNCHANGED <<cloud, keychain, cache, example, active, keychainOnly, view, file,
                   history, commands>>

\* Mutant: updates a cache that is not there
CacheNil(p) ==
    /\ At(p, "cache")
    /\ Go(p, [After(run[p]) EXCEPT !.buf = cache[run[p].env]])
    /\ UNCHANGED <<places, active, keychainOnly, view, file, history, counters>>

\* updateCacheAfterSetWithEncrypted starts a cache where there is none,
\* updateCacheAfterDelete does not.
Cache(p) ==
    LET r == run[p]
        old == cache[r.env]
    IN /\ At(p, "cache")
       /\ Go(p, IF old = None /\ r.key # None THEN After(After(r))
                ELSE [After(r) EXCEPT !.buf = IF old = None THEN Empty ELSE old])
       /\ UNCHANGED <<places, active, keychainOnly, view, file, history, counters>>

\* A failed write, always ignored, leaves a file that does not parse.
PutCache(p, c) ==
    /\ \/ NoFault /\ cache' = [cache EXCEPT ![run[p].env] = c] /\ Go(p, After(run[p]))
       \/ Fault /\ cache' = [cache EXCEPT ![run[p].env] = None]
                /\ Go(p, Missed(After(run[p])))
    /\ UNCHANGED <<cloud, keychain, dotenv, example, active, keychainOnly, view, file,
                   history, commands>>

CacheWrite(p) == At(p, "cachew") /\ PutCache(p, Updated(run[p]))

\* UpdateEnvExampleFromLocal, from the keychain's index; its errors are ignored.
Example(p) ==
    /\ At(p, "example")
    /\ \/ /\ example' = {x \in Envs \X Keys : keychain[x[1]][x[2]] # None}
          /\ NoFault /\ Go(p, After(run[p]))
       \/ UNCHANGED example /\ Fault /\ Go(p, Missed(After(run[p])))
    /\ UNCHANGED <<cloud, keychain, dotenv, cache, active, keychainOnly, view, file,
                   history, commands>>

\* ListForEnv: the answer, then the cache file.  A failed refresh is ignored.
List(p) ==
    LET r == run[p]
    IN /\ At(p, "list") \/ At(p, "refresh")
       /\ \/ NoFault /\ Go(p, [After(r) EXCEPT !.buf = cloud[r.env]])
          \/ /\ Fault
             /\ Go(p, IF At(p, "list") THEN Abort(r)
                      ELSE [Missed(After(After(r))) EXCEPT !.buf = Empty])
       /\ UNCHANGED <<places, active, keychainOnly, view, file, history, commands>>

Store(p) == At(p, "store") /\ PutCache(p, run[p].buf)

\* SaveProjectConfig with last_pull or last_push writes the whole file from the
\* process's own copy.  An error only warns.
Save(p) ==
    /\ At(p, "save")
    /\ \/ active' = view[p] /\ NoFault
       \/ UNCHANGED active /\ Fault
    /\ Go(p, After(run[p]))
    /\ UNCHANGED <<places, keychainOnly, view, file, history, commands>>

-----------------------------------------------------------------------------
(* Pull, push and delete.                                                  *)

\* The local side of Diff, and of Push; r is the run with what was read.
ReadLocal(p, r) ==
    /\ \/ NoFault /\ Go(p, r)
       \/ keychainOnly /\ Fault /\ Go(p, Abort(run[p]))
    /\ UNCHANGED <<places, active, keychainOnly, view, file, history, commands>>

Compare(p) ==
    /\ At(p, "compare")
    /\ ReadLocal(p, [After(run[p]) EXCEPT !.start = Local(p)])

Changed(r) == {k \in Has(r.start) \intersect Has(r.buf) : r.start[k] # r.buf[k]}
Removed(r) == Has(r.buf) \ Has(r.start)

\* Mutant: passes nil, which stands for all, if nothing is missing
ChoosePullNil(p) ==
    LET r == run[p]
    IN /\ At(p, "choose") /\ r.op = "pull" /\ Has(r.buf) # {}
       /\ \/ Go(p, [r EXCEPT !.plan = PullPlan])
          \/ /\ Changed(r) # {}
             /\ Go(p, [r EXCEPT !.plan = PullPlan, !.choice = "missing",
                                !.only = IF Removed(r) = {} THEN Keys ELSE Removed(r)])
       /\ UNCHANGED <<places, active, keychainOnly, view, file, history, counters>>

\* runSecretsPull asks only if there are conflicts.
ChoosePull(p) ==
    LET r == run[p]
    IN /\ At(p, "choose") /\ r.op = "pull"
       /\ \/ /\ Has(r.buf) # {}   \* nothing to ask, --force, "Overwrite All"
             /\ Go(p, [r EXCEPT !.plan = PullPlan])
          \/ /\ Changed(r) # {} /\ Removed(r) # {}   \* "Only Pull Missing (Local Wins)"
             /\ Go(p, [r EXCEPT !.plan = PullPlan, !.only = Removed(r),
                                !.choice = "missing"])
          \/ /\ Changed(r) # {} \/ Has(r.buf) = {}   \* "Cancel"; nothing to pull
             /\ Go(p, Idle)
       /\ UNCHANGED <<places, active, keychainOnly, view, file, history, counters>>

Load(p) ==
    /\ At(p, "load")
    /\ Go(p, [After(run[p]) EXCEPT !.kv = Only(run[p].buf, run[p].only)])
    /\ UNCHANGED <<places, active, keychainOnly, view, file, history, counters>>

\* runSecretsPush asks what to do with keys that are only in the cloud.
ChoosePush(p) ==
    LET r == run[p]
    IN /\ At(p, "choose") /\ r.op = "push"
       /\ \/ Go(p, [r EXCEPT !.plan = PushPlan])
          \/ /\ Removed(r) # {}   \* "Push & Delete Missing from Cloud"
             /\ Go(p, [r EXCEPT !.plan = PushPlan, !.keys = Removed(r)])
          \/ Removed(r) # {} /\ Go(p, Idle)   \* "Cancel"
       /\ UNCHANGED <<places, active, keychainOnly, view, file, history, counters>>

\* Push reads the local secrets again and returns at once if there are none.
Read(p) ==
    /\ At(p, "read")
    /\ ReadLocal(p, [run[p] EXCEPT !.kv = Local(p),
                                   !.plan = IF Local(p) = Empty THEN <<>> ELSE Tail(@)])

\* Delete, once per key.
Drop(p) ==
    LET r == run[p]
        gone == [cloud EXCEPT ![r.env][r.key] = None]
    IN /\ At(p, "drop")
       /\ \/ cloud' = gone /\ NoFault
             /\ Go(p, [After(r) EXCEPT !.gone = @ \union {r.key}])
          \/ cloud' \in {cloud, gone} /\ Fault /\ Go(p, Abort(r))
       /\ UNCHANGED <<keychain, dotenv, cache, example, active, keychainOnly, view,
                      file, history, commands>>

\* The keychain's error is ignored, without a warning.
Forget(p) ==
    /\ At(p, "forget")
    /\ \/ /\ keychain' = [keychain EXCEPT ![run[p].env][run[p].key] = None]
          /\ NoFault /\ Go(p, After(run[p]))
       \/ UNCHANGED keychain /\ Fault /\ Go(p, Missed(After(run[p])))
    /\ UNCHANGED <<cloud, dotenv, cache, example, active, keychainOnly, view, file,
                   history, commands>>

\* secretExists: in the keychain, else in the cloud.
Exists(p) ==
    LET r == run[p]
    IN /\ At(p, "exists")
       /\ \/ /\ NoFault
             /\ Go(p, IF keychain[r.env][r.key] # None
                      THEN [r EXCEPT !.plan = DeletePlan]
                      ELSE [r EXCEPT !.plan = <<"refresh", "store", "found">>])
          \/ Fault /\ Go(p, Idle)
       /\ UNCHANGED <<places, active, keychainOnly, view, file, history, commands>>

Found(p) ==
    /\ At(p, "found")
    /\ Go(p, IF run[p].buf[run[p].key] # None THEN [run[p] EXCEPT !.plan = DeletePlan]
             ELSE Idle)
    /\ UNCHANGED <<places, active, keychainOnly, view, file, history, counters>>

-----------------------------------------------------------------------------
(* The environment commands.                                               *)

\* runEnvClean asks before it deletes every key listed.
Confirm(p) ==
    /\ At(p, "confirm")
    /\ \/ Go(p, [After(run[p]) EXCEPT !.keys = Has(run[p].buf)])
       \/ Go(p, Idle)
    /\ UNCHANGED <<places, active, keychainOnly, view, file, history, counters>>

\* runEnvCopy confirms the values of the source environment, runEnvMerge asks for a
\* new value of each key; both are set in the destination, which is envs.
Prompt(p) ==
    LET r == run[p]
    IN /\ At(p, "prompt")
       /\ \/ \E kv \in Content : /\ Has(kv) = Has(r.buf) /\ kv # Empty
                                 /\ Go(p, [After(r) EXCEPT !.kv = kv])
          \/ Go(p, Idle)
       /\ UNCHANGED <<places, active, keychainOnly, view, file, history, counters>>

\* copy and merge list the source without caching it.
Fetch(p) ==
    LET r == run[p]
    IN /\ At(p, "fetch")
       /\ \/ NoFault /\ Go(p, [After(r) EXCEPT !.buf = cloud[r.env]])
          \/ Fault /\ Go(p, Idle)
       /\ UNCHANGED <<places, active, keychainOnly, view, file, history, commands>>

EachEnvPlan(op) ==
    CASE op = "set" -> SetPlan
      [] op = "list" -> <<"refresh", "store">>
      [] op = "diff" -> <<"list", "store">>

\* The next environment of `set --all-envs`, `list --remote` and `diff --from`.
NextEnv(p) ==
    LET r == run[p]
        e == Head(r.envs)
    IN /\ r.plan = <<>> /\ r.envs # <<>>
       /\ Go(p, [r EXCEPT !.env = e, !.envs = Tail(@), !.where = @ \union {e},
                          !.plan = EachEnvPlan(r.op)])
       /\ UNCHANGED <<places, active, keychainOnly, view, file, history, counters>>

\* The next key `push` or `clean` deletes.
NextKey(p) ==
    LET r == run[p]
    IN /\ r.plan = <<>> /\ r.envs = <<>>
       /\ \E k \in r.keys :
             Go(p, [r EXCEPT !.key = k, !.keys = @ \ {k}, !.plan = DeletePlan])
       /\ UNCHANGED <<places, active, keychainOnly, view, file, history, counters>>

Done(p) ==
    /\ run[p].op # "idle" /\ run[p].plan = <<>>
    /\ run[p].envs = <<>> /\ run[p].keys = {}

Finish(p) ==
    /\ Done(p) /\ Go(p, Idle)
    /\ UNCHANGED <<places, active, keychainOnly, view, file, history, counters>>

-----------------------------------------------------------------------------
(* Commands.                                                               *)

Command(op, env, plan) ==
    [Idle EXCEPT !.op = op, !.env = env, !.where = {env}, !.plan = plan]

Started(p, r) ==
    /\ run[p] = Idle /\ commands < MaxCommands
    /\ commands' = commands + 1 /\ Go(p, r)
    /\ UNCHANGED <<places, keychainOnly, history, events>>

\* A command is a process of its own: it reads project.json once (LoadProjectConfig
\* keeps the copy) and makes its service for the .env file of that environment.
CLI(p, r) ==
    /\ p \notin Servers /\ Started(p, r)
    /\ view' = [view EXCEPT ![p] = active] /\ file' = [file EXCEPT ![p] = active]
    /\ UNCHANGED active

Set(p) ==
    \E kv \in Batches \ {Empty}, all \in BOOLEAN :
       CLI(p, [Idle EXCEPT !.op = "set", !.kv = kv,
                           !.envs = IF all THEN Environments ELSE <<active>>])

Copy(p) ==
    \E from, to \in Envs :
       from # to /\ CLI(p, [Idle EXCEPT !.op = "set", !.env = from, !.envs = <<to>>,
                                        !.plan = <<"fetch", "prompt">>])

Pull(p) == CLI(p, Command("pull", active, DiffPlan))
Push(p) == CLI(p, Command("push", active, DiffPlan))
Delete(p) ==
    \E k \in Keys :
       CLI(p, [Command("delete", active, <<"exists">>) EXCEPT !.key = k])
Clean(p) == CLI(p, Command("clean", active, <<"list", "store", "confirm">>))
ListRemote(p) == CLI(p, [Idle EXCEPT !.op = "list", !.envs = Environments])

\* `status` (DiffCached) asks the cloud only if there is no cache.
Status(p) ==
    LET r == Command("status", active, <<"compare", "list", "store">>)
    IN IF cache[active] = None THEN CLI(p, r)
       ELSE CLI(p, [r EXCEPT !.plan = <<"compare">>])

\* `diff --from --to` compares two environments of the cloud, or the local secrets
\* with one, and asks the cloud each time.
Diff(p) ==
    \E from \in Envs \union {None}, to \in Envs :
       CLI(p, IF from = None THEN Command("status", to, <<"compare", "list", "store">>)
              ELSE [Idle EXCEPT !.op = "diff", !.envs = <<from, to>>])

\* `environment switch`.
Switch(p) ==
    /\ p \notin Servers /\ run[p] = Idle /\ commands < MaxCommands
    /\ active' \in Envs \ {active} /\ commands' = commands + 1
    /\ UNCHANGED <<places, keychainOnly, view, file, run, history, events>>

\* An MCP server keeps its copy of project.json, and the service it was started with,
\* from one request to the next.  The environment a request names is switched to.
Request(p, e, r) ==
    /\ p \in Servers /\ Started(p, r)
    /\ view' = [view EXCEPT ![p] = e] /\ UNCHANGED file
    /\ active' = IF e = view[p] THEN active ELSE e

PullSecrets(p) == \E e \in Envs : Request(p, e, Command("pull", e, PullPlan))
RotateKey(p) ==
    \E e \in Envs, k \in Keys :
       Request(p, e, [Command("delete", e, DeletePlan) EXCEPT !.key = k])

SwitchEnvironment(p) ==
    /\ p \in Servers /\ run[p] = Idle /\ commands < MaxCommands
    /\ \E e \in Envs : active' = e /\ view' = [view EXCEPT ![p] = e]
    /\ commands' = commands + 1
    /\ UNCHANGED <<places, keychainOnly, file, run, history, events>>

-----------------------------------------------------------------------------
(* Around them.                                                            *)

Kill(p) ==
    /\ run[p] # Idle /\ Fault /\ Go(p, Idle)
    /\ UNCHANGED <<places, active, keychainOnly, view, file, history, commands>>

StartServer(p) ==
    /\ p \in Servers /\ run[p] = Idle /\ Fault
    /\ view' = [view EXCEPT ![p] = active] /\ file' = [file EXCEPT ![p] = active]
    /\ UNCHANGED <<places, active, keychainOnly, run, history, commands>>

Teammate ==
    /\ Fault /\ run' = [q \in Processes |-> Disturbed(q)]
    /\ \E e \in Envs, k \in Keys, new \in Values \union {None} :
          /\ <<e, k, new>> \in Edits
          /\ cloud[e][k] # new /\ cloud' = [cloud EXCEPT ![e][k] = new]
          /\ accepted' = accepted \union ({<<e, k, new>>} \intersect Triples)
    /\ UNCHANGED <<keychain, dotenv, cache, example, active, keychainOnly, view, file,
                   typed, commands>>

\* Nothing reads a .env file in storage mode 1.
Edit ==
    /\ ~keychainOnly /\ Fault /\ run' = [q \in Processes |-> Disturbed(q)]
    /\ \E e \in Envs, k \in Keys, new \in Values \union {None} :
          /\ <<e, k, new>> \in Edits
          /\ dotenv[e][k] # new /\ dotenv' = [dotenv EXCEPT ![e][k] = new]
          /\ typed' = typed \union ({<<e, k, new>>} \intersect Triples)
    /\ UNCHANGED <<cloud, keychain, cache, example, active, keychainOnly, view, file,
                   accepted, commands>>

Step(p) ==
    \/ Keychain(p) \/ Upload(p) \/ Env(p) \/ EnvWrite(p) \/ Cache(p) \/ CacheWrite(p)
    \/ Example(p) \/ List(p) \/ Store(p) \/ Save(p) \/ Compare(p) \/ ChoosePull(p)
    \/ Load(p) \/ ChoosePush(p) \/ Read(p) \/ Drop(p) \/ Forget(p) \/ Exists(p)
    \/ Found(p) \/ Confirm(p) \/ Prompt(p) \/ Fetch(p) \/ NextEnv(p) \/ NextKey(p)
    \/ Finish(p)

Start(p) ==
    \/ Set(p) \/ Copy(p) \/ Pull(p) \/ Push(p) \/ Delete(p) \/ Clean(p) \/ ListRemote(p)
    \/ Status(p) \/ Diff(p) \/ Switch(p) \/ PullSecrets(p) \/ RotateKey(p)
    \/ SwitchEnvironment(p)

Next ==
    \/ \E p \in Processes : Step(p) \/ Start(p) \/ Kill(p) \/ StartServer(p)
    \/ Teammate \/ Edit

Spec == Init /\ [][Next]_vars

-----------------------------------------------------------------------------
(* Properties.                                                             *)

\* The cloud accepts first: whatever the cached copy holds for an environment the cloud
\* once accepted there, and whatever a .env file holds the user typed or the cloud once
\* accepted, however calls fail, interleave and are cut off (BatchSet uploads before it
\* writes, secrets.go:69-88).
AcceptedFirst ==
    \A e \in Envs, k \in Keys :
       /\ cache[e] # None /\ cache[e][k] # None => <<e, k, cache[e][k]>> \in accepted
       /\ dotenv[e][k] # None =>
             \/ <<e, k, dotenv[e][k]>> \in typed
             \/ \E other \in Envs : <<other, k, dotenv[e][k]>> \in accepted

\* A set, pull, push, delete or clean that ends without an error or an ignored failure,
\* while nothing else happened, leaves the places agreeing on every key it was about:
\* the cloud, the keychain, the .env file it writes, the cached copy if there is one, and
\* .env.example with the whole keychain.
Agreement ==
    \A p \in Processes :
       LET r == run[p]
           Agree(e, k) ==
              /\ cloud[e][k] = r.kv[k] /\ keychain[e][k] = r.kv[k]
              /\ keychainOnly \/ dotenv[file[p]][k] = r.kv[k]
              /\ cache[e] = None \/ cache[e][k] = r.kv[k]
           about == Has(r.kv) \union r.gone
       IN Done(p) /\ r.alone /\ ~r.missed /\ about # {} =>
             /\ \A e \in r.where, k \in about : Agree(e, k)
             /\ example = {x \in Envs \X Keys : keychain[x[1]][x[2]] # None}

\* "Only Pull Missing (Local Wins)" keeps every value that was there before it, if
\* nothing else happens meanwhile.
LocalWins ==
    \A p \in Processes :
       Done(p) /\ run[p].choice = "missing" /\ run[p].alone /\ ~run[p].missed =>
          \A k \in Has(run[p].start) : Local(p)[k] = run[p].start[k]
=============================================================================
