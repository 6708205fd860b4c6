------------------------- MODULE SecretsSyncProofs --------------------------
(***************************************************************************)
(* The cloud accepts first, the places agree in the end and local values   *)
(* win, for any number of processes, environments, keys and commands.      *)
(*                                                                         *)
(* What goes into the cached copy or a .env file has been read from a      *)
(* place where it was accepted, or was uploaded by the same command, which *)
(* the order of the steps in its plan ensures: WellOrdered and Ready say   *)
(* so of what is left of a plan (SyncInv).  What a command that runs alone *)
(* still has to write is all that keeps the places apart (Tracked).        *)
(***************************************************************************)
EXTENDS SecretsSync, SequenceTheorems, TLAPS

StepNames ==
    {"keychain", "upload", "env", "envw", "cache", "cachew", "example", "list",
     "refresh", "store", "load", "save", "read", "drop", "forget", "compare",
     "choose", "exists", "found", "confirm", "prompt", "fetch"}

Runs ==
    [op : Ops, plan : Seq(StepNames), env : Envs \union {None}, envs : Seq(Envs),
     keys : SUBSET Keys, kv : Content, key : Keys \union {None}, buf : Content,
     start : Content, only : SUBSET Keys, choice : {"all", "missing"},
     where : SUBSET Envs, gone : SUBSET Keys, alone : BOOLEAN, missed : BOOLEAN]

Typed ==
    /\ cloud \in [Envs -> Content] /\ keychain \in [Envs -> Content]
    /\ dotenv \in [Envs -> Content] /\ cache \in [Envs -> Content \union {None}]
    /\ example \subseteq Envs \X Keys /\ active \in Envs /\ keychainOnly \in BOOLEAN
    /\ view \in [Processes -> Envs] /\ file \in [Processes -> Envs]
    /\ run \in [Processes -> Runs]
    /\ accepted \subseteq Triples /\ typed \subseteq Triples

CountsTyped == commands \in 0 .. MaxCommands /\ events \in 0 .. MaxEvents

-----------------------------------------------------------------------------
(* The inductive invariant.                                                *)

\* Every value of f was accepted for the environment e; is one a .env file may hold.
Sound(e, f, acc) == \A k \in Keys : f[k] # None => <<e, k, f[k]>> \in acc
Known(e, f, acc, typ) ==
    \A k \in Keys : f[k] # None =>
        <<e, k, f[k]>> \in typ \/ \E other \in Envs : <<other, k, f[k]>> \in acc

Held ==
    \A e \in Envs :
       /\ Sound(e, cloud[e], accepted)
       /\ cache[e] # None => Sound(e, cache[e], accepted)
       /\ Known(e, dotenv[e], accepted, typed)

\* The steps that write what the command was given, those that make it accepted,
\* those that read what the next step writes, those about one key.
Uses == {"env", "envw", "cache", "cachew"}
Gives == {"upload", "load"}
Fills == {"store", "load", "cachew", "envw"}
OfOneKey == {"drop", "forget", "exists", "found"}

\* What follows what in a plan.
Follows(s, i) ==
    /\ s[i] = "envw" => i = 1 \/ s[i - 1] = "env"
    /\ s[i] = "cachew" => i = 1 \/ s[i - 1] = "cache"
    /\ s[i] = "store" => i = 1 \/ s[i - 1] \in {"list", "refresh"}
    /\ s[i] = "load" => i = 1 \/ s[i - 1] = "store"
Precedes(s, i) ==
    /\ s[i] = "env" => i < Len(s) /\ s[i + 1] = "envw"
    /\ s[i] = "cache" => i < Len(s) /\ s[i + 1] = "cachew"
    /\ s[i] = "refresh" => i < Len(s) /\ s[i + 1] = "store"
UsesNothingAfter(s, i) ==
    s[i] \in {"read", "prompt"} => \A j \in 1 .. Len(s) : i < j => s[j] \notin Uses
WellOrdered(s) ==
    \A i \in 1 .. Len(s) : Follows(s, i) /\ Precedes(s, i) /\ UsesNothingAfter(s, i)

\* Every use comes after the step that makes it sound.
Ready(s) ==
    \A i \in 1 .. Len(s) : s[i] \in Uses => \E j \in 1 .. Len(s) : j < i /\ s[j] \in Gives

NamesNoKey(s) == \A i \in 1 .. Len(s) : s[i] \notin OfOneKey

PlanFits(r) ==
    /\ WellOrdered(r.plan)
    /\ r.key # None \/ NamesNoKey(r.plan)
EnvFits(r) ==
    /\ r.plan # <<>> \/ r.keys # {} => r.env \in Envs
    /\ r.envs # <<>> => r.op \in {"set", "list", "diff"}
Filled(r, f, acc, typ) ==
    r.plan # <<>> =>
       /\ Head(r.plan) \in {"store", "load", "cachew"} => Sound(r.env, r.buf, acc)
       /\ Head(r.plan) = "envw" => Known(f, r.buf, acc, typ)
Given(r, acc) == r.key # None \/ Sound(r.env, r.kv, acc) \/ Ready(r.plan)

\* A run, of a process whose service was made for the .env file of f.
Fits(r, f, acc, typ) ==
    PlanFits(r) /\ EnvFits(r) /\ Filled(r, f, acc, typ) /\ Given(r, acc)

SyncInv ==
    Typed /\ Held /\ \A p \in Processes : Fits(run[p], file[p], accepted, typed)

-----------------------------------------------------------------------------
(* Plans.                                                                  *)

LEMMA TailOf ==
    ASSUME NEW s \in Seq(StepNames), s # <<>>
    PROVE  /\ Tail(s) \in Seq(StepNames) /\ Head(s) = s[1] /\ Head(s) \in StepNames
           /\ Len(s) \in Nat /\ Len(s) >= 1 /\ Len(Tail(s)) = Len(s) - 1
           /\ \A i \in 1 .. Len(Tail(s)) : Tail(s)[i] = s[i + 1]
<1>1. Len(s) \in Nat /\ Len(s) # 0
  BY EmptySeq, LenProperties
<1> QED
  BY <1>1, HeadTailProperties

\* What is left of a plan is a plan.
LEMMA TailIsWellOrdered ==
    ASSUME NEW s \in Seq(StepNames), s # <<>>, WellOrdered(s)
    PROVE  WellOrdered(Tail(s))
<1> DEFINE t == Tail(s)
<1>1. /\ Len(s) \in Nat /\ Len(t) = Len(s) - 1
      /\ \A i \in 1 .. Len(t) : i + 1 \in 1 .. Len(s) /\ t[i] = s[i + 1]
  BY TailOf
<1> SUFFICES ASSUME NEW i \in 1 .. Len(t)
             PROVE  Follows(t, i) /\ Precedes(t, i) /\ UsesNothingAfter(t, i)
  BY DEF WellOrdered
<1> HIDE DEF t
<1>2. Follows(s, i + 1) /\ Precedes(s, i + 1) /\ UsesNothingAfter(s, i + 1)
  BY <1>1 DEF WellOrdered
<1>3. i # 1 => t[i - 1] = s[i]
  BY <1>1
<1>4. i < Len(t) => i + 1 \in 1 .. Len(t) /\ t[i + 1] = s[i + 2] /\ i + 1 < Len(s)
  BY <1>1
<1>5. Follows(t, i)
  BY <1>1, <1>2, <1>3 DEF Follows
<1>6. Precedes(t, i)
  <2>1. i + 1 < Len(s) => i < Len(t)
    BY <1>1
  <2>2. (i + 1) + 1 = i + 2
    OBVIOUS
  <2> QED
    BY <1>1, <1>2, <1>4, <2>1, <2>2 DEF Precedes
<1>7. UsesNothingAfter(t, i)
  <2>1. \A j \in 1 .. Len(t) : i < j => i + 1 < j + 1 /\ j + 1 \in 1 .. Len(s)
    BY <1>1
  <2> QED
    BY <1>1, <1>2, <2>1 DEF UsesNothingAfter
<1> QED
  BY <1>5, <1>6, <1>7

\* So is the next use, once the step before is done, unless that step was the giver.
LEMMA TailIsReady ==
    ASSUME NEW s \in Seq(StepNames), s # <<>>, Ready(s), Head(s) \notin Gives
    PROVE  Ready(Tail(s))
<1> DEFINE t == Tail(s)
<1>1. /\ Len(s) \in Nat /\ Len(t) = Len(s) - 1 /\ Head(s) = s[1]
      /\ \A i \in 1 .. Len(t) : i + 1 \in 1 .. Len(s) /\ t[i] = s[i + 1]
  BY TailOf
<1> SUFFICES ASSUME NEW i \in 1 .. Len(t), t[i] \in Uses
             PROVE  \E j \in 1 .. Len(t) : j < i /\ t[j] \in Gives
  BY DEF Ready
<1> HIDE DEF t
<1>2. PICK j \in 1 .. Len(s) : j < i + 1 /\ s[j] \in Gives
  BY <1>1 DEF Ready
<1>3. j # 1
  BY <1>1, <1>2
<1>4. j - 1 \in 1 .. Len(t) /\ j - 1 < i /\ t[j - 1] = s[j]
  BY <1>1, <1>2, <1>3
<1> QED
  BY <1>2, <1>4

LEMMA NamesTail ==
    ASSUME NEW s \in Seq(StepNames), s # <<>>, NamesNoKey(s)
    PROVE  NamesNoKey(Tail(s))
BY TailOf DEF NamesNoKey

\* What reads comes right before what writes.
LEMMA NextStep ==
    ASSUME NEW s \in Seq(StepNames), s # <<>>, WellOrdered(s), Tail(s) # <<>>
    PROVE  /\ Head(Tail(s)) = "envw" => Head(s) = "env"
           /\ Head(Tail(s)) = "cachew" => Head(s) = "cache"
           /\ Head(Tail(s)) = "store" => Head(s) \in {"list", "refresh"}
           /\ Head(Tail(s)) = "load" => Head(s) = "store"
<1>1. /\ Tail(s) \in Seq(StepNames) /\ Head(s) = s[1] /\ Len(s) \in Nat
      /\ Len(Tail(s)) = Len(s) - 1
  BY TailOf
<1>2. Head(Tail(s)) = Tail(s)[1] /\ Len(Tail(s)) >= 1
  BY <1>1, TailOf
<1>3. Tail(s)[1] = s[2] /\ 2 \in 1 .. Len(s)
  BY <1>1, <1>2, TailOf
<1>4. Follows(s, 2) /\ 2 - 1 = 1 /\ 2 # 1
  BY <1>3 DEF WellOrdered
<1> QED
  BY <1>1, <1>2, <1>3, <1>4 DEF Follows

\* A plan a command starts with.
Whole(s) ==
    s \in Seq(StepNames) /\ s # <<>> /\ Head(s) \notin Fills /\ WellOrdered(s)

LEMMA SetPlans ==
    /\ Whole(SetPlan) /\ Ready(SetPlan) /\ NamesNoKey(SetPlan)
    /\ Whole(PullPlan) /\ Ready(PullPlan) /\ NamesNoKey(PullPlan)
<1>1. Whole(SetPlan)
  BY DEF Whole, SetPlan, StepNames, Fills, WellOrdered, Follows, Precedes,
         UsesNothingAfter, Uses
<1>2. Ready(SetPlan) /\ NamesNoKey(SetPlan)
  BY DEF SetPlan, Ready, NamesNoKey, Uses, Gives, OfOneKey
<1>3. Whole(PullPlan)
  BY DEF Whole, PullPlan, StepNames, Fills, WellOrdered, Follows, Precedes,
         UsesNothingAfter, Uses
<1>4. Ready(PullPlan) /\ NamesNoKey(PullPlan)
  BY DEF PullPlan, Ready, NamesNoKey, Uses, Gives, OfOneKey
<1> QED
  BY <1>1, <1>2, <1>3, <1>4

LEMMA ReadingPlans ==
    ASSUME NEW s \in {PushPlan, DiffPlan, <<"fetch", "prompt">>,
                      <<"list", "store", "confirm">>, <<"compare", "list", "store">>,
                      <<"compare">>, <<"list", "store">>, <<"refresh", "store">>}
    PROVE  Whole(s) /\ Ready(s) /\ NamesNoKey(s)
<1> USE DEF Whole, StepNames, Fills, WellOrdered, Follows, Precedes, UsesNothingAfter,
            Uses, Ready, NamesNoKey, OfOneKey
<1>1. CASE s = PushPlan
  BY <1>1 DEF PushPlan
<1>2. CASE s = DiffPlan
  BY <1>2 DEF DiffPlan
<1>3. CASE s = <<"fetch", "prompt">>
  BY <1>3
<1>4. CASE s = <<"list", "store", "confirm">>
  BY <1>4
<1>5. CASE s = <<"compare", "list", "store">>
  BY <1>5
<1>6. CASE s = <<"compare">>
  BY <1>6
<1>7. CASE s = <<"list", "store">>
  BY <1>7
<1>8. CASE s = <<"refresh", "store">>
  BY <1>8
<1> QED
  BY <1>1, <1>2, <1>3, <1>4, <1>5, <1>6, <1>7, <1>8

LEMMA DeletingPlans ==
    ASSUME NEW s \in {DeletePlan, <<"exists">>, <<"refresh", "store", "found">>}
    PROVE  Whole(s)
<1> USE DEF Whole, StepNames, Fills, WellOrdered, Follows, Precedes, UsesNothingAfter,
            Uses
<1>1. CASE s = DeletePlan
  BY <1>1 DEF DeletePlan
<1>2. CASE s = <<"exists">>
  BY <1>2
<1>3. CASE s = <<"refresh", "store", "found">>
  BY <1>3
<1> QED
  BY <1>1, <1>2, <1>3

-----------------------------------------------------------------------------
(* Runs.                                                                   *)

\* A run with nothing left of its plan.
LEMMA EndFits ==
    ASSUME NEW r \in Runs, NEW f, NEW acc, NEW typ, r.plan = <<>>, EnvFits(r)
    PROVE  Fits(r, f, acc, typ)
<1>1. Len(r.plan) = 0 /\ 1 .. 0 = {}
  BY EmptySeq
<1> QED
  BY <1>1 DEF Fits, PlanFits, WellOrdered, NamesNoKey, Filled, Given, Ready

\* A run with a whole plan before it.
LEMMA WholeFits ==
    ASSUME NEW r \in Runs, NEW f, NEW acc, NEW typ, Whole(r.plan),
           r.key # None \/ (Ready(r.plan) /\ NamesNoKey(r.plan)),
           r.env \in Envs, r.envs # <<>> => r.op \in {"set", "list", "diff"}
    PROVE  Fits(r, f, acc, typ)
BY DEF Fits, PlanFits, EnvFits, Filled, Given, Whole, Fills

\* A run after one more step, which filled buf if the next one writes it and made
\* the values sound if later ones use them.
LEMMA StepFits ==
    ASSUME NEW r \in Runs, NEW t \in Runs, NEW f, NEW acc, NEW typ, NEW acc2,
           Fits(r, f, acc, typ), acc \subseteq acc2,
           r.plan # <<>>, t.plan = Tail(r.plan),
           t.env = r.env, t.envs = r.envs, t.op = r.op, t.key = r.key,
           Head(r.plan) \in {"list", "refresh", "cache", "store"}
               => Sound(r.env, t.buf, acc2),
           Head(r.plan) = "env" => Known(f, t.buf, acc2, typ),
           \/ t.kv = r.kv /\ Head(r.plan) \notin Gives
           \/ Sound(r.env, t.kv, acc2)
           \/ Head(r.plan) \in {"read", "prompt"}
    PROVE  Fits(t, f, acc2, typ)
<1>1. r.plan \in Seq(StepNames) /\ WellOrdered(r.plan)
  BY DEF Runs, Fits, PlanFits
<1>2. PlanFits(t)
  BY <1>1, TailIsWellOrdered, NamesTail DEF Fits, PlanFits
<1>3. EnvFits(t)
  BY DEF Fits, EnvFits
<1>4. Filled(t, f, acc2, typ)
  BY <1>1, NextStep DEF Filled
<1>5. Given(t, acc2)
  <2>1. CASE Head(r.plan) \in {"read", "prompt"}
    <3>1. UsesNothingAfter(r.plan, 1)
      BY <1>1, TailOf DEF WellOrdered
    <3>2. \A i \in 1 .. Len(Tail(r.plan)) : Tail(r.plan)[i] \notin Uses
      BY <1>1, <2>1, <3>1, TailOf DEF UsesNothingAfter
    <3> QED
      BY <3>2 DEF Given, Ready
  <2>2. CASE t.kv = r.kv /\ Head(r.plan) \notin Gives
    <3>1. r.key # None \/ Sound(r.env, r.kv, acc2) \/ Ready(r.plan)
      BY DEF Fits, Given, Sound
    <3> QED
      BY <1>1, <2>2, <3>1, TailIsReady DEF Given
  <2> QED
    BY <2>1, <2>2 DEF Given
<1> QED
  BY <1>2, <1>3, <1>4, <1>5 DEF Fits

\* A read is never the last step.
LEMMA ReadIsFollowed ==
    ASSUME NEW s \in Seq(StepNames), s # <<>>, WellOrdered(s),
           Head(s) \in {"env", "cache", "refresh"}
    PROVE  /\ Tail(s) # <<>> /\ Head(Tail(s)) \in {"envw", "cachew", "store"}
           /\ Head(Tail(s)) = "store" => Head(s) = "refresh"
<1> DEFINE t == Tail(s)
<1>1. /\ t \in Seq(StepNames) /\ Head(s) = s[1] /\ Len(s) \in Nat
      /\ Len(s) >= 1 /\ Len(t) = Len(s) - 1
      /\ \A i \in 1 .. Len(t) : t[i] = s[i + 1]
  BY TailOf
<1>2. Precedes(s, 1) /\ 1 + 1 = 2
  BY <1>1 DEF WellOrdered
<1>3. /\ 1 < Len(s) /\ s[2] \in {"envw", "cachew", "store"}
      /\ s[2] = "store" => Head(s) = "refresh"
  BY <1>1, <1>2 DEF Precedes
<1>4. Len(t) # 0 /\ 1 \in 1 .. Len(t)
  BY <1>1, <1>3
<1>5. t # <<>>
  BY <1>4, EmptySeq
<1>6. t[1] = s[2] /\ Head(t) = t[1]
  BY <1>1, <1>2, <1>4, <1>5, TailOf
<1> QED
  BY <1>3, <1>5, <1>6

\* A run that leaves out a read and its write.
LEMMA SkipFits ==
    ASSUME NEW r \in Runs, NEW t \in Runs, NEW f, NEW acc, NEW typ,
           Fits(r, f, acc, typ), r.plan # <<>>,
           \/ Head(r.plan) \in {"env", "cache"}
           \/ Head(r.plan) = "refresh" /\ Sound(r.env, t.buf, acc),
           t.plan = Tail(Tail(r.plan)), t.env = r.env, t.envs = r.envs,
           t.op = r.op, t.key = r.key, t.kv = r.kv
    PROVE  Fits(t, f, acc, typ)
<1> DEFINE s == Tail(r.plan)
<1>1. r.plan \in Seq(StepNames) /\ WellOrdered(r.plan) /\ s \in Seq(StepNames)
  BY TailOf DEF Runs, Fits, PlanFits
<1>2. /\ s # <<>> /\ Head(s) \in {"envw", "cachew", "store"}
      /\ Head(s) = "store" => Head(r.plan) = "refresh"
  BY <1>1, ReadIsFollowed
<1>3. WellOrdered(s) /\ PlanFits(t)
  BY <1>1, <1>2, TailIsWellOrdered, NamesTail DEF Fits, PlanFits
<1>4. EnvFits(t)
  BY DEF Fits, EnvFits
<1>5. Filled(t, f, acc, typ)
  <2>1. Tail(s) # <<>> => /\ Head(Tail(s)) \notin {"store", "cachew", "envw"}
                          /\ Head(Tail(s)) = "load" => Head(s) = "store"
    BY <1>1, <1>2, <1>3, NextStep
  <2> QED
    BY <1>2, <2>1 DEF Filled
<1>6. Given(t, acc)
  <2>1. Ready(r.plan) => Ready(s)
    BY <1>1, TailIsReady DEF Gives
  <2>2. Ready(s) => Ready(Tail(s))
    BY <1>1, <1>2, TailIsReady DEF Gives
  <2> QED
    BY <2>1, <2>2 DEF Fits, Given
<1> QED
  BY <1>3, <1>4, <1>5, <1>6 DEF Fits

\* What was accepted or typed stays so.
LEMMA FitsForLong ==
    ASSUME NEW r \in Runs, NEW f, NEW acc, NEW typ, NEW acc2, NEW typ2,
           Fits(r, f, acc, typ), acc \subseteq acc2, typ \subseteq typ2
    PROVE  /\ Fits(r, f, acc2, typ2)
           /\ Fits([r EXCEPT !.alone = FALSE], f, acc2, typ2)
           /\ [r EXCEPT !.alone = FALSE] \in Runs
<1>1. [r EXCEPT !.alone = FALSE] \in Runs
  BY DEF Runs
<1>2. Fits(r, f, acc2, typ2)
  BY DEF Fits, Filled, Given, Sound, Known
<1>3. Fits([r EXCEPT !.alone = FALSE], f, acc2, typ2)
  <2> DEFINE t == [r EXCEPT !.alone = FALSE]
  <2>1. /\ t.plan = r.plan /\ t.env = r.env /\ t.envs = r.envs /\ t.op = r.op
        /\ t.key = r.key /\ t.kv = r.kv /\ t.buf = r.buf /\ t.keys = r.keys
    BY DEF Runs
  <2> HIDE DEF t
  <2>2. Fits(t, f, acc2, typ2)
    BY <1>2, <2>1 DEF Fits, PlanFits, EnvFits, Filled, Given
  <2> QED
    BY <2>2 DEF t
<1> QED
  BY <1>1, <1>2, <1>3

-----------------------------------------------------------------------------
(* A step of one process.                                                  *)

\* One process goes on with the run r; no other starts a service meanwhile.
LEMMA GoKeeps ==
    ASSUME Typed, \A q \in Processes : Fits(run[q], file[q], accepted, typed),
           NEW p \in Processes, NEW r \in Runs, Go(p, r),
           \A q \in Processes : q # p => file'[q] = file[q],
           accepted \subseteq accepted', typed \subseteq typed',
           Fits(r, file'[p], accepted', typed')
    PROVE  /\ run' \in [Processes -> Runs]
           /\ \A q \in Processes : Fits(run'[q], file'[q], accepted', typed')
<1>1. ASSUME NEW q \in Processes, q # p
      PROVE  Disturbed(q) \in Runs /\ Fits(Disturbed(q), file[q], accepted', typed')
  <2>1. run[q] \in Runs /\ Fits(run[q], file[q], accepted, typed)
    BY DEF Typed
  <2> QED
    BY <2>1, FitsForLong DEF Disturbed
<1>2. \A q \in Processes : run'[q] = IF q = p THEN r ELSE Disturbed(q)
  BY DEF Go
<1>3. run' \in [Processes -> Runs]
  BY <1>1 DEF Go
<1> QED
  BY <1>1, <1>2, <1>3

LEMMA IdleFits ==
    /\ Idle \in Runs
    /\ \A f, acc, typ : Fits(Idle, f, acc, typ)
<1>1. Empty \in Content
  BY DEF Empty, Content
<1>2. <<>> \in Seq(StepNames) /\ <<>> \in Seq(Envs)
  BY EmptySeq
<1>3. Idle \in Runs
  BY <1>1, <1>2 DEF Idle, Runs, Ops
<1>4. Idle.plan = <<>> /\ EnvFits(Idle)
  BY DEF Idle, EnvFits
<1> QED
  BY <1>3, <1>4, EndFits

\* Contents.
LEMMA Contents ==
    ASSUME NEW f \in Content, NEW g \in Content, NEW S, NEW k
    PROVE  /\ Empty \in Content /\ Merge(f, g) \in Content /\ Only(f, S) \in Content
           /\ [f EXCEPT ![k] = None] \in Content
BY DEF Content, Empty, Merge, Only

LEMMA SoundContents ==
    ASSUME NEW f \in Content, NEW g \in Content, NEW S, NEW k, NEW e, NEW acc
    PROVE  /\ Sound(e, Empty, acc)
           /\ Sound(e, f, acc) /\ Sound(e, g, acc) => Sound(e, Merge(f, g), acc)
           /\ Sound(e, f, acc) => Sound(e, Only(f, S), acc)
           /\ Sound(e, f, acc) => Sound(e, [f EXCEPT ![k] = None], acc)
BY DEF Content, Empty, Merge, Only, Sound

LEMMA KnownContents ==
    ASSUME NEW f \in Content, NEW g \in Content, NEW k, NEW e, NEW d \in Envs,
           NEW acc, NEW typ
    PROVE  /\ Known(e, Empty, acc, typ)
           /\ Known(e, f, acc, typ) /\ Sound(d, g, acc) => Known(e, Merge(f, g), acc, typ)
           /\ Known(e, f, acc, typ) => Known(e, [f EXCEPT ![k] = None], acc, typ)
BY DEF Content, Empty, Merge, Sound, Known

\* A step that leaves the places and the history alone keeps the invariant if its
\* own run fits.
LEMMA QuietStep ==
    ASSUME SyncInv, NEW p \in Processes, NEW r \in Runs, Go(p, r),
           UNCHANGED <<places, keychainOnly, history>>, active' \in Envs,
           view' \in [Processes -> Envs], file' \in [Processes -> Envs],
           \A q \in Processes : q # p => file'[q] = file[q],
           Fits(r, file'[p], accepted, typed)
    PROVE  SyncInv'
<1>1. /\ run' \in [Processes -> Runs]
      /\ \A q \in Processes : Fits(run'[q], file'[q], accepted', typed')
  BY GoKeeps DEF SyncInv, history
<1>2. Typed'
  BY <1>1 DEF SyncInv, Typed, places, history
<1>3. Held'
  BY DEF SyncInv, Held, Sound, Known, places, history
<1> QED
  BY <1>1, <1>2, <1>3 DEF SyncInv

\* A step that may change them, for the better.
LEMMA LoudStep ==
    ASSUME SyncInv, NEW p \in Processes, NEW r \in Runs, Go(p, r),
           UNCHANGED <<active, keychainOnly, view, file>>,
           cloud' \in [Envs -> Content], keychain' \in [Envs -> Content],
           dotenv' \in [Envs -> Content], cache' \in [Envs -> Content \union {None}],
           example' \subseteq Envs \X Keys, accepted' \subseteq Triples,
           accepted \subseteq accepted', typed' = typed, Held',
           Fits(r, file[p], accepted', typed)
    PROVE  SyncInv'
<1>1. /\ run' \in [Processes -> Runs]
      /\ \A q \in Processes : Fits(run'[q], file'[q], accepted', typed')
  BY GoKeeps DEF SyncInv
<1>2. Typed'
  BY <1>1 DEF SyncInv, Typed
<1> QED
  BY <1>1, <1>2 DEF SyncInv

\* What After, Missed and Abort make of a run.
LEMMA AfterRun ==
    ASSUME NEW r \in Runs, r.plan # <<>>, NEW t \in {After(r), Missed(After(r))}
    PROVE  /\ t \in Runs /\ t.plan = Tail(r.plan) /\ t.env = r.env /\ t.envs = r.envs
           /\ t.op = r.op /\ t.key = r.key /\ t.kv = r.kv /\ t.buf = r.buf
<1>1. Tail(r.plan) \in Seq(StepNames)
  BY TailOf DEF Runs
<1>2. After(r) \in Runs /\ Missed(After(r)) \in Runs
  BY <1>1 DEF After, Missed, Runs
<1> QED
  BY <1>2 DEF After, Missed, Runs

LEMMA AfterFits ==
    ASSUME NEW r \in Runs, NEW f, NEW acc, NEW typ, NEW acc2, Fits(r, f, acc, typ),
           r.plan # <<>>, acc \subseteq acc2, NEW t \in {After(r), Missed(After(r))},
           Head(r.plan) \notin {"list", "refresh", "cache", "env"},
           Head(r.plan) \in Gives => Sound(r.env, r.kv, acc2)
    PROVE  t \in Runs /\ Fits(t, f, acc2, typ)
<1>1. Head(r.plan) = "store" => Sound(r.env, r.buf, acc2)
  BY DEF Fits, Filled, Sound
<1> QED
  BY <1>1, AfterRun, StepFits

LEMMA SkipTwo ==
    ASSUME NEW r \in Runs, NEW f, NEW acc, NEW typ, Fits(r, f, acc, typ),
           r.plan # <<>>, Head(r.plan) \in {"env", "cache", "refresh"}
    PROVE  /\ After(After(r)) \in Runs
           /\ After(After(r)).plan = Tail(Tail(r.plan))
           /\ After(After(r)).env = r.env /\ After(After(r)).envs = r.envs
           /\ After(After(r)).op = r.op /\ After(After(r)).key = r.key
           /\ After(After(r)).kv = r.kv
           /\ Head(r.plan) # "refresh" => Fits(After(After(r)), f, acc, typ)
<1> DEFINE a == After(r)
           t == After(a)
<1>1. r.plan \in Seq(StepNames) /\ WellOrdered(r.plan)
  BY DEF Runs, Fits, PlanFits
<1>2. /\ a \in Runs /\ a.plan = Tail(r.plan) /\ a.env = r.env /\ a.envs = r.envs
      /\ a.op = r.op /\ a.key = r.key /\ a.kv = r.kv
  BY AfterRun
<1>3. a.plan # <<>>
  BY <1>1, <1>2, ReadIsFollowed
<1>4. /\ t \in Runs /\ t.plan = Tail(Tail(r.plan)) /\ t.env = r.env /\ t.envs = r.envs
      /\ t.op = r.op /\ t.key = r.key /\ t.kv = r.kv
  <2>1. \A x \in Runs : x.plan # <<>> =>
           /\ After(x) \in Runs /\ After(x).plan = Tail(x.plan) /\ After(x).env = x.env
           /\ After(x).envs = x.envs /\ After(x).op = x.op /\ After(x).key = x.key
           /\ After(x).kv = x.kv
    BY AfterRun
  <2> HIDE DEF a
  <2> QED
    BY <1>2, <1>3, <2>1
<1> HIDE DEF a, t
<1>5. Head(r.plan) # "refresh" => Fits(t, f, acc, typ)
  BY <1>4, SkipFits
<1> QED
  BY <1>4, <1>5 DEF a, t

LEMMA AbortFits ==
    ASSUME NEW r \in Runs, NEW f, NEW acc, NEW typ, NEW acc2, NEW typ2,
           Fits(r, f, acc, typ), r.plan # <<>>
    PROVE  Abort(r) \in Runs /\ Fits(Abort(r), f, acc2, typ2)
<1> DEFINE t == Abort(r)
<1>1. <<>> \in Seq(StepNames) /\ <<>> \in Seq(Envs)
  BY EmptySeq
<1>2. t \in Runs
  BY <1>1 DEF Abort, Runs
<1>3. /\ t.plan = <<>> /\ t.op = r.op /\ t.env = r.env
      /\ t.envs = IF r.op = "diff" THEN <<>> ELSE r.envs
  BY DEF Abort, Runs
<1>4. EnvFits(t)
  BY <1>3 DEF Fits, EnvFits
<1> QED
  BY <1>2, <1>3, <1>4, EndFits

\* A process at a step has a run that fits and an environment.
LEMMA AtStep ==
    ASSUME SyncInv, NEW p \in Processes, run[p].plan # <<>>
    PROVE  /\ run[p] \in Runs /\ Fits(run[p], file[p], accepted, typed)
           /\ run[p].env \in Envs /\ file[p] \in Envs
           /\ run[p].kv \in Content /\ run[p].buf \in Content
BY DEF SyncInv, Typed, Fits, EnvFits, Runs

-----------------------------------------------------------------------------
(* The steps that several commands share.                                  *)

LEMMA KeychainKeeps ==
    ASSUME SyncInv, NEW p \in Processes, Keychain(p)
    PROVE  SyncInv'
<1> DEFINE r == run[p]
<1>1. /\ r.plan # <<>> /\ Head(r.plan) = "keychain"
      /\ UNCHANGED <<cloud, dotenv, cache, example, active, keychainOnly, view, file,
                     history>>
  BY DEF Keychain, At
<1>2. PICK S \in SUBSET Has(r.kv) :
         /\ keychain' = [keychain EXCEPT ![r.env] = Merge(@, Only(r.kv, S))]
         /\ Go(p, After(r)) \/ Go(p, Missed(After(r)))
  BY DEF Keychain
<1>3. keychain' \in [Envs -> Content]
  BY <1>1, <1>2, AtStep, Contents DEF SyncInv, Typed
<1>4. PICK t \in {After(r), Missed(After(r))} : Go(p, t)
  BY <1>2
<1>5. t \in Runs /\ Fits(t, file[p], accepted, typed)
  BY <1>1, AtStep, AfterFits DEF Gives
<1>6. Held'
  BY <1>1 DEF SyncInv, Held, Sound, Known, history
<1> QED
  BY <1>1, <1>3, <1>4, <1>5, <1>6, LoudStep DEF SyncInv, Typed, history

LEMMA UploadKeeps ==
    ASSUME SyncInv, NEW p \in Processes, Upload(p)
    PROVE  SyncInv'
<1> DEFINE r == run[p]
           given == {<<r.env, k, r.kv[k]>> : k \in Has(r.kv)}
<1>1. /\ r.plan # <<>> /\ Head(r.plan) = "upload"
      /\ UNCHANGED <<keychain, dotenv, cache, example, active, keychainOnly, view,
                     file, typed>>
  BY DEF Upload, At
<1>2. /\ r \in Runs /\ Fits(r, file[p], accepted, typed) /\ r.env \in Envs
      /\ r.kv \in Content
  BY <1>1, AtStep
<1>3. \/ /\ cloud' = [cloud EXCEPT ![r.env] = Merge(@, r.kv)]
         /\ accepted' = accepted \union given
         /\ Go(p, After(r)) \/ Go(p, Abort(r))
      \/ UNCHANGED <<cloud, accepted>> /\ Go(p, Abort(r))
  BY DEF Upload
<1>4. given \subseteq Triples /\ Sound(r.env, r.kv, given)
  BY <1>2 DEF Has, Content, Triples, Sound
<1>5. CASE UNCHANGED <<cloud, accepted>> /\ Go(p, Abort(r))
  <2>1. Abort(r) \in Runs /\ Fits(Abort(r), file[p], accepted', typed)
    BY <1>1, <1>2, AbortFits
  <2>2. Held'
    BY <1>1, <1>5 DEF SyncInv, Held, Sound, Known
  <2> QED
    BY <1>1, <1>5, <2>1, <2>2, LoudStep DEF SyncInv, Typed
<1>6. CASE /\ cloud' = [cloud EXCEPT ![r.env] = Merge(@, r.kv)]
           /\ accepted' = accepted \union given
           /\ Go(p, After(r)) \/ Go(p, Abort(r))
  <2>1. PICK t \in {After(r), Abort(r)} : Go(p, t)
    BY <1>6
  <2>2. t \in Runs /\ Fits(t, file[p], accepted', typed)
    <3>1. Sound(r.env, r.kv, accepted') /\ accepted \subseteq accepted'
      BY <1>4, <1>6 DEF Sound
    <3>2. After(r) \in Runs /\ Fits(After(r), file[p], accepted', typed)
      BY <1>1, <1>2, <3>1, AfterFits
    <3> QED
      BY <1>1, <1>2, <3>2, AbortFits
  <2>3. cloud' \in [Envs -> Content]
    BY <1>2, <1>6, Contents DEF SyncInv, Typed
  <2>4. Held'
    <3>1. ASSUME NEW e \in Envs PROVE Sound(e, cloud'[e], accepted')
      <4>1. cloud[e] \in Content /\ Sound(e, cloud[e], accepted')
        BY <1>6 DEF SyncInv, Typed, Held, Sound
      <4>2. Sound(r.env, r.kv, accepted')
        BY <1>4, <1>6 DEF Sound
      <4>3. e = r.env => Sound(e, Merge(cloud[e], r.kv), accepted')
        BY <1>2, <4>1, <4>2, SoundContents
      <4> QED
        BY <1>2, <1>6, <4>1, <4>3 DEF SyncInv, Typed
    <3> QED
      BY <1>1, <1>6, <3>1 DEF SyncInv, Held, Sound, Known
  <2>5. accepted' \subseteq Triples /\ accepted \subseteq accepted'
    BY <1>4, <1>6 DEF SyncInv, Typed
  <2> QED
    BY <1>1, <2>1, <2>2, <2>3, <2>4, <2>5, LoudStep DEF SyncInv, Typed
<1> QED
  BY <1>3, <1>5, <1>6

LEMMA EnvKeeps ==
    ASSUME SyncInv, NEW p \in Processes, Env(p)
    PROVE  SyncInv'
<1> DEFINE r == run[p]
           t == [After(r) EXCEPT !.buf = dotenv[file[p]]]
<1>1. /\ r.plan # <<>> /\ Head(r.plan) = "env"
      /\ UNCHANGED <<places, active, keychainOnly, view, file, history>>
      /\ Go(p, After(After(r))) \/ Go(p, t)
  BY DEF Env, At
<1>2. /\ r \in Runs /\ Fits(r, file[p], accepted, typed) /\ r.env \in Envs
      /\ file[p] \in Envs
  BY <1>1, AtStep
<1>3. After(After(r)) \in Runs /\ Fits(After(After(r)), file[p], accepted, typed)
  BY <1>1, <1>2, SkipTwo
<1>4. t \in Runs /\ Fits(t, file[p], accepted, typed)
  <2>1. Known(file[p], dotenv[file[p]], accepted, typed) /\ dotenv[file[p]] \in Content
    BY <1>2 DEF SyncInv, Held, Typed
  <2>2. /\ t \in Runs /\ t.plan = Tail(r.plan) /\ t.env = r.env /\ t.envs = r.envs
        /\ t.op = r.op /\ t.key = r.key /\ t.kv = r.kv /\ t.buf = dotenv[file[p]]
    <3>1. /\ After(r) \in Runs /\ After(r).plan = Tail(r.plan) /\ After(r).env = r.env
          /\ After(r).envs = r.envs /\ After(r).op = r.op /\ After(r).key = r.key
          /\ After(r).kv = r.kv
      BY <1>1, <1>2, AfterRun
    <3> QED
      BY <2>1, <3>1 DEF Runs
  <2> HIDE DEF t
  <2> QED
    BY <1>1, <1>2, <2>1, <2>2, StepFits DEF Gives
<1> HIDE DEF t
<1> QED
  BY <1>1, <1>3, <1>4, QuietStep DEF SyncInv, Typed, history

\* A .env file gets what it may hold: what was read from it before, and what was
\* accepted.
LEMMA EnvWriteKeeps ==
    ASSUME SyncInv, NEW p \in Processes, EnvWrite(p)
    PROVE  SyncInv'
<1> DEFINE r == run[p]
<1>1. /\ r.plan # <<>> /\ Head(r.plan) = "envw"
      /\ UNCHANGED <<cloud, keychain, cache, example, active, keychainOnly, view, file,
                     history>>
      /\ \/ dotenv' = [dotenv EXCEPT ![file[p]] = Updated(r)] /\ Go(p, After(r))
         \/ dotenv' = [dotenv EXCEPT ![file[p]] = Empty] /\ Go(p, Abort(r))
  BY DEF EnvWrite, At
<1>2. /\ r \in Runs /\ Fits(r, file[p], accepted, typed) /\ r.env \in Envs
      /\ file[p] \in Envs /\ r.kv \in Content /\ r.buf \in Content
  BY <1>1, AtStep
<1>3. Known(file[p], r.buf, accepted, typed)
  BY <1>1, <1>2 DEF Fits, Filled
<1>4. Known(file[p], Updated(r), accepted, typed) /\ Updated(r) \in Content
  <2>1. CASE r.key # None
    BY <1>2, <1>3, <2>1, KnownContents, Contents DEF Updated
  <2>2. CASE r.key = None
    <3>1. ~ Ready(r.plan)
      <4>1. r.plan \in Seq(StepNames)
        BY <1>2 DEF Runs
      <4>2. 1 \in 1 .. Len(r.plan) /\ r.plan[1] = "envw"
        BY <1>1, <4>1, TailOf
      <4>3. ~ \E j \in 1 .. Len(r.plan) : j < 1
        OBVIOUS
      <4> QED
        BY <4>2, <4>3 DEF Ready, Uses
    <3>2. Sound(r.env, r.kv, accepted)
      BY <1>2, <2>2, <3>1 DEF Fits, Given
    <3> QED
      BY <1>2, <1>3, <2>2, <3>2, KnownContents, Contents DEF Updated
  <2> QED
    BY <2>1, <2>2
<1>5. PICK f \in {Updated(r), Empty}, t \in {After(r), Abort(r)} :
         dotenv' = [dotenv EXCEPT ![file[p]] = f] /\ Go(p, t)
  BY <1>1
<1>6. f \in Content /\ Known(file[p], f, accepted, typed)
  <2>1. Empty \in Content /\ Known(file[p], Empty, accepted, typed)
    BY <1>2, Contents, KnownContents
  <2> QED
    BY <1>4, <2>1
<1>7. dotenv' \in [Envs -> Content]
  BY <1>5, <1>6 DEF SyncInv, Typed
<1>8. Held'
  <2>1. ASSUME NEW e \in Envs PROVE Known(e, dotenv'[e], accepted, typed)
    BY <1>5, <1>6 DEF SyncInv, Typed, Held
  <2> QED
    BY <1>1, <2>1 DEF SyncInv, Held, history
<1>9. t \in Runs /\ Fits(t, file[p], accepted, typed)
  <2>1. After(r) \in Runs /\ Fits(After(r), file[p], accepted, typed)
    BY <1>1, <1>2, AfterFits DEF Gives
  <2>2. Abort(r) \in Runs /\ Fits(Abort(r), file[p], accepted, typed)
    BY <1>1, <1>2, AbortFits
  <2> QED
    BY <2>1, <2>2
<1> QED
  BY <1>1, <1>5, <1>7, <1>8, <1>9, LoudStep DEF SyncInv, Typed, history

LEMMA CacheKeeps ==
    ASSUME SyncInv, NEW p \in Processes, Cache(p)
    PROVE  SyncInv'
<1> DEFINE r == run[p]
           b == IF cache[r.env] = None THEN Empty ELSE cache[r.env]
           t == [After(r) EXCEPT !.buf = b]
<1>1. /\ r.plan # <<>> /\ Head(r.plan) = "cache"
      /\ UNCHANGED <<places, active, keychainOnly, view, file, history>>
      /\ (cache[r.env] = None /\ r.key # None /\ Go(p, After(After(r)))) \/ Go(p, t)
  BY DEF Cache, At
<1>2. /\ r \in Runs /\ Fits(r, file[p], accepted, typed) /\ r.env \in Envs
      /\ file[p] \in Envs
  BY <1>1, AtStep
<1>3. /\ After(r) \in Runs /\ After(r).plan = Tail(r.plan) /\ After(r).env = r.env
      /\ After(r).envs = r.envs /\ After(r).op = r.op /\ After(r).key = r.key
      /\ After(r).kv = r.kv
  BY <1>1, <1>2, AfterRun
<1>4. b \in Content /\ Sound(r.env, b, accepted)
  BY <1>2, Contents, SoundContents DEF SyncInv, Typed, Held
<1> HIDE DEF b
<1>6. After(After(r)) \in Runs /\ Fits(After(After(r)), file[p], accepted, typed)
  BY <1>1, <1>2, SkipTwo
<1>7. t \in Runs /\ Fits(t, file[p], accepted, typed)
  <2>1. /\ t \in Runs /\ t.plan = Tail(r.plan) /\ t.env = r.env /\ t.envs = r.envs
        /\ t.op = r.op /\ t.key = r.key /\ t.kv = r.kv /\ t.buf = b
    BY <1>3, <1>4 DEF Runs
  <2> HIDE DEF t
  <2> QED
    BY <1>1, <1>2, <1>4, <2>1, StepFits DEF Gives
<1> HIDE DEF t
<1> QED
  BY <1>1, <1>6, <1>7, QuietStep DEF SyncInv, Typed, history

LEMMA PutCacheKeeps ==
    ASSUME SyncInv, NEW p \in Processes, run[p].plan # <<>>,
           Head(run[p].plan) \in {"cachew", "store"},
           NEW c \in Content, PutCache(p, c), Sound(run[p].env, c, accepted)
    PROVE  SyncInv'
<1> DEFINE r == run[p]
<1>1. /\ UNCHANGED <<cloud, keychain, dotenv, example, active, keychainOnly, view, file,
                     history>>
      /\ \/ cache' = [cache EXCEPT ![r.env] = c] /\ Go(p, After(r))
         \/ cache' = [cache EXCEPT ![r.env] = None] /\ Go(p, Missed(After(r)))
  BY DEF PutCache
<1>2. r \in Runs /\ Fits(r, file[p], accepted, typed) /\ r.env \in Envs
  BY AtStep
<1>3. PICK d \in {c, None}, t \in {After(r), Missed(After(r))} :
         cache' = [cache EXCEPT ![r.env] = d] /\ Go(p, t)
  BY <1>1
<1>4. cache' \in [Envs -> Content \union {None}]
  BY <1>3 DEF SyncInv, Typed
<1>5. Held'
  <2>1. ASSUME NEW e \in Envs, cache'[e] # None PROVE Sound(e, cache'[e], accepted)
    BY <1>3, <2>1 DEF SyncInv, Typed, Held
  <2> QED
    BY <1>1, <2>1 DEF SyncInv, Held, history
<1>6. t \in Runs /\ Fits(t, file[p], accepted, typed)
  BY <1>2, AfterFits DEF Gives
<1> QED
  BY <1>1, <1>3, <1>4, <1>5, <1>6, LoudStep DEF SyncInv, Typed, history

\* A cached copy gets what was accepted: what was read from it before, and what the
\* command has uploaded.
LEMMA CacheWriteKeeps ==
    ASSUME SyncInv, NEW p \in Processes, CacheWrite(p)
    PROVE  SyncInv'
<1> DEFINE r == run[p]
<1>1. r.plan # <<>> /\ Head(r.plan) = "cachew" /\ PutCache(p, Updated(r))
  BY DEF CacheWrite, At
<1>2. /\ r \in Runs /\ Fits(r, file[p], accepted, typed)
      /\ r.kv \in Content /\ r.buf \in Content
  BY <1>1, AtStep
<1>3. Sound(r.env, r.buf, accepted)
  BY <1>1, <1>2 DEF Fits, Filled
<1>4. Sound(r.env, Updated(r), accepted) /\ Updated(r) \in Content
  <2>1. CASE r.key # None
    BY <1>2, <1>3, <2>1, SoundContents, Contents DEF Updated
  <2>2. CASE r.key = None
    <3>1. ~ Ready(r.plan)
      <4>1. r.plan \in Seq(StepNames)
        BY <1>2 DEF Runs
      <4>2. 1 \in 1 .. Len(r.plan) /\ r.plan[1] = "cachew"
        BY <1>1, <4>1, TailOf
      <4>3. ~ \E j \in 1 .. Len(r.plan) : j < 1
        OBVIOUS
      <4> QED
        BY <4>2, <4>3 DEF Ready, Uses
    <3>2. Sound(r.env, r.kv, accepted)
      BY <1>2, <2>2, <3>1 DEF Fits, Given
    <3> QED
      BY <1>2, <1>3, <2>2, <3>2, SoundContents, Contents DEF Updated
  <2> QED
    BY <2>1, <2>2
<1> QED
  BY <1>1, <1>4, PutCacheKeeps

LEMMA StoreKeeps ==
    ASSUME SyncInv, NEW p \in Processes, Store(p)
    PROVE  SyncInv'
<1>1. run[p].plan # <<>> /\ Head(run[p].plan) = "store" /\ PutCache(p, run[p].buf)
  BY DEF Store, At
<1>2. Sound(run[p].env, run[p].buf, accepted) /\ run[p].buf \in Content
  BY <1>1, AtStep DEF Fits, Filled
<1> QED
  BY <1>1, <1>2, PutCacheKeeps

LEMMA ExampleKeeps ==
    ASSUME SyncInv, NEW p \in Processes, Example(p)
    PROVE  SyncInv'
<1> DEFINE r == run[p]
<1>1. /\ r.plan # <<>> /\ Head(r.plan) = "example"
      /\ UNCHANGED <<cloud, keychain, dotenv, cache, active, keychainOnly, view, file,
                     history>>
      /\ \/ example' = {x \in Envs \X Keys : keychain[x[1]][x[2]] # None}
         \/ example' = example
  BY DEF Example, At
<1>2. PICK t \in {After(r), Missed(After(r))} : Go(p, t)
  BY DEF Example
<1>3. t \in Runs /\ Fits(t, file[p], accepted, typed)
  BY <1>1, AtStep, AfterFits DEF Gives
<1>4. Held'
  BY <1>1 DEF SyncInv, Held, history
<1> QED
  BY <1>1, <1>2, <1>3, <1>4, LoudStep DEF SyncInv, Typed, history

\* What the cloud answers it has accepted.
LEMMA AnswerFits ==
    ASSUME SyncInv, NEW p \in Processes, run[p].plan # <<>>,
           Head(run[p].plan) \in {"list", "refresh", "fetch"}
    PROVE  LET t == [After(run[p]) EXCEPT !.buf = cloud[run[p].env]]
           IN  t \in Runs /\ Fits(t, file[p], accepted, typed)
<1> DEFINE r == run[p]
           b == cloud[r.env]
           t == [After(r) EXCEPT !.buf = b]
<1>1. /\ r \in Runs /\ Fits(r, file[p], accepted, typed) /\ r.env \in Envs
  BY AtStep
<1>2. b \in Content /\ Sound(r.env, b, accepted)
  BY <1>1 DEF SyncInv, Typed, Held
<1>3. /\ After(r) \in Runs /\ After(r).plan = Tail(r.plan) /\ After(r).env = r.env
      /\ After(r).envs = r.envs /\ After(r).op = r.op /\ After(r).key = r.key
      /\ After(r).kv = r.kv
  BY <1>1, AfterRun
<1> HIDE DEF b
<1>4. /\ t \in Runs /\ t.plan = Tail(r.plan) /\ t.env = r.env /\ t.envs = r.envs
      /\ t.op = r.op /\ t.key = r.key /\ t.kv = r.kv /\ t.buf = b
  BY <1>2, <1>3 DEF Runs
<1> HIDE DEF t
<1>5. t \in Runs /\ Fits(t, file[p], accepted, typed)
  BY <1>1, <1>2, <1>4, StepFits DEF Gives
<1> QED
  BY <1>5 DEF t, b

LEMMA ListKeeps ==
    ASSUME SyncInv, NEW p \in Processes, List(p)
    PROVE  SyncInv'
<1> DEFINE r == run[p]
           t == [Missed(After(After(r))) EXCEPT !.buf = Empty]
<1>1. /\ r.plan # <<>> /\ Head(r.plan) \in {"list", "refresh"}
      /\ UNCHANGED <<places, active, keychainOnly, view, file, history>>
      /\ \/ Go(p, [After(r) EXCEPT !.buf = cloud[r.env]])
         \/ Go(p, Abort(r))
         \/ Head(r.plan) = "refresh" /\ Go(p, t)
  BY DEF List, At
<1>2. r \in Runs /\ Fits(r, file[p], accepted, typed)
  BY <1>1, AtStep
<1>3. Abort(r) \in Runs /\ Fits(Abort(r), file[p], accepted, typed)
  BY <1>1, <1>2, AbortFits
<1>4. ASSUME Head(r.plan) = "refresh"
      PROVE  t \in Runs /\ Fits(t, file[p], accepted, typed)
  <2> DEFINE a == After(After(r))
  <2>1. /\ a \in Runs /\ a.plan = Tail(Tail(r.plan)) /\ a.env = r.env
        /\ a.envs = r.envs /\ a.op = r.op /\ a.key = r.key /\ a.kv = r.kv
    BY <1>1, <1>2, <1>4, SkipTwo
  <2> HIDE DEF a
  <2>2. Empty \in Content /\ Sound(r.env, Empty, accepted)
    BY Contents, SoundContents DEF Content, Empty
  <2>3. /\ t \in Runs /\ t.plan = Tail(Tail(r.plan)) /\ t.env = r.env
        /\ t.envs = r.envs /\ t.op = r.op /\ t.key = r.key /\ t.kv = r.kv
        /\ t.buf = Empty
    <3>1. t = [[a EXCEPT !.missed = TRUE] EXCEPT !.buf = Empty]
      BY DEF a, Missed
    <3> HIDE DEF t
    <3> QED
      BY <2>1, <2>2, <3>1 DEF Runs
  <2> HIDE DEF t
  <2> QED
    BY <1>1, <1>2, <1>4, <2>2, <2>3, SkipFits
<1>5. LET u == [After(r) EXCEPT !.buf = cloud[r.env]]
      IN  u \in Runs /\ Fits(u, file[p], accepted, typed)
  BY <1>1, AnswerFits
<1> HIDE DEF t
<1>6. PICK u \in Runs : Go(p, u) /\ Fits(u, file[p], accepted, typed)
  BY <1>1, <1>3, <1>4, <1>5
<1> QED
  BY <1>1, <1>6, QuietStep DEF SyncInv, Typed, history

LEMMA SaveKeeps ==
    ASSUME SyncInv, NEW p \in Processes, Save(p)
    PROVE  SyncInv'
<1>1. /\ run[p].plan # <<>> /\ Head(run[p].plan) = "save" /\ Go(p, After(run[p]))
      /\ UNCHANGED <<places, keychainOnly, view, file, history>>
      /\ active' \in {active, view[p]}
  BY DEF Save, At
<1>2. After(run[p]) \in Runs /\ Fits(After(run[p]), file[p], accepted, typed)
  BY <1>1, AtStep, AfterFits DEF Gives
<1> QED
  BY <1>1, <1>2, QuietStep DEF SyncInv, Typed, history

-----------------------------------------------------------------------------
(* Pull, push and delete.                                                  *)

LEMMA LocalContent ==
    ASSUME SyncInv, NEW p \in Processes
    PROVE  Local(p) \in Content
BY DEF SyncInv, Typed, Local

\* The run after a step that needs nothing and fills nothing.
LEMMA PlainFits ==
    ASSUME NEW r \in Runs, NEW t \in Runs, NEW f, NEW acc, NEW typ,
           Fits(r, f, acc, typ), r.plan # <<>>, t.plan = Tail(r.plan),
           t.env = r.env, t.envs = r.envs, t.op = r.op, t.key = r.key, t.kv = r.kv,
           Head(r.plan) \notin {"list", "refresh", "cache", "store", "env"} \union Gives
    PROVE  Fits(t, f, acc, typ)
BY StepFits

LEMMA ReadLocalKeeps ==
    ASSUME SyncInv, NEW p \in Processes, run[p].plan # <<>>, NEW r \in Runs,
           ReadLocal(p, r), Fits(r, file[p], accepted, typed)
    PROVE  SyncInv'
<1>1. Abort(run[p]) \in Runs /\ Fits(Abort(run[p]), file[p], accepted, typed)
  BY AtStep, AbortFits
<1>2. PICK t \in Runs : Go(p, t) /\ Fits(t, file[p], accepted, typed)
  BY <1>1 DEF ReadLocal
<1> QED
  BY <1>2, QuietStep DEF ReadLocal, SyncInv, Typed, history

LEMMA CompareKeeps ==
    ASSUME SyncInv, NEW p \in Processes, Compare(p)
    PROVE  SyncInv'
<1> DEFINE r == run[p]
           t == [After(r) EXCEPT !.start = Local(p)]
<1>1. r.plan # <<>> /\ Head(r.plan) = "compare" /\ ReadLocal(p, t)
  BY DEF Compare, At
<1>2. r \in Runs /\ Fits(r, file[p], accepted, typed)
  BY <1>1, AtStep
<1>3. /\ After(r) \in Runs /\ After(r).plan = Tail(r.plan) /\ After(r).env = r.env
      /\ After(r).envs = r.envs /\ After(r).op = r.op /\ After(r).key = r.key
      /\ After(r).kv = r.kv
  BY <1>1, <1>2, AfterRun
<1>4. /\ t \in Runs /\ t.plan = Tail(r.plan) /\ t.env = r.env
      /\ t.envs = r.envs /\ t.op = r.op /\ t.key = r.key /\ t.kv = r.kv
  BY <1>3, LocalContent DEF Runs
<1> HIDE DEF t
<1>5. Fits(t, file[p], accepted, typed)
  BY <1>1, <1>2, <1>4, PlainFits DEF Gives
<1> QED
  BY <1>1, <1>4, <1>5, ReadLocalKeeps

LEMMA ReadKeeps ==
    ASSUME SyncInv, NEW p \in Processes, Read(p)
    PROVE  SyncInv'
<1> DEFINE r == run[p]
           rest == IF Local(p) = Empty THEN <<>> ELSE Tail(r.plan)
           t == [r EXCEPT !.kv = Local(p), !.plan = rest]
<1>1. r.plan # <<>> /\ Head(r.plan) = "read"
  BY DEF Read, At
<1>2. r \in Runs /\ Fits(r, file[p], accepted, typed)
  BY <1>1, AtStep
<1>3. ReadLocal(p, t)
  BY <1>2 DEF Read, Runs
<1>4. rest \in Seq(StepNames)
  BY <1>1, <1>2, TailOf, EmptySeq DEF Runs
<1> HIDE DEF rest
<1>5. /\ t \in Runs /\ t.plan = rest /\ t.env = r.env /\ t.keys = r.keys
      /\ t.envs = r.envs /\ t.op = r.op /\ t.key = r.key
  BY <1>2, <1>4, LocalContent DEF Runs
<1> HIDE DEF t
<1>6. Fits(t, file[p], accepted, typed)
  <2>1. CASE rest = Tail(r.plan)
    BY <1>1, <1>2, <1>5, <2>1, StepFits
  <2>2. CASE rest = <<>>
    <3>1. EnvFits(t)
      BY <1>1, <1>2, <1>5 DEF Fits, EnvFits
    <3> QED
      BY <1>5, <2>2, <3>1, EndFits
  <2> QED
    BY <2>1, <2>2 DEF rest
<1> QED
  BY <1>1, <1>3, <1>5, <1>6, ReadLocalKeeps

LEMMA ChoosePullKeeps ==
    ASSUME SyncInv, NEW p \in Processes, ChoosePull(p)
    PROVE  SyncInv'
<1> DEFINE r == run[p]
           a == [r EXCEPT !.plan = PullPlan]
           b == [r EXCEPT !.plan = PullPlan, !.only = Removed(r), !.choice = "missing"]
<1>1. /\ r.plan # <<>> /\ r.op = "pull"
      /\ UNCHANGED <<places, active, keychainOnly, view, file, history>>
      /\ Go(p, a) \/ Go(p, b) \/ Go(p, Idle)
  BY DEF ChoosePull, At
<1>2. r \in Runs /\ Fits(r, file[p], accepted, typed) /\ r.env \in Envs
  BY <1>1, AtStep
<1>3. Removed(r) \in SUBSET Keys
  BY DEF Removed, Has
<1>4. PullPlan \in Seq(StepNames) /\ Whole(PullPlan) /\ Ready(PullPlan)
      /\ NamesNoKey(PullPlan)
  BY SetPlans DEF Whole
<1> HIDE DEF Removed
<1>5. /\ a \in Runs /\ a.plan = PullPlan /\ a.env = r.env /\ a.envs = r.envs /\ a.op = r.op
      /\ b \in Runs /\ b.plan = PullPlan /\ b.env = r.env /\ b.envs = r.envs /\ b.op = r.op
  BY <1>2, <1>3, <1>4 DEF Runs
<1> HIDE DEF a, b
<1>6. r.envs # <<>> => r.op \in {"set", "list", "diff"}
  BY <1>2 DEF Fits, EnvFits
<1>7. PICK t \in Runs : Go(p, t) /\ Fits(t, file[p], accepted, typed)
  BY <1>1, <1>2, <1>4, <1>5, <1>6, WholeFits, IdleFits
<1> QED
  BY <1>1, <1>7, QuietStep DEF SyncInv, Typed, history

LEMMA LoadKeeps ==
    ASSUME SyncInv, NEW p \in Processes, Load(p)
    PROVE  SyncInv'
<1> DEFINE r == run[p]
           kv == Only(r.buf, r.only)
           t == [After(r) EXCEPT !.kv = kv]
<1>1. /\ r.plan # <<>> /\ Head(r.plan) = "load"
      /\ UNCHANGED <<places, active, keychainOnly, view, file, history>>
      /\ Go(p, t)
  BY DEF Load, At
<1>2. r \in Runs /\ Fits(r, file[p], accepted, typed) /\ r.buf \in Content
  BY <1>1, AtStep
<1>3. Sound(r.env, r.buf, accepted)
  BY <1>1, <1>2 DEF Fits, Filled
<1>4. kv \in Content /\ Sound(r.env, kv, accepted)
  BY <1>2, <1>3, Contents, SoundContents
<1> HIDE DEF kv
<1>5. /\ After(r) \in Runs /\ After(r).plan = Tail(r.plan) /\ After(r).env = r.env
      /\ After(r).envs = r.envs /\ After(r).op = r.op /\ After(r).key = r.key
  BY <1>1, <1>2, AfterRun
<1>6. /\ t \in Runs /\ t.plan = Tail(r.plan) /\ t.env = r.env /\ t.kv = kv
      /\ t.envs = r.envs /\ t.op = r.op /\ t.key = r.key
  BY <1>4, <1>5 DEF Runs
<1> HIDE DEF t
<1>7. Fits(t, file[p], accepted, typed)
  BY <1>1, <1>2, <1>4, <1>6, StepFits
<1> QED
  BY <1>1, <1>6, <1>7, QuietStep DEF SyncInv, Typed, history

LEMMA ChoosePushKeeps ==
    ASSUME SyncInv, NEW p \in Processes, ChoosePush(p)
    PROVE  SyncInv'
<1> DEFINE r == run[p]
           a == [r EXCEPT !.plan = PushPlan]
           b == [r EXCEPT !.plan = PushPlan, !.keys = Removed(r)]
<1>1. /\ r.plan # <<>>
      /\ UNCHANGED <<places, active, keychainOnly, view, file, history>>
      /\ Go(p, a) \/ Go(p, b) \/ Go(p, Idle)
  BY DEF ChoosePush, At
<1>2. r \in Runs /\ Fits(r, file[p], accepted, typed) /\ r.env \in Envs
  BY <1>1, AtStep
<1>3. Removed(r) \in SUBSET Keys
  BY DEF Removed, Has
<1>4. PushPlan \in Seq(StepNames) /\ Whole(PushPlan) /\ Ready(PushPlan)
      /\ NamesNoKey(PushPlan)
  BY ReadingPlans DEF Whole
<1> HIDE DEF Removed
<1>5. /\ a \in Runs /\ a.plan = PushPlan /\ a.env = r.env /\ a.envs = r.envs /\ a.op = r.op
      /\ b \in Runs /\ b.plan = PushPlan /\ b.env = r.env /\ b.envs = r.envs /\ b.op = r.op
  BY <1>2, <1>3, <1>4 DEF Runs
<1> HIDE DEF a, b
<1>6. r.envs # <<>> => r.op \in {"set", "list", "diff"}
  BY <1>2 DEF Fits, EnvFits
<1>7. PICK t \in Runs : Go(p, t) /\ Fits(t, file[p], accepted, typed)
  BY <1>1, <1>2, <1>4, <1>5, <1>6, WholeFits, IdleFits
<1> QED
  BY <1>1, <1>7, QuietStep DEF SyncInv, Typed, history

\* A step about one key is taken for a key.
LEMMA KeyOfStep ==
    ASSUME SyncInv, NEW p \in Processes, run[p].plan # <<>>,
           Head(run[p].plan) \in OfOneKey
    PROVE  run[p].key \in Keys
<1> DEFINE r == run[p]
<1>1. r \in Runs /\ PlanFits(r)
  BY AtStep DEF Fits
<1>2. r.plan \in Seq(StepNames) /\ r.key \in Keys \union {None}
  BY <1>1 DEF Runs
<1>3. ~ NamesNoKey(r.plan)
  <2>1. 1 \in 1 .. Len(r.plan) /\ r.plan[1] = Head(r.plan)
    BY <1>2, TailOf
  <2> QED
    BY <2>1 DEF NamesNoKey
<1> QED
  BY <1>1, <1>2, <1>3 DEF PlanFits

LEMMA DropKeeps ==
    ASSUME SyncInv, NEW p \in Processes, Drop(p)
    PROVE  SyncInv'
<1> DEFINE r == run[p]
           lost == [cloud EXCEPT ![r.env][r.key] = None]
           t == [After(r) EXCEPT !.gone = @ \union {r.key}]
<1>1. /\ r.plan # <<>> /\ Head(r.plan) = "drop"
      /\ UNCHANGED <<keychain, dotenv, cache, example, active, keychainOnly, view,
                     file, history>>
      /\ cloud' \in {cloud, lost}
      /\ Go(p, t) \/ Go(p, Abort(r))
  BY DEF Drop, At
<1>2. r \in Runs /\ Fits(r, file[p], accepted, typed) /\ r.env \in Envs /\ r.key \in Keys
  BY <1>1, AtStep, KeyOfStep DEF OfOneKey
<1>3. /\ After(r) \in Runs /\ After(r).plan = Tail(r.plan) /\ After(r).env = r.env
      /\ After(r).envs = r.envs /\ After(r).op = r.op /\ After(r).key = r.key
      /\ After(r).kv = r.kv
  BY <1>1, <1>2, AfterRun
<1>4. /\ t \in Runs /\ t.plan = Tail(r.plan) /\ t.env = r.env
      /\ t.envs = r.envs /\ t.op = r.op /\ t.key = r.key /\ t.kv = r.kv
  BY <1>2, <1>3 DEF Runs
<1> HIDE DEF t
<1>5. PICK u \in Runs : Go(p, u) /\ Fits(u, file[p], accepted, typed)
  BY <1>1, <1>2, <1>4, PlainFits, AbortFits DEF Gives
<1>6. cloud' \in [Envs -> Content]
      /\ \A e \in Envs : Sound(e, cloud'[e], accepted)
  <2>1. CASE cloud' = cloud
    BY <2>1 DEF SyncInv, Typed, Held
  <2>2. CASE cloud' = lost
    <3>1. \A e \in Envs : cloud[e] \in Content /\ Sound(e, cloud[e], accepted)
      BY DEF SyncInv, Typed, Held
    <3>2. \A e \in Envs : [cloud[e] EXCEPT ![r.key] = None] \in Content
                          /\ Sound(e, [cloud[e] EXCEPT ![r.key] = None], accepted)
      BY <3>1, Contents, SoundContents
    <3>3. \A e \in Envs : cloud'[e] = IF e = r.env THEN [cloud[e] EXCEPT ![r.key] = None]
                                      ELSE cloud[e]
      BY <1>2, <2>2 DEF SyncInv, Typed
    <3>4. cloud' = [e \in Envs |-> cloud'[e]]
      BY <2>2 DEF SyncInv, Typed
    <3> QED
      BY <3>1, <3>2, <3>3, <3>4
  <2> QED
    BY <1>1, <2>1, <2>2
<1>7. Held'
  BY <1>1, <1>6 DEF SyncInv, Held, history
<1> QED
  BY <1>1, <1>5, <1>6, <1>7, LoudStep DEF SyncInv, Typed, history

LEMMA ForgetKeeps ==
    ASSUME SyncInv, NEW p \in Processes, Forget(p)
    PROVE  SyncInv'
<1> DEFINE r == run[p]
<1>1. /\ r.plan # <<>> /\ Head(r.plan) = "forget"
      /\ UNCHANGED <<cloud, dotenv, cache, example, active, keychainOnly, view, file,
                     history>>
      /\ keychain' \in {keychain, [keychain EXCEPT ![r.env][r.key] = None]}
  BY DEF Forget, At
<1>2. PICK t \in {After(r), Missed(After(r))} : Go(p, t)
  BY DEF Forget
<1>3. t \in Runs /\ Fits(t, file[p], accepted, typed)
  <2>1. r \in Runs /\ Fits(r, file[p], accepted, typed)
    BY <1>1, AtStep
  <2>2. r.plan # <<>> /\ Head(r.plan) = "forget"
    BY <1>1
  <2> QED
    BY <2>1, <2>2, AfterFits DEF Gives
<1>4. keychain' \in [Envs -> Content]
  <2>1. \A e \in Envs : [keychain[e] EXCEPT ![r.key] = None] \in Content
    BY Contents DEF SyncInv, Typed
  <2> QED
    BY <1>1, <2>1 DEF SyncInv, Typed
<1>5. Held'
  BY <1>1 DEF SyncInv, Held, history
<1> QED
  BY <1>1, <1>2, <1>3, <1>4, <1>5, LoudStep DEF SyncInv, Typed, history

\* The run that goes on to delete its key.
LEMMA DeletingFits ==
    ASSUME NEW r \in Runs, NEW f, NEW acc, NEW typ, r.env \in Envs, EnvFits(r),
           r.key # None,
           NEW s \in {DeletePlan, <<"exists">>, <<"refresh", "store", "found">>}
    PROVE  [r EXCEPT !.plan = s] \in Runs /\ Fits([r EXCEPT !.plan = s], f, acc, typ)
<1> DEFINE t == [r EXCEPT !.plan = s]
<1>1. Whole(s) /\ s \in Seq(StepNames)
  BY DeletingPlans DEF Whole
<1>2. /\ t \in Runs /\ t.plan = s /\ t.env = r.env /\ t.envs = r.envs /\ t.op = r.op
      /\ t.key = r.key
  BY <1>1 DEF Runs
<1> HIDE DEF t
<1>3. Fits(t, f, acc, typ)
  BY <1>1, <1>2, WholeFits DEF EnvFits
<1> QED
  BY <1>2, <1>3 DEF t

LEMMA ExistsKeeps ==
    ASSUME SyncInv, NEW p \in Processes, Exists(p)
    PROVE  SyncInv'
<1> DEFINE r == run[p]
<1>1. /\ r.plan # <<>> /\ Head(r.plan) = "exists"
      /\ UNCHANGED <<places, active, keychainOnly, view, file, history>>
      /\ \/ Go(p, [r EXCEPT !.plan = DeletePlan])
         \/ Go(p, [r EXCEPT !.plan = <<"refresh", "store", "found">>])
         \/ Go(p, Idle)
  BY DEF Exists, At
<1>2. r \in Runs /\ Fits(r, file[p], accepted, typed) /\ r.env \in Envs /\ r.key \in Keys
  BY <1>1, AtStep, KeyOfStep DEF OfOneKey
<1>3. r.key # None /\ EnvFits(r)
  BY <1>2, SyncAssumption DEF Fits
<1>4. PICK t \in Runs : Go(p, t) /\ Fits(t, file[p], accepted, typed)
  BY <1>1, <1>2, <1>3, DeletingFits, IdleFits
<1> QED
  BY <1>1, <1>4, QuietStep DEF SyncInv, Typed, history

LEMMA FoundKeeps ==
    ASSUME SyncInv, NEW p \in Processes, Found(p)
    PROVE  SyncInv'
<1> DEFINE r == run[p]
<1>1. /\ r.plan # <<>> /\ Head(r.plan) = "found"
      /\ UNCHANGED <<places, active, keychainOnly, view, file, history>>
      /\ Go(p, [r EXCEPT !.plan = DeletePlan]) \/ Go(p, Idle)
  BY DEF Found, At
<1>2. r \in Runs /\ Fits(r, file[p], accepted, typed) /\ r.env \in Envs /\ r.key \in Keys
  BY <1>1, AtStep, KeyOfStep DEF OfOneKey
<1>3. r.key # None /\ EnvFits(r)
  BY <1>2, SyncAssumption DEF Fits
<1>4. PICK t \in Runs : Go(p, t) /\ Fits(t, file[p], accepted, typed)
  BY <1>1, <1>2, <1>3, DeletingFits, IdleFits
<1> QED
  BY <1>1, <1>4, QuietStep DEF SyncInv, Typed, history

-----------------------------------------------------------------------------
(* The environment commands.                                               *)

LEMMA ConfirmKeeps ==
    ASSUME SyncInv, NEW p \in Processes, Confirm(p)
    PROVE  SyncInv'
<1> DEFINE r == run[p]
           K == Has(r.buf)
           t == [After(r) EXCEPT !.keys = K]
<1>1. /\ r.plan # <<>> /\ Head(r.plan) = "confirm"
      /\ UNCHANGED <<places, active, keychainOnly, view, file, history>>
      /\ Go(p, t) \/ Go(p, Idle)
  BY DEF Confirm, At
<1>2. r \in Runs /\ Fits(r, file[p], accepted, typed)
  BY <1>1, AtStep
<1>3. /\ After(r) \in Runs /\ After(r).plan = Tail(r.plan) /\ After(r).env = r.env
      /\ After(r).envs = r.envs /\ After(r).op = r.op /\ After(r).key = r.key
      /\ After(r).kv = r.kv
  BY <1>1, <1>2, AfterRun
<1>4. K \in SUBSET Keys
  BY DEF Has
<1> HIDE DEF K
<1>5. /\ t \in Runs /\ t.plan = Tail(r.plan) /\ t.env = r.env
      /\ t.envs = r.envs /\ t.op = r.op /\ t.key = r.key /\ t.kv = r.kv
  BY <1>3, <1>4 DEF Runs
<1> HIDE DEF t
<1>6. PICK u \in Runs : Go(p, u) /\ Fits(u, file[p], accepted, typed)
  BY <1>1, <1>2, <1>5, PlainFits, IdleFits DEF Gives
<1> QED
  BY <1>1, <1>6, QuietStep DEF SyncInv, Typed, history

LEMMA PromptKeeps ==
    ASSUME SyncInv, NEW p \in Processes, Prompt(p)
    PROVE  SyncInv'
<1> DEFINE r == run[p]
<1>1. /\ r.plan # <<>> /\ Head(r.plan) = "prompt"
      /\ UNCHANGED <<places, active, keychainOnly, view, file, history>>
      /\ (\E kv \in Content : Go(p, [After(r) EXCEPT !.kv = kv])) \/ Go(p, Idle)
  BY DEF Prompt, At
<1>2. r \in Runs /\ Fits(r, file[p], accepted, typed)
  BY <1>1, AtStep
<1>3. /\ After(r) \in Runs /\ After(r).plan = Tail(r.plan) /\ After(r).env = r.env
      /\ After(r).envs = r.envs /\ After(r).op = r.op /\ After(r).key = r.key
  BY <1>1, <1>2, AfterRun
<1>4. ASSUME NEW kv \in Content
      PROVE  LET t == [After(r) EXCEPT !.kv = kv]
             IN  t \in Runs /\ Fits(t, file[p], accepted, typed)
  <2> DEFINE t == [After(r) EXCEPT !.kv = kv]
  <2>1. /\ t \in Runs /\ t.plan = Tail(r.plan) /\ t.env = r.env
        /\ t.envs = r.envs /\ t.op = r.op /\ t.key = r.key
    BY <1>3, <1>4 DEF Runs
  <2> HIDE DEF t
  <2>2. Fits(t, file[p], accepted, typed)
    BY <1>1, <1>2, <2>1, StepFits
  <2> QED
    BY <2>1, <2>2 DEF t
<1>5. PICK u \in Runs : Go(p, u) /\ Fits(u, file[p], accepted, typed)
  BY <1>1, <1>4, IdleFits
<1> QED
  BY <1>1, <1>5, QuietStep DEF SyncInv, Typed, history

LEMMA FetchKeeps ==
    ASSUME SyncInv, NEW p \in Processes, Fetch(p)
    PROVE  SyncInv'
<1> DEFINE r == run[p]
<1>1. /\ r.plan # <<>> /\ Head(r.plan) = "fetch"
      /\ UNCHANGED <<places, active, keychainOnly, view, file, history>>
      /\ Go(p, [After(r) EXCEPT !.buf = cloud[r.env]]) \/ Go(p, Idle)
  BY DEF Fetch, At
<1>2. PICK u \in Runs : Go(p, u) /\ Fits(u, file[p], accepted, typed)
  BY <1>1, AnswerFits, IdleFits
<1> QED
  BY <1>1, <1>2, QuietStep DEF SyncInv, Typed, history

LEMMA NextEnvKeeps ==
    ASSUME SyncInv, NEW p \in Processes, NextEnv(p)
    PROVE  SyncInv'
<1> DEFINE r == run[p]
           e == Head(r.envs)
           P == EachEnvPlan(r.op)
           t == [r EXCEPT !.env = e, !.envs = Tail(@), !.where = @ \union {e}, !.plan = P]
<1>1. /\ r.envs # <<>> /\ Go(p, t)
      /\ UNCHANGED <<places, active, keychainOnly, view, file, history>>
  BY DEF NextEnv
<1>2. r \in Runs /\ Fits(r, file[p], accepted, typed)
  BY DEF SyncInv, Typed
<1>3. e \in Envs /\ Tail(r.envs) \in Seq(Envs)
  BY <1>1, <1>2, HeadTailProperties DEF Runs
<1>4. r.op \in {"set", "list", "diff"}
  BY <1>1, <1>2 DEF Fits, EnvFits
<1>5. Whole(P) /\ Ready(P) /\ NamesNoKey(P) /\ P \in Seq(StepNames)
  <2>1. P \in {SetPlan, <<"refresh", "store">>, <<"list", "store">>}
    BY <1>4 DEF EachEnvPlan
  <2> HIDE DEF P
  <2> QED
    BY <2>1, SetPlans, ReadingPlans DEF Whole
<1> HIDE DEF P, e
<1>6. /\ t \in Runs /\ t.plan = P /\ t.env = e /\ t.op = r.op
  BY <1>2, <1>3, <1>5 DEF Runs
<1> HIDE DEF t
<1>7. Fits(t, file[p], accepted, typed)
  BY <1>3, <1>4, <1>5, <1>6, WholeFits
<1> QED
  BY <1>1, <1>6, <1>7, QuietStep DEF SyncInv, Typed, history

LEMMA NextKeyKeeps ==
    ASSUME SyncInv, NEW p \in Processes, NextKey(p)
    PROVE  SyncInv'
<1> DEFINE r == run[p]
<1>1. UNCHANGED <<places, active, keychainOnly, view, file, history>>
  BY DEF NextKey
<1>2. PICK k \in r.keys :
         Go(p, [r EXCEPT !.key = k, !.keys = @ \ {k}, !.plan = DeletePlan])
  BY DEF NextKey
<1>3. r \in Runs /\ Fits(r, file[p], accepted, typed)
  BY DEF SyncInv, Typed
<1>4. k \in Keys /\ k # None /\ r.env \in Envs
  BY <1>2, <1>3, SyncAssumption DEF Runs, Fits, EnvFits
<1> DEFINE u == [r EXCEPT !.key = k, !.keys = @ \ {k}]
           t == [r EXCEPT !.key = k, !.keys = @ \ {k}, !.plan = DeletePlan]
<1>5. /\ u \in Runs /\ u.env = r.env /\ u.key = k /\ u.envs = r.envs /\ u.op = r.op
      /\ t = [u EXCEPT !.plan = DeletePlan]
  BY <1>3, <1>4 DEF Runs
<1> HIDE DEF u, t
<1>6. t \in Runs /\ Fits(t, file[p], accepted, typed)
  BY <1>3, <1>4, <1>5, DeletingFits DEF Fits, EnvFits
<1> QED
  BY <1>1, <1>2, <1>6, QuietStep DEF SyncInv, Typed, history, t

\* A command that ends, or is given up by its user.
LEMMA FinishKeeps ==
    ASSUME SyncInv, NEW p \in Processes, Go(p, Idle),
           UNCHANGED <<places, active, keychainOnly, view, file, history>>
    PROVE  SyncInv'
BY IdleFits, QuietStep DEF SyncInv, Typed, history

-----------------------------------------------------------------------------
(* Commands.                                                               *)

\* A process starts the run r, perhaps for another environment.
LEMMA StartKeeps ==
    ASSUME SyncInv, NEW p \in Processes, NEW r \in Runs, Started(p, r),
           active' \in Envs, NEW v \in Envs, view' = [view EXCEPT ![p] = v],
           file' \in {file, [file EXCEPT ![p] = active]},
           \A f \in Envs : Fits(r, f, accepted, typed)
    PROVE  SyncInv'
<1>1. file' \in [Processes -> Envs] /\ \A q \in Processes : q # p => file'[q] = file[q]
  BY DEF SyncInv, Typed
<1>2. view' \in [Processes -> Envs]
  BY DEF SyncInv, Typed
<1>3. Fits(r, file'[p], accepted, typed)
  BY <1>1
<1> QED
  BY <1>1, <1>2, <1>3, QuietStep DEF Started, history

\* The runs of commands that start with a plan.
LEMMA CommandFits ==
    ASSUME NEW op \in Ops, NEW env \in Envs, NEW plan, Whole(plan)
    PROVE  /\ Command(op, env, plan) \in Runs
           /\ Command(op, env, plan).op = op /\ Command(op, env, plan).env = env
           /\ Command(op, env, plan).plan = plan /\ Command(op, env, plan).envs = <<>>
           /\ Ready(plan) /\ NamesNoKey(plan) =>
                 \A f, acc, typ : Fits(Command(op, env, plan), f, acc, typ)
<1> DEFINE r == Command(op, env, plan)
<1>1. Idle \in Runs /\ plan \in Seq(StepNames) /\ Idle.envs = <<>>
  BY IdleFits DEF Whole, Idle
<1>2. /\ r \in Runs /\ r.op = op /\ r.env = env /\ r.plan = plan /\ r.envs = <<>>
  <2> HIDE DEF Idle
  <2> QED
    BY <1>1 DEF Command, Runs
<1> HIDE DEF r
<1>3. ASSUME Ready(plan) /\ NamesNoKey(plan), NEW f, NEW acc, NEW typ
      PROVE  Fits(r, f, acc, typ)
  BY <1>2, <1>3, WholeFits
<1> QED
  BY <1>2, <1>3 DEF r

\* Those about one key.
LEMMA KeyCommandFits ==
    ASSUME NEW env \in Envs, NEW k \in Keys, NEW f, NEW acc, NEW typ,
           NEW s \in {DeletePlan, <<"exists">>}
    PROVE  LET r == [Command("delete", env, s) EXCEPT !.key = k]
           IN  r \in Runs /\ Fits(r, f, acc, typ)
<1> DEFINE c == Command("delete", env, s)
           r == [c EXCEPT !.key = k]
<1>1. Whole(s) /\ "delete" \in Ops /\ k # None
  BY DeletingPlans, SyncAssumption DEF Ops
<1>2. c \in Runs /\ c.op = "delete" /\ c.env = env /\ c.plan = s /\ c.envs = <<>>
  BY <1>1, CommandFits
<1> HIDE DEF c
<1>3. /\ r \in Runs /\ r.op = "delete" /\ r.env = env /\ r.plan = s /\ r.envs = <<>>
      /\ r.key = k
  BY <1>2 DEF Runs
<1> HIDE DEF r
<1>4. Fits(r, f, acc, typ)
  BY <1>1, <1>3, WholeFits
<1> QED
  BY <1>3, <1>4 DEF r, c

LEMMA CLIKeeps ==
    ASSUME SyncInv, NEW p \in Processes, NEW r \in Runs, CLI(p, r),
           \A f \in Envs : Fits(r, f, accepted, typed)
    PROVE  SyncInv'
<1>1. active \in Envs /\ active' = active
  BY DEF SyncInv, Typed, CLI
<1>2. view' = [view EXCEPT ![p] = active] /\ file' = [file EXCEPT ![p] = active]
  BY DEF CLI
<1> QED
  BY <1>1, <1>2, StartKeeps DEF CLI

LEMMA SetKeeps ==
    ASSUME SyncInv, NEW p \in Processes, Set(p)
    PROVE  SyncInv'
<1>1. PICK kv \in Batches \ {Empty}, all \in BOOLEAN :
         CLI(p, [Idle EXCEPT !.op = "set", !.kv = kv,
                             !.envs = IF all THEN Environments ELSE <<active>>])
  BY DEF Set
<1> DEFINE es == IF all THEN Environments ELSE <<active>>
           r == [Idle EXCEPT !.op = "set", !.kv = kv, !.envs = es]
<1>2. es \in Seq(Envs) /\ kv \in Content
  BY SyncAssumption DEF SyncInv, Typed
<1>3. Idle \in Runs /\ Idle.plan = <<>> /\ Idle.keys = {}
  BY IdleFits DEF Idle
<1> HIDE DEF es
<1>4. r \in Runs /\ r.plan = <<>> /\ r.op = "set" /\ r.keys = {}
  <2> HIDE DEF Idle
  <2> QED
    BY <1>2, <1>3 DEF Runs, Ops
<1> HIDE DEF r
<1>5. \A f \in Envs : Fits(r, f, accepted, typed)
  BY <1>4, EndFits DEF EnvFits
<1> QED
  BY <1>1, <1>4, <1>5, CLIKeeps DEF r, es

LEMMA CopyKeeps ==
    ASSUME SyncInv, NEW p \in Processes, Copy(p)
    PROVE  SyncInv'
<1>1. PICK from \in Envs, to \in Envs :
         CLI(p, [Idle EXCEPT !.op = "set", !.env = from, !.envs = <<to>>,
                             !.plan = <<"fetch", "prompt">>])
  BY DEF Copy
<1> DEFINE s == <<"fetch", "prompt">>
           es == <<to>>
           r == [Idle EXCEPT !.op = "set", !.env = from, !.envs = es, !.plan = s]
<1>2. Whole(s) /\ Ready(s) /\ NamesNoKey(s) /\ s \in Seq(StepNames)
  BY ReadingPlans DEF Whole
<1>3. Idle \in Runs /\ es \in Seq(Envs)
  BY IdleFits
<1> HIDE DEF s, es
<1>4. r \in Runs /\ r.plan = s /\ r.op = "set" /\ r.env = from
  <2> HIDE DEF Idle
  <2> QED
    BY <1>2, <1>3 DEF Runs, Ops
<1> HIDE DEF r
<1>5. \A f \in Envs : Fits(r, f, accepted, typed)
  BY <1>2, <1>4, WholeFits
<1> QED
  BY <1>1, <1>4, <1>5, CLIKeeps DEF r, s, es

LEMMA ListRemoteKeeps ==
    ASSUME SyncInv, NEW p \in Processes, NEW op \in {"list", "diff"}, NEW es \in Seq(Envs),
           CLI(p, [Idle EXCEPT !.op = op, !.envs = es])
    PROVE  SyncInv'
<1> DEFINE r == [Idle EXCEPT !.op = op, !.envs = es]
<1>1. Idle \in Runs /\ Idle.plan = <<>> /\ Idle.keys = {}
  BY IdleFits DEF Idle
<1>2. r \in Runs /\ r.plan = <<>> /\ r.op = op /\ r.keys = {}
  <2> HIDE DEF Idle
  <2> QED
    BY <1>1 DEF Runs, Ops
<1> HIDE DEF r
<1>3. \A f \in Envs : Fits(r, f, accepted, typed)
  BY <1>2, EndFits DEF EnvFits
<1> QED
  BY <1>2, <1>3, CLIKeeps DEF r

LEMMA CommandsKeep ==
    ASSUME SyncInv, NEW p \in Processes, NEW op \in Ops, NEW env \in Envs,
           NEW plan \in {DiffPlan, <<"list", "store", "confirm">>, <<"compare">>,
                         <<"compare", "list", "store">>},
           CLI(p, Command(op, env, plan))
    PROVE  SyncInv'
BY ReadingPlans, CommandFits, CLIKeeps

LEMMA DeleteKeeps ==
    ASSUME SyncInv, NEW p \in Processes, Delete(p)
    PROVE  SyncInv'
<1>1. PICK k \in Keys :
         CLI(p, [Command("delete", active, <<"exists">>) EXCEPT !.key = k])
  BY DEF Delete
<1> QED
  BY <1>1, KeyCommandFits, CLIKeeps DEF SyncInv, Typed

LEMMA StatusKeeps ==
    ASSUME SyncInv, NEW p \in Processes, Status(p)
    PROVE  SyncInv'
<1> DEFINE r == Command("status", active, <<"compare", "list", "store">>)
<1>1. CLI(p, r) \/ CLI(p, [r EXCEPT !.plan = <<"compare">>])
  BY DEF Status
<1>2. [r EXCEPT !.plan = <<"compare">>] = Command("status", active, <<"compare">>)
  BY DEF Command, Idle
<1> QED
  BY <1>1, <1>2, CommandsKeep DEF SyncInv, Typed, Ops

LEMMA DiffKeeps ==
    ASSUME SyncInv, NEW p \in Processes, Diff(p)
    PROVE  SyncInv'
<1>1. PICK from \in Envs \union {None}, to \in Envs :
         CLI(p, IF from = None THEN Command("status", to, <<"compare", "list", "store">>)
                ELSE [Idle EXCEPT !.op = "diff", !.envs = <<from, to>>])
  BY DEF Diff
<1>2. CASE from = None
  BY <1>1, <1>2, CommandsKeep DEF Ops
<1>3. CASE from # None
  <2>1. <<from, to>> \in Seq(Envs)
    BY <1>3
  <2> QED
    BY <1>1, <1>3, <2>1, ListRemoteKeeps
<1> QED
  BY <1>2, <1>3

LEMMA RequestKeeps ==
    ASSUME SyncInv, NEW p \in Processes, NEW e \in Envs, NEW r \in Runs, Request(p, e, r),
           \A f \in Envs : Fits(r, f, accepted, typed)
    PROVE  SyncInv'
<1>1. active' \in Envs /\ Started(p, r)
  BY DEF SyncInv, Typed, Request
<1>2. view' = [view EXCEPT ![p] = e] /\ file' = file
  BY DEF Request
<1> QED
  BY <1>1, <1>2, StartKeeps

LEMMA PullSecretsKeeps ==
    ASSUME SyncInv, NEW p \in Processes, PullSecrets(p)
    PROVE  SyncInv'
<1>1. PICK e \in Envs : Request(p, e, Command("pull", e, PullPlan))
  BY DEF PullSecrets
<1> QED
  BY <1>1, SetPlans, CommandFits, RequestKeeps DEF Ops

LEMMA RotateKeyKeeps ==
    ASSUME SyncInv, NEW p \in Processes, RotateKey(p)
    PROVE  SyncInv'
<1>1. PICK e \in Envs, k \in Keys :
         Request(p, e, [Command("delete", e, DeletePlan) EXCEPT !.key = k])
  BY DEF RotateKey
<1> QED
  BY <1>1, KeyCommandFits, RequestKeeps

\* A process that changes what it will look at next, while it runs nothing.
LEMMA TurnKeeps ==
    ASSUME SyncInv, NEW p \in Processes, run[p] = Idle, run' = run,
           UNCHANGED <<places, keychainOnly, history>>, active' \in Envs,
           view' \in [Processes -> Envs], file' \in [Processes -> Envs],
           \A q \in Processes : q # p => file'[q] = file[q]
    PROVE  SyncInv'
<1>1. Typed'
  BY DEF SyncInv, Typed, places, history
<1>2. Held'
  BY DEF SyncInv, Held, places, history
<1>3. ASSUME NEW q \in Processes
      PROVE  Fits(run[q], file'[q], accepted, typed)
  BY IdleFits DEF SyncInv
<1> QED
  BY <1>1, <1>2, <1>3 DEF SyncInv, history

LEMMA StartsKeep ==
    ASSUME SyncInv, NEW p \in Processes, Start(p)
    PROVE  SyncInv'
<1> USE DEF Start
<1>1. CASE Set(p) \/ Copy(p)
  BY <1>1, SetKeeps, CopyKeeps
<1>2. CASE Pull(p) \/ Push(p) \/ Clean(p)
  BY <1>2, CommandsKeep DEF Pull, Push, Clean, SyncInv, Typed, Ops
<1>3. CASE Delete(p) \/ Status(p) \/ Diff(p)
  BY <1>3, DeleteKeeps, StatusKeeps, DiffKeeps
<1>4. CASE ListRemote(p)
  BY <1>4, ListRemoteKeeps, SyncAssumption DEF ListRemote
<1>5. CASE PullSecrets(p) \/ RotateKey(p)
  BY <1>5, PullSecretsKeeps, RotateKeyKeeps
<1>6. CASE Switch(p)
  BY <1>6, TurnKeeps DEF Switch, SyncInv, Typed
<1>7. CASE SwitchEnvironment(p)
  <2>1. PICK e \in Envs : active' = e /\ view' = [view EXCEPT ![p] = e]
    BY <1>7 DEF SwitchEnvironment
  <2> QED
    BY <1>7, <2>1, TurnKeeps DEF SwitchEnvironment, SyncInv, Typed
<1> QED
  BY <1>1, <1>2, <1>3, <1>4, <1>5, <1>6, <1>7

-----------------------------------------------------------------------------
(* Around them.                                                            *)

\* Other people's changes leave the runs as they are.
LEMMA DisturbedFit ==
    ASSUME SyncInv, run' = [q \in Processes |-> Disturbed(q)], file' = file,
           accepted \subseteq accepted', typed \subseteq typed'
    PROVE  /\ run' \in [Processes -> Runs]
           /\ \A q \in Processes : Fits(run'[q], file'[q], accepted', typed')
<1>1. ASSUME NEW q \in Processes
      PROVE  Disturbed(q) \in Runs /\ Fits(Disturbed(q), file[q], accepted', typed')
  <2>1. run[q] \in Runs /\ Fits(run[q], file[q], accepted, typed)
    BY DEF SyncInv, Typed
  <2> QED
    BY <2>1, FitsForLong DEF Disturbed
<1> QED
  BY <1>1

LEMMA TeammateKeeps ==
    ASSUME SyncInv, Teammate
    PROVE  SyncInv'
<1>1. PICK e \in Envs, k \in Keys, new \in Values \union {None} :
         /\ cloud' = [cloud EXCEPT ![e][k] = new]
         /\ accepted' = accepted \union ({<<e, k, new>>} \intersect Triples)
  BY DEF Teammate
<1>2. /\ UNCHANGED <<keychain, dotenv, cache, example, active, keychainOnly, view, file,
                    typed>>
      /\ run' = [q \in Processes |-> Disturbed(q)]
  BY DEF Teammate
<1>3. cloud' \in [Envs -> Content]
  <2>1. cloud[e] \in [Keys -> Values \union {None}]
    BY DEF SyncInv, Typed, Content
  <2>2. [cloud[e] EXCEPT ![k] = new] \in Content
    BY <2>1 DEF Content
  <2> QED
    BY <1>1, <2>2 DEF SyncInv, Typed
<1>4. Typed'
  <2>1. accepted' \subseteq Triples
    BY <1>1 DEF SyncInv, Typed
  <2>2. run' \in [Processes -> Runs]
    BY <1>1, <1>2, DisturbedFit
  <2> QED
    BY <1>2, <1>3, <2>1, <2>2 DEF SyncInv, Typed
<1>5. Held'
  <2>1. ASSUME NEW d \in Envs, NEW j \in Keys, cloud'[d][j] # None
        PROVE  <<d, j, cloud'[d][j]>> \in accepted'
    <3>1. cloud[d] \in [Keys -> Values \union {None}] /\ cloud[d][j] # None
             => <<d, j, cloud[d][j]>> \in accepted
      BY DEF SyncInv, Typed, Held, Sound
    <3>2. cloud[e] \in [Keys -> Values \union {None}]
          /\ cloud[d] \in [Keys -> Values \union {None}]
      BY DEF SyncInv, Typed, Content
    <3>3. cloud'[d][j] = IF d = e /\ j = k THEN new ELSE cloud[d][j]
      BY <1>1, <3>2 DEF SyncInv, Typed
    <3>4. cloud[d][j] # None => <<d, j, cloud[d][j]>> \in accepted
      BY DEF SyncInv, Held, Sound
    <3>5. new # None => <<e, k, new>> \in Triples
      BY DEF Triples
    <3> QED
      BY <1>1, <2>1, <3>3, <3>4, <3>5
  <2>2. \A d \in Envs : Sound(d, cloud'[d], accepted')
    BY <2>1 DEF Sound
  <2> QED
    BY <1>1, <1>2, <2>2 DEF SyncInv, Held, Sound, Known
<1> QED
  BY <1>1, <1>2, <1>4, <1>5, DisturbedFit DEF SyncInv

LEMMA EditKeeps ==
    ASSUME SyncInv, Edit
    PROVE  SyncInv'
<1>1. PICK e \in Envs, k \in Keys, new \in Values \union {None} :
         /\ dotenv' = [dotenv EXCEPT ![e][k] = new]
         /\ typed' = typed \union ({<<e, k, new>>} \intersect Triples)
  BY DEF Edit
<1>2. /\ UNCHANGED <<cloud, keychain, cache, example, active, keychainOnly, view, file,
                    accepted>>
      /\ run' = [q \in Processes |-> Disturbed(q)]
  BY DEF Edit
<1>3. dotenv' \in [Envs -> Content]
  <2>1. dotenv[e] \in [Keys -> Values \union {None}]
    BY DEF SyncInv, Typed, Content
  <2>2. [dotenv[e] EXCEPT ![k] = new] \in Content
    BY <2>1 DEF Content
  <2> QED
    BY <1>1, <2>2 DEF SyncInv, Typed
<1>4. Typed'
  <2>1. typed' \subseteq Triples
    BY <1>1 DEF SyncInv, Typed
  <2>2. run' \in [Processes -> Runs]
    BY <1>1, <1>2, DisturbedFit
  <2> QED
    BY <1>2, <1>3, <2>1, <2>2 DEF SyncInv, Typed
<1>5. Held'
  <2>1. ASSUME NEW d \in Envs, NEW j \in Keys, dotenv'[d][j] # None
        PROVE  \/ <<d, j, dotenv'[d][j]>> \in typed'
               \/ \E other \in Envs : <<other, j, dotenv'[d][j]>> \in accepted
    <3>2. dotenv[e] \in [Keys -> Values \union {None}]
          /\ dotenv[d] \in [Keys -> Values \union {None}]
      BY DEF SyncInv, Typed, Content
    <3>3. dotenv'[d][j] = IF d = e /\ j = k THEN new ELSE dotenv[d][j]
      BY <1>1, <3>2 DEF SyncInv, Typed
    <3>4. dotenv[d][j] # None =>
             \/ <<d, j, dotenv[d][j]>> \in typed
             \/ \E other \in Envs : <<other, j, dotenv[d][j]>> \in accepted
      BY DEF SyncInv, Held, Known
    <3>5. new # None => <<e, k, new>> \in Triples
      BY DEF Triples
    <3> QED
      BY <1>1, <2>1, <3>3, <3>4, <3>5
  <2>2. \A d \in Envs : Known(d, dotenv'[d], accepted, typed')
    BY <2>1 DEF Known
  <2> QED
    BY <1>1, <1>2, <2>2 DEF SyncInv, Held
<1> QED
  BY <1>1, <1>2, <1>4, <1>5, DisturbedFit DEF SyncInv

-----------------------------------------------------------------------------
(* The theorems.                                                           *)

LEMMA StepKeeps ==
    ASSUME SyncInv, NEW p \in Processes, Step(p)
    PROVE  SyncInv'
<1>1. CASE Keychain(p) \/ Upload(p) \/ Env(p) \/ EnvWrite(p) \/ Cache(p)
  BY <1>1, KeychainKeeps, UploadKeeps, EnvKeeps, EnvWriteKeeps, CacheKeeps
<1>2. CASE CacheWrite(p) \/ Example(p) \/ List(p) \/ Store(p) \/ Save(p)
  BY <1>2, CacheWriteKeeps, ExampleKeeps, ListKeeps, StoreKeeps, SaveKeeps
<1>3. CASE Compare(p) \/ ChoosePull(p) \/ Load(p) \/ ChoosePush(p) \/ Read(p)
  BY <1>3, CompareKeeps, ChoosePullKeeps, LoadKeeps, ChoosePushKeeps, ReadKeeps
<1>4. CASE Drop(p) \/ Forget(p) \/ Exists(p) \/ Found(p)
  BY <1>4, DropKeeps, ForgetKeeps, ExistsKeeps, FoundKeeps
<1>5. CASE Confirm(p) \/ Prompt(p) \/ Fetch(p) \/ NextEnv(p) \/ NextKey(p)
  BY <1>5, ConfirmKeeps, PromptKeeps, FetchKeeps, NextEnvKeeps, NextKeyKeeps
<1>6. CASE Finish(p)
  BY <1>6, FinishKeeps DEF Finish
<1> QED
  BY <1>1, <1>2, <1>3, <1>4, <1>5, <1>6 DEF Step

\* Whatever the processes do, what the cached copies and the .env files hold, and what
\* is on its way there, has been accepted or typed.
THEOREM SyncInvariant == Spec => []SyncInv
<1>1. Init => SyncInv
  <2> SUFFICES ASSUME Init PROVE SyncInv
    OBVIOUS
  <2>1. active \in Envs
    BY SyncAssumption, LenProperties, EmptySeq DEF Init, Envs
  <2>2. /\ cloud \in [Envs -> Content] /\ Empty \in Content
        /\ run \in [Processes -> Runs]
    BY SyncAssumption, IdleFits, Contents DEF Init, Content, Empty
  <2>3. Typed
    BY <2>1, <2>2 DEF Init, Typed
  <2>4. Held
    <3>1. \A e \in Envs, k \in Keys : cloud[e][k] # None => <<e, k, cloud[e][k]>> \in Triples
      BY <2>2 DEF Content, Triples
    <3>2. \A e \in Envs : Sound(e, cloud[e], accepted)
      BY <3>1 DEF Init, Sound
    <3> QED
      BY <3>2 DEF Init, Held, Known, Empty
  <2> QED
    BY <2>3, <2>4, IdleFits DEF SyncInv, Init
<1>2. SyncInv /\ [Next]_vars => SyncInv'
  <2> SUFFICES ASSUME SyncInv, [Next]_vars PROVE SyncInv'
    OBVIOUS
  <2>1. CASE \E p \in Processes : Step(p) \/ Start(p)
    BY <2>1, StepKeeps, StartsKeep
  <2>2. ASSUME NEW p \in Processes, Kill(p) PROVE SyncInv'
    BY <2>2, FinishKeeps DEF Kill
  <2>3. ASSUME NEW p \in Processes, StartServer(p) PROVE SyncInv'
    BY <2>3, TurnKeeps DEF StartServer, SyncInv, Typed
  <2>4. CASE Teammate \/ Edit
    BY <2>4, TeammateKeeps, EditKeeps
  <2>5. CASE UNCHANGED vars
    BY <2>5 DEF SyncInv, Typed, Held, vars, places, history
  <2> QED
    BY <2>1, <2>2, <2>3, <2>4, <2>5 DEF Next
<1> QED
  BY <1>1, <1>2, PTL DEF Spec

\* secrets.go:69-88: the cached copy of an environment holds only what the cloud once
\* accepted there, a .env file only what was typed or accepted.
THEOREM CloudAcceptsFirst == Spec => []AcceptedFirst
<1>1. SyncInv => AcceptedFirst
  BY DEF SyncInv, Held, Sound, Known, AcceptedFirst
<1> QED
  BY <1>1, SyncInvariant, PTL

\* A step counts at most one command and one event, and not beyond the bounds.
Counted ==
    /\ commands' = commands \/ (commands < MaxCommands /\ commands' = commands + 1)
    /\ events' = events \/ (events < MaxEvents /\ events' = events + 1)

LEMMA StepCounts ==
    ASSUME NEW p \in Processes, Step(p)
    PROVE  Counted
<1> USE DEF Counted, Fault, NoFault
<1>1. ASSUME NEW c, PutCache(p, c) PROVE Counted
  BY <1>1 DEF PutCache
<1>2. ASSUME NEW r, ReadLocal(p, r) PROVE Counted
  BY <1>2 DEF ReadLocal
<1>3. CASE Keychain(p) \/ Upload(p) \/ Env(p) \/ EnvWrite(p) \/ Cache(p)
  BY <1>3 DEF Keychain, Upload, Env, EnvWrite, Cache, counters
<1>4. CASE CacheWrite(p) \/ Store(p) \/ Compare(p) \/ Read(p)
  BY <1>1, <1>2, <1>4 DEF CacheWrite, Store, Compare, Read
<1>5. CASE Example(p) \/ List(p) \/ Save(p) \/ Load(p)
  BY <1>5 DEF Example, List, Save, Load, counters
<1>6. CASE ChoosePull(p) \/ ChoosePush(p) \/ Drop(p) \/ Forget(p) \/ Exists(p)
  BY <1>6 DEF ChoosePull, ChoosePush, Drop, Forget, Exists, counters
<1>7. CASE Found(p) \/ Confirm(p) \/ Prompt(p) \/ Fetch(p)
  BY <1>7 DEF Found, Confirm, Prompt, Fetch, counters
<1>8. CASE NextEnv(p) \/ NextKey(p) \/ Finish(p)
  BY <1>8 DEF NextEnv, NextKey, Finish, counters
<1> QED
  BY <1>3, <1>4, <1>5, <1>6, <1>7, <1>8 DEF Step

LEMMA StartCounts ==
    ASSUME NEW p \in Processes, Start(p)
    PROVE  Counted
<1> USE DEF Counted
<1>1. ASSUME NEW r, CLI(p, r) PROVE Counted
  BY <1>1 DEF CLI, Started
<1>2. ASSUME NEW e, NEW r, Request(p, e, r) PROVE Counted
  BY <1>2 DEF Request, Started
<1>3. CASE Set(p) \/ Copy(p) \/ Pull(p) \/ Push(p) \/ Delete(p) \/ Clean(p)
  BY <1>1, <1>3 DEF Set, Copy, Pull, Push, Delete, Clean
<1>4. CASE ListRemote(p) \/ Status(p) \/ Diff(p)
  BY <1>1, <1>4 DEF ListRemote, Status, Diff
<1>5. CASE PullSecrets(p) \/ RotateKey(p)
  BY <1>2, <1>5 DEF PullSecrets, RotateKey
<1>6. CASE Switch(p) \/ SwitchEnvironment(p)
  BY <1>6 DEF Switch, SwitchEnvironment
<1> QED
  BY <1>3, <1>4, <1>5, <1>6 DEF Start

LEMMA CountsInvariant == Spec => []CountsTyped
<1>1. Init => CountsTyped
  BY SyncAssumption DEF Init, CountsTyped
<1>2. CountsTyped /\ [Next]_vars => CountsTyped'
  <2> SUFFICES ASSUME CountsTyped, [Next]_vars PROVE CountsTyped'
    OBVIOUS
  <2>1. Counted
    <3>1. CASE \E p \in Processes : Step(p) \/ Start(p)
      BY <3>1, StepCounts, StartCounts
    <3>2. CASE \E p \in Processes : Kill(p) \/ StartServer(p)
      BY <3>2 DEF Kill, StartServer, Fault, Counted
    <3>3. CASE Teammate \/ Edit
      BY <3>3 DEF Teammate, Edit, Fault, Counted
    <3>4. CASE UNCHANGED vars
      BY <3>4 DEF vars, counters, Counted
    <3> QED
      BY <3>1, <3>2, <3>3, <3>4 DEF Next
  <2> QED
    BY <2>1, SyncAssumption DEF Counted, CountsTyped
<1> QED
  BY <1>1, <1>2, PTL DEF Spec

\* Every variable keeps its type: every environment, key and value that a step reads
\* from a run is one, whatever command the run belongs to.
THEOREM TypeCorrect == Spec => []TypeOK
<1>1. SyncInv /\ CountsTyped => TypeOK
  <2> SUFFICES ASSUME SyncInv, CountsTyped PROVE TypeOK
    OBVIOUS
  <2>1. ASSUME NEW p \in Processes
        PROVE  /\ DOMAIN run[p] = DOMAIN Idle
               /\ run[p].op \in Ops /\ run[p].env \in Envs \union {None}
               /\ {run[p].kv, run[p].buf, run[p].start} \subseteq Content
               /\ run[p].key \in Keys \union {None}
               /\ run[p].keys \union run[p].only \union run[p].gone \subseteq Keys
               /\ run[p].where \subseteq Envs
    <3>1. run[p] \in Runs /\ Idle \in Runs
      BY IdleFits DEF SyncInv, Typed
    <3>2. DOMAIN run[p] = DOMAIN Idle
      <4> HIDE DEF Idle
      <4> QED
        BY <3>1 DEF Runs
    <3> QED
      BY <3>1, <3>2 DEF Runs
  <2> QED
    BY <2>1 DEF SyncInv, Typed, CountsTyped, TypeOK
<1> QED
  BY <1>1, SyncInvariant, CountsInvariant, PTL

-----------------------------------------------------------------------------
(* Commands that have the places to themselves.                            *)
(*                                                                         *)
(* Such a command owes the places what is left of its plan, and nothing    *)
(* else: where no step to come writes a place, the place has the value.    *)
(* Nobody else need be considered, as whatever another process, a teammate *)
(* or an editor does ends the claim (alone becomes FALSE).                 *)

\* The steps of a plan, whose order WellOrdered and Planned fix.
Left(s) == {s[i] : i \in 1 .. Len(s)}

\* Commands that name no key and may go on to another environment.
Plain == {"idle", "set", "list", "diff"}
\* What looks before a command decides, and what changes or loads something.
Asking == {"choose", "confirm", "prompt", "exists", "found"}
Changing == {"keychain", "upload", "env", "envw", "cachew", "drop", "forget", "load",
             "read", "example"}

\* What comes later in every plan with the step x; what looks at the places first comes
\* first, what asks comes last, and no upload or deletion follows the answer of a list.
Needs(x) ==
    CASE x \in {"keychain", "forget"} -> {"example"}
      [] x = "drop" -> {"envw", "forget", "cachew", "example"}
      [] x = "load" -> {"keychain", "envw", "example"}
      [] x = "read" -> {"keychain", "upload", "store", "example"}
      [] OTHER -> {}
Later(s, i) == {s[j] : j \in (i + 1) .. Len(s)}
Planned(s) ==
    \A i \in 1 .. Len(s) :
       /\ Needs(s[i]) \subseteq Later(s, i)
       /\ s[i] \in {"read", "compare"} => i = 1
       /\ s[i] \in Asking => i = Len(s)
       /\ s[i] = "store" => Later(s, i) \intersect {"upload", "drop"} = {}

\* How a command stands that works through the steps L.
Stands(r, L) ==
    /\ L \intersect Asking # {} => L \intersect Changing = {}
    /\ r.op \in Plain =>
          r.key = None /\ r.keys = {} /\ L \intersect {"choose", "confirm", "load", "read"} = {}
    /\ r.op \notin Plain => r.where = {r.env} /\ "prompt" \notin L
    /\ r.op \in {"list", "diff"} => r.kv = Empty /\ "prompt" \notin L
    /\ "prompt" \in L => r.where = {}
    /\ r.where = {} /\ r.op # "idle" => r.envs # <<>>
    /\ r.key = None => r.gone = {}
    /\ L \intersect {"keychain", "upload", "load", "read", "choose", "confirm"} # {}
          => r.key = None
    /\ L \intersect {"load", "choose", "confirm"} # {} => r.keys = {}
    /\ L \intersect {"choose", "confirm"} # {} => r.kv = Empty /\ r.choice = "all"
    /\ Has(r.kv) \intersect (r.keys \union r.gone \union {r.key}) = {}
Shaped(r) == Planned(r.plan) /\ Stands(r, Left(r.plan))

\* The keys a command sets or has deleted.
About(r) == Has(r.kv) \union r.gone
\* The steps that are still to come for one key in one environment.
Pending(r, e, k) ==
    IF e = r.env /\ (r.key = None \/ k = r.key) THEN Left(r.plan) ELSE {}

\* The places that none of the steps L writes hold v.
Reaches(p, e, k, v, L) ==
    /\ L \intersect {"upload", "drop"} = {} => cloud[e][k] = v
    /\ L \intersect {"keychain", "forget"} = {} => keychain[e][k] = v
    /\ "envw" \notin L => keychainOnly \/ dotenv[file[p]][k] = v
    /\ L \intersect {"cachew", "store"} = {} => cache[e] = None \/ cache[e][k] = v
Spread(p) ==
    \A e \in run[p].where, k \in About(run[p]) :
       Reaches(p, e, k, run[p].kv[k], Pending(run[p], e, k))

\* .env.example follows the keychain once the step "example" is done.
Existing == {x \in Envs \X Keys : keychain[x[1]][x[2]] # None}
Noted(p) ==
    run[p].where # {} /\ About(run[p]) # {} /\ "example" \notin Left(run[p].plan) =>
       example = Existing

\* What was read last is what is still there.
Buffered(p) ==
    LET r == run[p]
    IN r.plan # <<>> =>
       /\ Head(r.plan) = "envw" => r.buf = dotenv[file[p]]
       /\ Head(r.plan) = "cachew" =>
             \/ cache[r.env] # None /\ r.buf = cache[r.env]
             \/ cache[r.env] = None /\ r.buf = Empty /\ r.key = None
       /\ Head(r.plan) \in {"store", "load"} => r.buf = cloud[r.env]
       /\ Head(r.plan) = "load" => cache[r.env] = r.buf

\* A choice, and the read of a push, is about the local values that were compared.
Chosen(p) ==
    LET r == run[p]
    IN /\ Left(r.plan) \intersect {"choose", "read"} # {} /\ "compare" \notin Left(r.plan)
             => r.start = Local(p)
       /\ "read" \in Left(r.plan) => r.keys \intersect Has(r.start) = {}

\* A pull of what is missing loads none of the keys there were, and decides no more.
Wins(p) ==
    LET r == run[p]
    IN r.choice = "missing" =>
          /\ Left(r.plan) \intersect (Asking \union {"compare", "read"}) = {}
          /\ r.keys = {} /\ r.key = None
          /\ Has(r.start) \intersect r.only = {} /\ Has(r.kv) \intersect Has(r.start) = {}
          /\ \A k \in Has(r.start) : Local(p)[k] = r.start[k]

Tracks(p) ==
    Shaped(run[p]) /\ Spread(p) /\ Noted(p) /\ Buffered(p) /\ Chosen(p) /\ Wins(p)
Tracked == \A p \in Processes : run[p].alone /\ ~run[p].missed => Tracks(p)

-----------------------------------------------------------------------------
(* What is left of a plan.                                                 *)

LEMMA LeftOf ==
    ASSUME NEW s \in Seq(StepNames), s # <<>>
    PROVE  /\ Left(s) = {Head(s)} \union Left(Tail(s))
           /\ Head(s) \in Left(s) /\ Left(Tail(s)) \subseteq Left(s)
<1> DEFINE t == Tail(s)
<1>1. /\ Head(s) = s[1] /\ Len(s) \in Nat /\ Len(s) >= 1 /\ Len(t) = Len(s) - 1
      /\ \A i \in 1 .. Len(t) : t[i] = s[i + 1]
  BY TailOf
<1> HIDE DEF t
<1>2. 1 \in 1 .. Len(s)
  BY <1>1
<1>3. ASSUME NEW i \in 1 .. Len(t) PROVE i + 1 \in 1 .. Len(s) /\ t[i] = s[i + 1]
  BY <1>1
<1>4. ASSUME NEW i \in 1 .. Len(s), i # 1 PROVE i - 1 \in 1 .. Len(t) /\ t[i - 1] = s[i]
  BY <1>1, <1>4
<1>5. Left(t) \subseteq Left(s)
  BY <1>3 DEF Left
<1>6. Left(s) \subseteq {s[1]} \union Left(t)
  BY <1>4 DEF Left
<1> QED
  BY <1>1, <1>2, <1>5, <1>6 DEF Left, t

LEMMA NothingLeft == Left(<<>>) = {}
BY DEF Left

LEMMA PlannedTail ==
    ASSUME NEW s \in Seq(StepNames), s # <<>>, Planned(s)
    PROVE  /\ Planned(Tail(s))
           /\ Needs(Head(s)) \subseteq Left(Tail(s))
           /\ "read" \notin Left(Tail(s)) /\ "compare" \notin Left(Tail(s))
           /\ Head(s) \in Asking => Tail(s) = <<>>
           /\ Head(s) = "store" => Left(Tail(s)) \intersect {"upload", "drop"} = {}
<1> DEFINE t == Tail(s)
<1>1. /\ Head(s) = s[1] /\ Len(s) \in Nat /\ Len(s) >= 1 /\ Len(t) = Len(s) - 1
      /\ \A i \in 1 .. Len(t) : t[i] = s[i + 1]
  BY TailOf
<1> HIDE DEF t
<1>2. ASSUME NEW i \in 0 .. Len(t)
      PROVE  Later(s, i + 1) = Later(t, i)
  <2>1. ASSUME NEW j \in (i + 1 + 1) .. Len(s)
        PROVE  j - 1 \in (i + 1) .. Len(t) /\ s[j] = t[j - 1]
    BY <1>1
  <2>2. ASSUME NEW j \in (i + 1) .. Len(t)
        PROVE  j + 1 \in (i + 1 + 1) .. Len(s) /\ t[j] = s[j + 1]
    BY <1>1
  <2>3. Later(s, i + 1) \subseteq Later(t, i)
    BY <2>1 DEF Later
  <2>4. Later(t, i) \subseteq Later(s, i + 1)
    BY <2>2 DEF Later
  <2> QED
    BY <2>3, <2>4
<1>3. Later(s, 1) = Left(t)
  <2>1. 0 \in 0 .. Len(t) /\ 0 + 1 = 1
    BY <1>1
  <2>2. Later(s, 1) = Later(t, 0)
    BY <1>2, <2>1
  <2>3. Later(t, 0) = Left(t)
    BY <2>1 DEF Later, Left
  <2> QED
    BY <2>2, <2>3
<1>4. ASSUME NEW i \in 1 .. Len(t)
      PROVE  /\ Needs(t[i]) \subseteq Later(t, i)
             /\ t[i] \notin {"read", "compare"}
             /\ t[i] \in Asking => i = Len(t)
             /\ t[i] = "store" => Later(t, i) \intersect {"upload", "drop"} = {}
  <2>1. i + 1 \in 1 .. Len(s) /\ i + 1 # 1 /\ i \in 0 .. Len(t) /\ t[i] = s[i + 1]
    BY <1>1
  <2>2. Later(s, i + 1) = Later(t, i)
    BY <1>2, <2>1
  <2> QED
    BY <1>1, <2>1, <2>2 DEF Planned
<1>5. 1 \in 1 .. Len(s)
  BY <1>1
<1>6. /\ Needs(s[1]) \subseteq Left(t)
      /\ s[1] = "store" => Left(t) \intersect {"upload", "drop"} = {}
  BY <1>3, <1>5 DEF Planned
<1>7. Planned(t) /\ "read" \notin Left(t) /\ "compare" \notin Left(t)
  BY <1>4 DEF Planned, Left
<1>8. s[1] \in Asking => t = <<>>
  <2>1. s[1] \in Asking => Len(s) = 1
    BY <1>5 DEF Planned
  <2>2. t \in Seq(StepNames)
    BY TailOf DEF t
  <2> QED
    BY <1>1, <2>1, <2>2, EmptySeq
<1> QED
  BY <1>1, <1>6, <1>7, <1>8 DEF t

\* The steps of each plan, and that each is followed by what it needs.
LEMMA PlansAreLeft ==
    /\ Left(SetPlan) = {"keychain", "upload", "env", "envw", "cache", "cachew", "example"}
    /\ Left(PullPlan) = {"list", "store", "load", "keychain", "env", "envw", "save", "example"}
    /\ Left(PushPlan) = {"read", "keychain", "upload", "save", "example", "refresh", "store"}
    /\ Left(DeletePlan) = {"drop", "env", "envw", "forget", "cache", "cachew", "example"}
    /\ Left(DiffPlan) = {"compare", "list", "store", "choose"}
    /\ Left(<<"exists">>) = {"exists"}
    /\ Left(<<"refresh", "store", "found">>) = {"refresh", "store", "found"}
    /\ Left(<<"fetch", "prompt">>) = {"fetch", "prompt"}
    /\ Left(<<"list", "store", "confirm">>) = {"list", "store", "confirm"}
    /\ Left(<<"compare", "list", "store">>) = {"compare", "list", "store"}
    /\ Left(<<"compare">>) = {"compare"}
    /\ Left(<<"list", "store">>) = {"list", "store"}
    /\ Left(<<"refresh", "store">>) = {"refresh", "store"}
<1>1. Left(SetPlan) = {"keychain", "upload", "env", "envw", "cache", "cachew", "example"}
  <2>1. /\ Len(SetPlan) = 7 /\ SetPlan[1] = "keychain" /\ SetPlan[2] = "upload"
        /\ SetPlan[3] = "env" /\ SetPlan[4] = "envw" /\ SetPlan[5] = "cache"
        /\ SetPlan[6] = "cachew" /\ SetPlan[7] = "example"
    BY DEF SetPlan
  <2>2. \A i \in 1 .. 7 : i = 1 \/ i = 2 \/ i = 3 \/ i = 4 \/ i = 5 \/ i = 6 \/ i = 7
    OBVIOUS
  <2> QED
    BY <2>1, <2>2 DEF Left
<1>2. Left(PullPlan) = {"list", "store", "load", "keychain", "env", "envw", "save", "example"}
  <2>1. /\ Len(PullPlan) = 8 /\ PullPlan[1] = "list" /\ PullPlan[2] = "store"
        /\ PullPlan[3] = "load" /\ PullPlan[4] = "keychain" /\ PullPlan[5] = "env"
        /\ PullPlan[6] = "envw" /\ PullPlan[7] = "save" /\ PullPlan[8] = "example"
    BY DEF PullPlan
  <2>2. \A i \in 1 .. 8 : i = 1 \/ i = 2 \/ i = 3 \/ i = 4 \/ i = 5 \/ i = 6 \/ i = 7 \/ i = 8
    OBVIOUS
  <2> QED
    BY <2>1, <2>2 DEF Left
<1>3. Left(PushPlan) = {"read", "keychain", "upload", "save", "example", "refresh", "store"}
  <2>1. /\ Len(PushPlan) = 7 /\ PushPlan[1] = "read" /\ PushPlan[2] = "keychain"
        /\ PushPlan[3] = "upload" /\ PushPlan[4] = "save" /\ PushPlan[5] = "example"
        /\ PushPlan[6] = "refresh" /\ PushPlan[7] = "store"
    BY DEF PushPlan
  <2>2. \A i \in 1 .. 7 : i = 1 \/ i = 2 \/ i = 3 \/ i = 4 \/ i = 5 \/ i = 6 \/ i = 7
    OBVIOUS
  <2> QED
    BY <2>1, <2>2 DEF Left
<1>4. Left(DeletePlan) = {"drop", "env", "envw", "forget", "cache", "cachew", "example"}
  <2>1. /\ Len(DeletePlan) = 7 /\ DeletePlan[1] = "drop" /\ DeletePlan[2] = "env"
        /\ DeletePlan[3] = "envw" /\ DeletePlan[4] = "forget" /\ DeletePlan[5] = "cache"
        /\ DeletePlan[6] = "cachew" /\ DeletePlan[7] = "example"
    BY DEF DeletePlan
  <2>2. \A i \in 1 .. 7 : i = 1 \/ i = 2 \/ i = 3 \/ i = 4 \/ i = 5 \/ i = 6 \/ i = 7
    OBVIOUS
  <2> QED
    BY <2>1, <2>2 DEF Left
<1>5. Left(DiffPlan) = {"compare", "list", "store", "choose"}
  <2>1. /\ Len(DiffPlan) = 4 /\ DiffPlan[1] = "compare" /\ DiffPlan[2] = "list"
        /\ DiffPlan[3] = "store" /\ DiffPlan[4] = "choose"
    BY DEF DiffPlan
  <2>2. \A i \in 1 .. 4 : i = 1 \/ i = 2 \/ i = 3 \/ i = 4
    OBVIOUS
  <2> QED
    BY <2>1, <2>2 DEF Left
<1>6. Left(<<"exists">>) = {"exists"}
  BY DEF Left
<1>7. Left(<<"refresh", "store", "found">>) = {"refresh", "store", "found"}
  BY DEF Left
<1>8. Left(<<"fetch", "prompt">>) = {"fetch", "prompt"}
  BY DEF Left
<1>9. Left(<<"list", "store", "confirm">>) = {"list", "store", "confirm"}
  BY DEF Left
<1>10. Left(<<"compare", "list", "store">>) = {"compare", "list", "store"}
  BY DEF Left
<1>11. Left(<<"compare">>) = {"compare"}
  BY DEF Left
<1>12. Left(<<"list", "store">>) = {"list", "store"}
  BY DEF Left
<1>13. Left(<<"refresh", "store">>) = {"refresh", "store"}
  BY DEF Left
<1> QED
  BY <1>1, <1>2, <1>3, <1>4, <1>5, <1>6, <1>7, <1>8, <1>9, <1>10, <1>11, <1>12, <1>13

LEMMA PlansArePlanned ==
    /\ Planned(<<>>)
    /\ Planned(SetPlan) /\ Planned(PullPlan) /\ Planned(PushPlan)
    /\ Planned(DeletePlan) /\ Planned(DiffPlan)
    /\ \A s \in {<<"exists">>, <<"refresh", "store", "found">>, <<"fetch", "prompt">>,
                  <<"list", "store", "confirm">>, <<"compare", "list", "store">>,
                  <<"compare">>, <<"list", "store">>, <<"refresh", "store">>} : Planned(s)
<1>1. Planned(SetPlan)
  BY DEF Planned, Later, Needs, Asking, SetPlan
<1>2. Planned(PullPlan)
  BY DEF Planned, Later, Needs, Asking, PullPlan
<1>3. Planned(PushPlan)
  BY DEF Planned, Later, Needs, Asking, PushPlan
<1>4. Planned(DeletePlan)
  BY DEF Planned, Later, Needs, Asking, DeletePlan
<1>5. Planned(DiffPlan)
  BY DEF Planned, Later, Needs, Asking, DiffPlan
<1>6. Planned(<<>>) /\ Planned(<<"exists">>) /\ Planned(<<"compare">>)
  BY DEF Planned, Later, Needs, Asking
<1>7. /\ Planned(<<"fetch", "prompt">>)
      /\ Planned(<<"list", "store">>) /\ Planned(<<"refresh", "store">>)
  BY DEF Planned, Later, Needs, Asking
<1>8. Planned(<<"list", "store", "confirm">>) /\ Planned(<<"compare", "list", "store">>)
  BY DEF Planned, Later, Needs, Asking
<1>9. Planned(<<"refresh", "store", "found">>)
  BY DEF Planned, Later, Needs, Asking
<1> QED
  BY <1>1, <1>2, <1>3, <1>4, <1>5, <1>6, <1>7, <1>8, <1>9

-----------------------------------------------------------------------------
(* A step of a command that has the places to itself.                      *)

\* The runs r and t differ only in the plan and in what was read last.
Alike(t, r) ==
    /\ t.op = r.op /\ t.env = r.env /\ t.envs = r.envs /\ t.keys = r.keys
    /\ t.kv = r.kv /\ t.key = r.key /\ t.start = r.start /\ t.only = r.only
    /\ t.choice = r.choice /\ t.where = r.where /\ t.gone = r.gone

LEMMA FewerStand ==
    ASSUME NEW r, NEW t, Alike(t, r), NEW L, NEW M, M \subseteq L, Stands(r, L)
    PROVE  Stands(t, M)
BY DEF Alike, Stands

\* The step from r to t neither disturbs the run nor misses anything.
Goes(t, r) == Alike(t, r) /\ t.alone = r.alone /\ t.missed = r.missed

LEMMA AfterGoes ==
    ASSUME NEW r \in Runs, r.plan # <<>>, NEW b
    PROVE  /\ Goes(After(r), r) /\ Goes([After(r) EXCEPT !.buf = b], r)
           /\ After(r).plan = Tail(r.plan) /\ [After(r) EXCEPT !.buf = b].plan = Tail(r.plan)
           /\ [After(r) EXCEPT !.buf = b].buf = b /\ After(r).buf = r.buf
           /\ Goes(After(After(r)), r) /\ After(After(r)).plan = Tail(Tail(r.plan))
           /\ Missed(After(r)).missed /\ Abort(r).missed
BY DEF After, Goes, Alike, Runs, Missed, Abort

\* What the later steps, the decisions and "local wins" rely on stays so when nothing
\* local changes that they look at.
LEMMA AdvanceTracks ==
    ASSUME SyncInv, NEW p \in Processes, Tracks(p), run[p].plan # <<>>,
           \/ run'[p].plan = Tail(run[p].plan)
           \/ run'[p].plan = Tail(Tail(run[p].plan)) /\ Tail(run[p].plan) # <<>>,
           Alike(run'[p], run[p]), Head(run[p].plan) # "compare",
           Local(p)' = Local(p) \/ Head(run[p].plan) \in Changing,
           run[p].key = None =>
              \A k \in Keys : k \notin Has(run[p].kv) => Local(p)'[k] = Local(p)[k],
           Spread(p)', Noted(p)', Buffered(p)'
    PROVE  Tracks(p)'
<1> DEFINE r == run[p]
           t == run'[p]
           L == Left(r.plan)
           M == Left(t.plan)
<1>1. r \in Runs /\ r.plan \in Seq(StepNames) /\ Planned(r.plan) /\ Stands(r, L)
  BY AtStep DEF Runs, Tracks, Shaped
<1>2. /\ Planned(Tail(r.plan)) /\ Tail(r.plan) \in Seq(StepNames)
      /\ Left(Tail(r.plan)) \subseteq L /\ L = {Head(r.plan)} \union Left(Tail(r.plan))
      /\ "read" \notin Left(Tail(r.plan)) /\ "compare" \notin Left(Tail(r.plan))
  BY <1>1, LeftOf, PlannedTail, TailOf
<1>3. /\ Planned(t.plan) /\ M \subseteq L
      /\ "read" \notin M /\ "compare" \notin M
  <2>1. CASE t.plan = Tail(r.plan)
    BY <1>2, <2>1
  <2>2. CASE t.plan = Tail(Tail(r.plan)) /\ Tail(r.plan) # <<>>
    <3>1. /\ Planned(Tail(Tail(r.plan)))
          /\ Left(Tail(Tail(r.plan))) \subseteq Left(Tail(r.plan))
      BY <1>2, <2>2, LeftOf, PlannedTail
    <3> QED
      BY <1>2, <2>2, <3>1
  <2> QED
    BY <2>1, <2>2
<1>4. Stands(t, M)
  BY <1>1, <1>3, FewerStand
<1>5. Shaped(t)
  BY <1>3, <1>4 DEF Shaped
<1>6. t.start = r.start /\ t.keys = r.keys /\ t.key = r.key /\ t.choice = r.choice
      /\ t.kv = r.kv /\ t.only = r.only
  BY DEF Alike
<1>7. Chosen(p)'
  <2>1. ASSUME "choose" \in M PROVE t.start = Local(p)'
    <3>1. "choose" \in L /\ "compare" \notin L /\ r.start = Local(p)
      BY <1>2, <1>3, <2>1 DEF Tracks, Chosen
    <3>2. L \intersect Changing = {}
      BY <1>1, <3>1 DEF Stands, Asking
    <3> QED
      BY <1>2, <1>6, <3>1, <3>2
  <2> QED
    BY <1>3, <2>1 DEF Chosen
<1>8. Wins(p)'
  <2>1. ASSUME t.choice = "missing"
        PROVE  /\ M \intersect (Asking \union {"compare", "read"}) = {}
               /\ t.keys = {} /\ t.key = None
               /\ Has(t.start) \intersect t.only = {} /\ Has(t.kv) \intersect Has(t.start) = {}
               /\ \A k \in Has(t.start) : Local(p)'[k] = t.start[k]
    <3>1. /\ L \intersect (Asking \union {"compare", "read"}) = {}
          /\ r.keys = {} /\ r.key = None
          /\ Has(r.start) \intersect r.only = {} /\ Has(r.kv) \intersect Has(r.start) = {}
          /\ \A k \in Has(r.start) : Local(p)[k] = r.start[k]
      BY <1>6, <2>1 DEF Tracks, Wins
    <3>2. \A k \in Has(r.start) : k \in Keys /\ k \notin Has(r.kv)
      BY <3>1 DEF Has
    <3> QED
      BY <1>3, <1>6, <3>1, <3>2
  <2> QED
    BY <2>1 DEF Wins, Has
<1> QED
  BY <1>5, <1>7, <1>8 DEF Tracks

\* D: the steps done or left out.
Since(t, r, D) == Alike(t, r) /\ Left(r.plan) \subseteq D \union Left(t.plan)

LEMMA PendingSince ==
    ASSUME NEW r, NEW t, NEW D, Since(t, r, D), NEW e, NEW k
    PROVE  /\ Pending(r, e, k) \subseteq D \union Pending(t, e, k)
           /\ About(t) = About(r) /\ t.where = r.where /\ t.kv[k] = r.kv[k]
           /\ e # r.env => Pending(r, e, k) = {} /\ Pending(t, e, k) = {}
BY DEF Since, Alike, Pending, About

\* Reads, and writes that are left out for good reason, reach no place.
LEMMA QuietSpread ==
    ASSUME NEW p \in Processes, Tracks(p), NEW D, Since(run'[p], run[p], D),
           D \intersect {"upload", "drop", "keychain", "forget", "store"} = {},
           "envw" \in D => keychainOnly, "cachew" \in D => cache[run[p].env] = None,
           UNCHANGED <<cloud, keychain, dotenv, cache, keychainOnly, file>>
    PROVE  Spread(p)'
<1>0. PICK r, t : r = run[p] /\ t = run'[p]
  OBVIOUS
<1> SUFFICES ASSUME NEW e \in t.where, NEW k \in About(t)
             PROVE  Reaches(p, e, k, t.kv[k], Pending(t, e, k))'
  BY <1>0 DEF Spread
<1>1. /\ Pending(r, e, k) \subseteq D \union Pending(t, e, k)
      /\ About(t) = About(r) /\ t.where = r.where /\ t.kv[k] = r.kv[k]
      /\ e # r.env => Pending(r, e, k) = {} /\ Pending(t, e, k) = {}
  BY <1>0, PendingSince
<1>2. Reaches(p, e, k, r.kv[k], Pending(r, e, k))
  BY <1>0, <1>1 DEF Tracks, Spread
<1> QED
  BY <1>0, <1>1, <1>2 DEF Reaches

LEMMA QuietNoted ==
    ASSUME NEW p \in Processes, Tracks(p), NEW D, Since(run'[p], run[p], D),
           "example" \notin D, UNCHANGED <<keychain, example>>
    PROVE  Noted(p)'
BY DEF Tracks, Noted, Since, Alike, About, Existing

\* Only a read fills what the next step writes.
LEMMA QuietBuffered ==
    ASSUME SyncInv, NEW p \in Processes, run[p].plan # <<>>,
           \/ /\ run'[p].plan = Tail(run[p].plan)
              /\ Head(run[p].plan) \notin {"env", "cache", "list", "refresh", "store"}
           \/ /\ run'[p].plan = Tail(Tail(run[p].plan))
              /\ Head(run[p].plan) \in {"env", "cache"}
    PROVE  Buffered(p)'
<1> DEFINE s == run[p].plan
<1>1. s \in Seq(StepNames) /\ WellOrdered(s) /\ Tail(s) \in Seq(StepNames)
  BY AtStep, TailOf DEF Runs, Fits, PlanFits
<1>2. CASE run'[p].plan = Tail(s) /\ Head(s) \notin {"env", "cache", "list", "refresh", "store"}
  <2>1. Tail(s) # <<>> => Head(Tail(s)) \notin {"envw", "cachew", "store", "load"}
    BY <1>1, <1>2, NextStep
  <2> QED
    BY <1>2, <2>1 DEF Buffered
<1>3. CASE run'[p].plan = Tail(Tail(s)) /\ Head(s) \in {"env", "cache"}
  <2>1. Tail(s) # <<>> /\ Head(Tail(s)) \in {"envw", "cachew"} /\ WellOrdered(Tail(s))
    BY <1>1, <1>3, ReadIsFollowed, TailIsWellOrdered
  <2>2. Tail(Tail(s)) # <<>> => Head(Tail(Tail(s))) \notin {"envw", "cachew", "store", "load"}
    BY <1>1, <2>1, NextStep
  <2> QED
    BY <1>3, <2>2 DEF Buffered
<1> QED
  BY <1>2, <1>3

\* An idle process is in no one's way.
LEMMA IdleShaped == Shaped(Idle)
<1>1. /\ Idle.plan = <<>> /\ Idle.op = "idle" /\ Idle.key = None /\ Idle.keys = {}
      /\ Idle.kv = Empty /\ Idle.gone = {} /\ Has(Empty) = {}
  BY DEF Idle, Has, Empty
<1> QED
  BY <1>1, NothingLeft, PlansArePlanned DEF Shaped, Stands, Plain

LEMMA IdleTracks ==
    ASSUME NEW p
    PROVE  /\ run[p] = Idle => Tracks(p)
           /\ run'[p] = Idle => Tracks(p)'
<1>1. /\ Idle.plan = <<>> /\ Idle.where = {} /\ Idle.choice = "all"
  BY DEF Idle
<1>2. Left(Idle.plan) = {}
  BY <1>1, NothingLeft
<1>3. run[p] = Idle => Tracks(p)
  <2> HIDE DEF Idle
  <2> QED
    BY <1>1, <1>2, IdleShaped DEF Tracks, Spread, Noted, Buffered, Chosen, Wins
<1>4. run'[p] = Idle => Tracks(p)'
  <2> HIDE DEF Idle
  <2> QED
    BY <1>1, <1>2, IdleShaped DEF Tracks, Spread, Noted, Buffered, Chosen, Wins
<1> QED
  BY <1>3, <1>4

\* Who still is alone was so before, and has not begun to miss anything.
LEMMA OthersTrack ==
    ASSUME SyncInv, Tracked, NEW p \in Processes, NEW t, Go(p, t),
           t.alone /\ ~t.missed => Tracks(p)'
    PROVE  Tracked'
<1> SUFFICES ASSUME NEW q \in Processes, run'[q].alone, ~run'[q].missed
             PROVE  Tracks(q)'
  BY DEF Tracked
<1>1. run'[q] = IF q = p THEN t ELSE Disturbed(q)
  BY DEF Go
<1>2. CASE q = p
  BY <1>1, <1>2
<1>3. CASE q # p
  <2>1. run[q] \in Runs
    BY DEF SyncInv, Typed
  <2>2. run'[q] = Idle
    BY <1>1, <1>3, <2>1 DEF Disturbed, Runs
  <2> QED
    BY <2>2, IdleTracks
<1> QED
  BY <1>2, <1>3

\* Nor does one that was cut short or has ignored a failure count.
LEMMA MissedTracks ==
    ASSUME SyncInv, Tracked, NEW p \in Processes, NEW t, Go(p, t), t.missed \/ t = Idle
    PROVE  Tracked'
<1>1. run'[p] = t
  BY DEF Go
<1> QED
  BY <1>1, OthersTrack, IdleTracks

\* So all that a step has to show is that it reaches what it no longer has to do.
LEMMA AdvanceKeeps ==
    ASSUME SyncInv, Tracked, NEW p \in Processes, NEW t, Go(p, t), Goes(t, run[p]),
           run[p].plan # <<>>, Head(run[p].plan) # "compare",
           \/ t.plan = Tail(run[p].plan)
           \/ t.plan = Tail(Tail(run[p].plan)) /\ Tail(run[p].plan) # <<>>,
           \/ Local(p)' = Local(p)
           \/ /\ Head(run[p].plan) \in Changing
              /\ run[p].key = None =>
                    \A k \in Keys : k \notin Has(run[p].kv) => Local(p)'[k] = Local(p)[k],
           Tracks(p) /\ run'[p] = t => Spread(p)' /\ Noted(p)' /\ Buffered(p)'
    PROVE  Tracked'
<1>1. run'[p] = t
  BY DEF Go
<1>2. SUFFICES ASSUME t.alone, ~t.missed PROVE Tracks(p)'
  BY OthersTrack
<1>3. Tracks(p)
  BY <1>2 DEF Tracked, Goes
<1>4. Spread(p)' /\ Noted(p)' /\ Buffered(p)'
  BY <1>1, <1>3
<1>5. Alike(run'[p], run[p])
  BY <1>1 DEF Goes
<1>6. /\ Local(p)' = Local(p) \/ Head(run[p].plan) \in Changing
      /\ run[p].key = None =>
            \A k \in Keys : k \notin Has(run[p].kv) => Local(p)'[k] = Local(p)[k]
  OBVIOUS
<1>7. \/ run'[p].plan = Tail(run[p].plan)
      \/ run'[p].plan = Tail(Tail(run[p].plan)) /\ Tail(run[p].plan) # <<>>
  BY <1>1
<1> QED
  BY <1>1, <1>3, <1>4, <1>5, <1>6, <1>7, AdvanceTracks

\* The steps of a plan that are done, or left out.
LEMMA StepsDone ==
    ASSUME NEW s \in Seq(StepNames), s # <<>>
    PROVE  /\ Left(s) \subseteq {Head(s)} \union Left(Tail(s))
           /\ Tail(s) # <<>> =>
                 Left(s) \subseteq {Head(s), Head(Tail(s))} \union Left(Tail(Tail(s)))
<1>1. Left(s) = {Head(s)} \union Left(Tail(s)) /\ Tail(s) \in Seq(StepNames)
  BY LeftOf, TailOf
<1>2. Tail(s) # <<>> => Left(Tail(s)) = {Head(Tail(s))} \union Left(Tail(Tail(s)))
  BY <1>1, LeftOf
<1> QED
  BY <1>1, <1>2

\* Requests that only read, and project.json.
LEMMA QuietKeeps ==
    ASSUME SyncInv, Tracked, NEW p \in Processes, NEW t, Go(p, t), Goes(t, run[p]),
           run[p].plan # <<>>, t.plan = Tail(run[p].plan),
           Head(run[p].plan) \in {"env", "cache", "list", "refresh", "save", "fetch"},
           UNCHANGED <<places, keychainOnly, view, file>>,
           run'[p] = t => Buffered(p)'
    PROVE  Tracked'
<1>1. Left(run[p].plan) \subseteq {Head(run[p].plan)} \union Left(t.plan)
  BY StepsDone, AtStep DEF Runs
<1>2. Since(t, run[p], {Head(run[p].plan)})
  BY <1>1 DEF Since, Goes
<1>3. Local(p)' = Local(p)
  BY DEF Local, places
<1>4. ASSUME Tracks(p), run'[p] = t PROVE Spread(p)' /\ Noted(p)'
  <2> DEFINE D == {Head(run[p].plan)}
  <2>1. D \intersect {"upload", "drop", "keychain", "forget", "store", "envw", "cachew",
                      "example"} = {}
    OBVIOUS
  <2>2. Since(run'[p], run[p], D)
    BY <1>2, <1>4
  <2> HIDE DEF D
  <2> QED
    BY <1>4, <2>1, <2>2, QuietSpread, QuietNoted DEF places
<1> QED
  BY <1>3, <1>4, AdvanceKeeps

-----------------------------------------------------------------------------
(* The steps.                                                              *)

LEMMA EnvTracks ==
    ASSUME SyncInv, Tracked, NEW p \in Processes, Env(p)
    PROVE  Tracked'
<1> DEFINE r == run[p]
<1>1. /\ r \in Runs /\ r.plan # <<>> /\ Head(r.plan) = "env" /\ r.plan \in Seq(StepNames)
      /\ UNCHANGED <<places, keychainOnly, view, file>>
      /\ WellOrdered(r.plan)
  BY AtStep DEF Env, At, Runs, Fits, PlanFits
<1>2. CASE ~keychainOnly
  <2> DEFINE t == [After(r) EXCEPT !.buf = dotenv[file[p]]]
  <2>1. Go(p, t)
    BY <1>2 DEF Env
  <2>2. Goes(t, r) /\ t.plan = Tail(r.plan) /\ t.buf = dotenv[file[p]]
    BY <1>1, AfterGoes
  <2>3. Tail(r.plan) # <<>> => Head(Tail(r.plan)) \notin {"cachew", "store", "load"}
    BY <1>1, NextStep
  <2>4. ASSUME run'[p] = t PROVE Buffered(p)'
    BY <1>1, <2>2, <2>3, <2>4 DEF Buffered, places
  <2> HIDE DEF t
  <2> QED
    BY <1>1, <2>1, <2>2, <2>4, QuietKeeps
<1>3. CASE keychainOnly
  <2> DEFINE t == After(After(r))
             D == {"env", "envw"}
  <2>1. Go(p, t)
    BY <1>3 DEF Env
  <2>2. Goes(t, r) /\ t.plan = Tail(Tail(r.plan))
    BY <1>1, AfterGoes
  <2>3. Tail(r.plan) # <<>> /\ Head(Tail(r.plan)) = "envw"
    <3>1. Tail(r.plan) # <<>> /\ Head(Tail(r.plan)) \in {"envw", "cachew", "store"}
      BY <1>1, ReadIsFollowed
    <3> QED
      BY <1>1, <3>1, NextStep
  <2>4. Since(t, r, D)
    BY <1>1, <2>2, <2>3, StepsDone DEF Since, Goes
  <2>5. ASSUME Tracks(p), run'[p] = t PROVE Spread(p)' /\ Noted(p)' /\ Buffered(p)'
    <3>1. Since(run'[p], run[p], D)
      BY <2>4, <2>5
    <3>2. D \intersect {"upload", "drop", "keychain", "forget", "store", "cachew", "example"} = {}
      OBVIOUS
    <3>3. Buffered(p)'
      BY <1>1, <2>2, <2>5, QuietBuffered
    <3> HIDE DEF D, r, t
    <3> QED
      BY <1>1, <1>3, <2>5, <3>1, <3>2, <3>3, QuietSpread, QuietNoted DEF places
  <2>6. Local(p)' = Local(p)
    BY <1>1 DEF Local, places
  <2> HIDE DEF t
  <2> QED
    BY <1>1, <2>1, <2>2, <2>3, <2>5, <2>6, AdvanceKeeps
<1> QED
  BY <1>2, <1>3

LEMMA CacheTracks ==
    ASSUME SyncInv, Tracked, NEW p \in Processes, Cache(p)
    PROVE  Tracked'
<1> DEFINE r == run[p]
           old == cache[r.env]
           b == IF old = None THEN Empty ELSE old
<1>1. /\ r \in Runs /\ r.plan # <<>> /\ Head(r.plan) = "cache" /\ r.plan \in Seq(StepNames)
      /\ UNCHANGED <<places, keychainOnly, view, file>>
      /\ WellOrdered(r.plan)
  BY AtStep DEF Cache, At, Runs, Fits, PlanFits
<1>2. CASE ~(old = None /\ r.key # None)
  <2> DEFINE t == [After(r) EXCEPT !.buf = b]
  <2>1. Go(p, t)
    BY <1>2 DEF Cache
  <2>2. Goes(t, r) /\ t.plan = Tail(r.plan) /\ t.buf = b
    <3> HIDE DEF b
    <3> QED
      BY <1>1, AfterGoes
  <2>3. Tail(r.plan) # <<>> => Head(Tail(r.plan)) \notin {"envw", "store", "load"}
    BY <1>1, NextStep
  <2>4. ASSUME run'[p] = t PROVE Buffered(p)'
    <3>1. t.env = r.env /\ t.key = r.key
      BY <2>2 DEF Goes, Alike
    <3> QED
      BY <1>1, <1>2, <2>2, <2>3, <2>4, <3>1 DEF Buffered, places
  <2> HIDE DEF t
  <2> QED
    BY <1>1, <2>1, <2>2, <2>4, QuietKeeps
<1>3. CASE old = None /\ r.key # None
  <2> DEFINE t == After(After(r))
             D == {"cache", "cachew"}
  <2>1. Go(p, t)
    BY <1>3 DEF Cache
  <2>2. Goes(t, r) /\ t.plan = Tail(Tail(r.plan))
    BY <1>1, AfterGoes
  <2>3. Tail(r.plan) # <<>> /\ Head(Tail(r.plan)) = "cachew"
    <3>1. Tail(r.plan) # <<>> /\ Head(Tail(r.plan)) \in {"envw", "cachew", "store"}
      BY <1>1, ReadIsFollowed
    <3> QED
      BY <1>1, <3>1, NextStep
  <2>4. Since(t, r, D)
    BY <1>1, <2>2, <2>3, StepsDone DEF Since, Goes
  <2>5. ASSUME Tracks(p), run'[p] = t PROVE Spread(p)' /\ Noted(p)' /\ Buffered(p)'
    <3>1. Since(run'[p], run[p], D)
      BY <2>4, <2>5
    <3>2. D \intersect {"upload", "drop", "keychain", "forget", "store", "envw", "example"} = {}
      OBVIOUS
    <3>3. Buffered(p)'
      BY <1>1, <2>2, <2>5, QuietBuffered
    <3>4. cache[run[p].env] = None
      BY <1>3
    <3> HIDE DEF D, r, t
    <3> QED
      BY <1>1, <2>5, <3>1, <3>2, <3>3, <3>4, QuietSpread, QuietNoted DEF places
  <2>6. Local(p)' = Local(p)
    BY <1>1 DEF Local, places
  <2> HIDE DEF t
  <2> QED
    BY <1>1, <2>1, <2>2, <2>3, <2>5, <2>6, AdvanceKeeps
<1> QED
  BY <1>2, <1>3

LEMMA ListTracks ==
    ASSUME SyncInv, Tracked, NEW p \in Processes, List(p)
    PROVE  Tracked'
<1> DEFINE r == run[p]
           t == [After(r) EXCEPT !.buf = cloud[r.env]]
<1>1. /\ r \in Runs /\ r.plan # <<>> /\ Head(r.plan) \in {"list", "refresh"}
      /\ r.plan \in Seq(StepNames) /\ WellOrdered(r.plan)
      /\ UNCHANGED <<places, keychainOnly, view, file>>
  BY AtStep DEF List, At, Runs, Fits, PlanFits
<1>2. CASE Go(p, t)
  <2>1. Goes(t, r) /\ t.plan = Tail(r.plan) /\ t.buf = cloud[r.env]
    BY <1>1, AfterGoes
  <2>2. Tail(r.plan) # <<>> => Head(Tail(r.plan)) \notin {"envw", "cachew", "load"}
    BY <1>1, NextStep
  <2>3. ASSUME run'[p] = t PROVE Buffered(p)'
    <3>1. t.env = r.env
      BY <2>1 DEF Goes, Alike
    <3> QED
      BY <1>1, <2>1, <2>2, <2>3, <3>1 DEF Buffered, places
  <2> HIDE DEF t
  <2> QED
    BY <1>1, <1>2, <2>1, <2>3, QuietKeeps
<1>3. CASE Go(p, Abort(r))
  BY <1>1, <1>3, AfterGoes, MissedTracks
<1>4. CASE Go(p, [Missed(After(After(r))) EXCEPT !.buf = Empty])
  <2>1. [Missed(After(After(r))) EXCEPT !.buf = Empty].missed
    BY <1>1 DEF Missed, After, Runs
  <2> QED
    BY <1>4, <2>1, MissedTracks
<1> QED
  BY <1>2, <1>3, <1>4 DEF List

LEMMA SaveFetchTrack ==
    ASSUME SyncInv, Tracked, NEW p \in Processes, Save(p) \/ Fetch(p)
    PROVE  Tracked'
<1> DEFINE r == run[p]
           t == [After(r) EXCEPT !.buf = cloud[r.env]]
<1>1. /\ r \in Runs /\ r.plan # <<>> /\ Head(r.plan) \in {"save", "fetch"}
      /\ UNCHANGED <<places, keychainOnly, view, file>>
  BY AtStep DEF Save, Fetch, At
<1>2. ASSUME run'[p].plan = Tail(r.plan) PROVE Buffered(p)'
  BY <1>1, <1>2, QuietBuffered
<1>3. CASE Go(p, After(r))
  <2>1. Goes(After(r), r) /\ After(r).plan = Tail(r.plan)
    BY <1>1, AfterGoes
  <2> QED
    BY <1>1, <1>2, <1>3, <2>1, QuietKeeps
<1>4. CASE Go(p, t)
  <2>1. Goes(t, r) /\ t.plan = Tail(r.plan)
    BY <1>1, AfterGoes
  <2> HIDE DEF t
  <2> QED
    BY <1>1, <1>2, <1>4, <2>1, QuietKeeps
<1>5. CASE Go(p, Idle)
  BY <1>5, MissedTracks
<1> QED
  BY <1>3, <1>4, <1>5 DEF Save, Fetch

\* A write of the cached copy.
LEMMA PutCacheTracks ==
    ASSUME SyncInv, Tracked, NEW p \in Processes, NEW c, c \in Content, PutCache(p, c),
           run[p].plan # <<>>, Head(run[p].plan) \in {"store", "cachew"},
           Tracks(p) /\ run[p].env \in run[p].where =>
              \A k \in About(run[p]) : c[k] = run[p].kv[k],
           Tracks(p) /\ run'[p] = After(run[p]) /\ cache'[run[p].env] = c => Buffered(p)'
    PROVE  Tracked'
<1>1. PICK r, t : r = run[p] /\ t = After(r)
  OBVIOUS
<1>2. /\ r \in Runs /\ r.plan \in Seq(StepNames) /\ r.env \in Envs
      /\ UNCHANGED <<cloud, keychain, dotenv, example, keychainOnly, view, file>>
      /\ cache \in [Envs -> Content \union {None}]
  BY <1>1, AtStep DEF PutCache, Runs, SyncInv, Typed
<1>3. CASE Go(p, Missed(After(run[p])))
  BY <1>1, <1>2, <1>3, AfterGoes, MissedTracks
<1>4. CASE cache' = [cache EXCEPT ![r.env] = c] /\ Go(p, After(run[p]))
  <2>1. Goes(t, r) /\ t.plan = Tail(r.plan) /\ Go(p, t)
    BY <1>1, <1>2, <1>4, AfterGoes
  <2>2. Since(t, r, {"store", "cachew"})
    BY <1>1, <1>2, <2>1, StepsDone DEF Since, Goes
  <2>3. /\ cache'[r.env] = c
        /\ \A e \in Envs : e # r.env => cache'[e] = cache[e]
    BY <1>2, <1>4
  <2>4. ASSUME Tracks(p), run'[p] = t PROVE Spread(p)' /\ Noted(p)' /\ Buffered(p)'
    <3>1. Noted(p)'
      BY <1>1, <1>2, <2>2, <2>4, QuietNoted
    <3>2. Spread(p)'
      <4> SUFFICES ASSUME NEW e \in t.where, NEW k \in About(t)
                   PROVE  Reaches(p, e, k, t.kv[k], Pending(t, e, k))'
        BY <2>4 DEF Spread
      <4>1. /\ Pending(r, e, k) \subseteq {"store", "cachew"} \union Pending(t, e, k)
            /\ About(t) = About(r) /\ t.where = r.where /\ t.kv[k] = r.kv[k]
            /\ e # r.env => Pending(r, e, k) = {} /\ Pending(t, e, k) = {}
        BY <2>2, PendingSince
      <4>2. Reaches(p, e, k, r.kv[k], Pending(r, e, k))
        BY <1>1, <2>4, <4>1 DEF Tracks, Spread
      <4>3. e \in Envs
        BY <1>2, <4>1 DEF Runs
      <4>4. cache'[e] = None \/ cache'[e][k] = t.kv[k]
            \/ Pending(t, e, k) \intersect {"cachew", "store"} # {}
        <5>1. CASE e = r.env
          BY <1>1, <2>3, <2>4, <4>1, <5>1
        <5>2. CASE e # r.env
          BY <2>3, <4>1, <4>2, <4>3, <5>2 DEF Reaches
        <5> QED
          BY <5>1, <5>2
      <4> QED
        BY <1>2, <4>1, <4>2, <4>4 DEF Reaches
    <3> QED
      BY <1>1, <2>3, <2>4, <3>1, <3>2
  <2>5. Local(p)' = Local(p)
    BY <1>2 DEF Local
  <2> QED
    BY <1>1, <2>1, <2>4, <2>5, AdvanceKeeps
<1> QED
  BY <1>1, <1>3, <1>4 DEF PutCache

LEMMA StoreTracks ==
    ASSUME SyncInv, Tracked, NEW p \in Processes, Store(p)
    PROVE  Tracked'
<1>1. PICK r : r = run[p]
  OBVIOUS
<1>2. /\ r \in Runs /\ r.plan # <<>> /\ Head(r.plan) = "store" /\ r.buf \in Content
      /\ r.plan \in Seq(StepNames) /\ WellOrdered(r.plan) /\ PutCache(p, r.buf)
  BY <1>1, AtStep DEF Store, At, Runs, Fits, PlanFits
<1>3. ASSUME Tracks(p), r.env \in r.where, NEW k \in About(r)
      PROVE  r.buf[k] = r.kv[k]
  <2>1. Planned(r.plan) /\ r.buf = cloud[r.env]
    BY <1>1, <1>2, <1>3 DEF Tracks, Shaped, Buffered
  <2>2. Left(r.plan) = {"store"} \union Left(Tail(r.plan))
    BY <1>2, LeftOf
  <2>3. Left(Tail(r.plan)) \intersect {"upload", "drop"} = {}
    BY <1>2, <2>1, PlannedTail
  <2>4. Pending(r, r.env, k) \intersect {"upload", "drop"} = {}
    BY <2>2, <2>3 DEF Pending
  <2>5. Reaches(p, r.env, k, r.kv[k], Pending(r, r.env, k))
    BY <1>1, <1>3 DEF Tracks, Spread
  <2> QED
    BY <2>1, <2>4, <2>5 DEF Reaches
<1>4. ASSUME Tracks(p), run'[p] = After(r), cache'[r.env] = r.buf PROVE Buffered(p)'
  <2>1. r.buf = cloud[r.env] /\ cloud' = cloud
    BY <1>1, <1>2, <1>4 DEF Tracks, Buffered, PutCache
  <2>2. /\ run'[p].plan = Tail(r.plan) /\ run'[p].buf = r.buf /\ run'[p].env = r.env
    BY <1>2, <1>4, AfterGoes DEF Goes, Alike
  <2>3. Tail(r.plan) # <<>> => Head(Tail(r.plan)) \notin {"envw", "cachew", "store"}
    BY <1>2, NextStep
  <2> QED
    BY <1>4, <2>1, <2>2, <2>3 DEF Buffered
<1> QED
  BY <1>1, <1>2, <1>3, <1>4, PutCacheTracks

LEMMA AboutKeys ==
    ASSUME NEW r \in Runs, Shaped(r)
    PROVE  /\ About(r) \subseteq Keys /\ r.kv \in Content
           /\ r.key = None => About(r) = Has(r.kv)
           /\ r.key # None => r.key \in Keys /\ r.kv[r.key] = None
           /\ \A k \in Has(r.kv) : r.kv[k] # None
           /\ \A k \in r.gone : r.kv[k] = None
BY SyncAssumption DEF Runs, Shaped, Stands, About, Has

\* What a write makes of what it has read.
LEMMA UpdatedAbout ==
    ASSUME NEW r \in Runs, Shaped(r), NEW f \in Content, r.buf = f, NEW k \in About(r)
    PROVE  /\ Updated(r)[k] = r.kv[k] \/ (r.key # None /\ k # r.key /\ Updated(r)[k] = f[k])
           /\ Updated(r) \in Content
<1>1. k \in Keys /\ r.kv \in Content
  BY AboutKeys
<1>2. CASE r.key = None
  <2>1. r.kv[k] # None
    BY <1>2, AboutKeys
  <2> QED
    BY <1>1, <1>2, <2>1, Contents DEF Updated, Merge, Content
<1>3. CASE r.key # None
  <2>1. r.key \in Keys /\ r.kv[r.key] = None
    BY <1>3, AboutKeys
  <2> QED
    BY <1>1, <1>3, <2>1, Contents DEF Updated, Content
<1> QED
  BY <1>2, <1>3

LEMMA CacheWriteTracks ==
    ASSUME SyncInv, Tracked, NEW p \in Processes, CacheWrite(p)
    PROVE  Tracked'
<1>1. PICK r : r = run[p]
  OBVIOUS
<1>2. /\ r \in Runs /\ r.plan # <<>> /\ Head(r.plan) = "cachew" /\ r.buf \in Content
      /\ r.kv \in Content /\ PutCache(p, Updated(r)) /\ r.env \in Envs
      /\ cache \in [Envs -> Content \union {None}]
  BY <1>1, AtStep DEF CacheWrite, At, SyncInv, Typed
<1>3. Updated(r) \in Content
  BY <1>2, Contents DEF Updated
<1>4. ASSUME Tracks(p), r.env \in r.where, NEW k \in About(r)
      PROVE  Updated(r)[k] = r.kv[k]
  <2>1. Shaped(r)
    BY <1>1, <1>4 DEF Tracks
  <2>2. CASE r.key # None /\ k # r.key /\ Updated(r)[k] = r.buf[k]
    <3>1. Pending(r, r.env, k) = {}
      BY <2>2 DEF Pending
    <3>2. Reaches(p, r.env, k, r.kv[k], {})
      BY <1>1, <1>4, <3>1 DEF Tracks, Spread
    <3>3. cache[r.env] # None /\ r.buf = cache[r.env]
      BY <1>1, <1>2, <1>4, <2>2 DEF Tracks, Buffered
    <3> QED
      BY <2>2, <3>2, <3>3 DEF Reaches
  <2> QED
    BY <1>2, <1>4, <2>1, <2>2, UpdatedAbout
<1>5. ASSUME run'[p] = After(r) PROVE Buffered(p)'
  BY <1>1, <1>2, <1>5, AfterGoes, QuietBuffered
<1> QED
  BY <1>1, <1>2, <1>3, <1>4, <1>5, PutCacheTracks

LEMMA ExampleTracks ==
    ASSUME SyncInv, Tracked, NEW p \in Processes, Example(p)
    PROVE  Tracked'
<1>1. PICK r, t : r = run[p] /\ t = After(r)
  OBVIOUS
<1>2. /\ r \in Runs /\ r.plan # <<>> /\ Head(r.plan) = "example"
      /\ r.plan \in Seq(StepNames)
      /\ UNCHANGED <<cloud, keychain, dotenv, cache, keychainOnly, view, file>>
  BY <1>1, AtStep DEF Example, At, Runs
<1>3. CASE Go(p, Missed(After(run[p])))
  BY <1>1, <1>2, <1>3, AfterGoes, MissedTracks
<1>4. CASE Go(p, After(run[p])) /\ example' = Existing
  <2>1. Goes(t, r) /\ t.plan = Tail(r.plan) /\ Go(p, t)
    BY <1>1, <1>2, <1>4, AfterGoes
  <2>2. Since(t, r, {"example"})
    BY <1>1, <1>2, <2>1, StepsDone DEF Since, Goes
  <2>3. ASSUME Tracks(p), run'[p] = t PROVE Spread(p)' /\ Noted(p)' /\ Buffered(p)'
    <3>1. Spread(p)'
      <4> DEFINE D == {"example"}
      <4>1. D \intersect {"upload", "drop", "keychain", "forget", "store", "envw", "cachew"} = {}
        OBVIOUS
      <4>2. Since(run'[p], run[p], D)
        BY <1>1, <2>2, <2>3
      <4> HIDE DEF D
      <4> QED
        BY <1>2, <2>3, <4>1, <4>2, QuietSpread
    <3>2. Noted(p)'
      BY <1>2, <1>4 DEF Noted, Existing
    <3>3. Buffered(p)'
      BY <1>1, <1>2, <2>1, <2>3, QuietBuffered
    <3> QED
      BY <3>1, <3>2, <3>3
  <2>4. Local(p)' = Local(p)
    BY <1>2 DEF Local
  <2> QED
    BY <1>1, <1>2, <2>1, <2>3, <2>4, AdvanceKeeps
<1> QED
  BY <1>1, <1>3, <1>4 DEF Example, Existing

LEMMA UploadTracks ==
    ASSUME SyncInv, Tracked, NEW p \in Processes, Upload(p)
    PROVE  Tracked'
<1>1. PICK r, t : r = run[p] /\ t = After(r)
  OBVIOUS
<1>2. /\ r \in Runs /\ r.plan # <<>> /\ Head(r.plan) = "upload" /\ r.env \in Envs
      /\ r.plan \in Seq(StepNames) /\ r.kv \in Content /\ cloud \in [Envs -> Content]
      /\ UNCHANGED <<keychain, dotenv, cache, example, keychainOnly, view, file>>
  BY <1>1, AtStep DEF Upload, At, Runs, SyncInv, Typed
<1>3. CASE Go(p, Abort(run[p]))
  BY <1>1, <1>2, <1>3, AfterGoes, MissedTracks
<1>4. CASE Go(p, After(run[p])) /\ cloud' = [cloud EXCEPT ![r.env] = Merge(@, r.kv)]
  <2>1. Goes(t, r) /\ t.plan = Tail(r.plan) /\ Go(p, t)
    BY <1>1, <1>2, <1>4, AfterGoes
  <2>2. Since(t, r, {"upload"})
    BY <1>1, <1>2, <2>1, StepsDone DEF Since, Goes
  <2>3. /\ cloud'[r.env] = Merge(cloud[r.env], r.kv)
        /\ \A e \in Envs : e # r.env => cloud'[e] = cloud[e]
    BY <1>2, <1>4
  <2>4. ASSUME Tracks(p), run'[p] = t PROVE Spread(p)' /\ Noted(p)' /\ Buffered(p)'
    <3>1. Noted(p)'
      BY <1>1, <1>2, <2>2, <2>4, QuietNoted
    <3>2. Buffered(p)'
      BY <1>1, <1>2, <2>1, <2>4, QuietBuffered
    <3>3. Spread(p)'
      <4> SUFFICES ASSUME NEW e \in t.where, NEW k \in About(t)
                   PROVE  Reaches(p, e, k, t.kv[k], Pending(t, e, k))'
        BY <2>4 DEF Spread
      <4>1. /\ Pending(r, e, k) \subseteq {"upload"} \union Pending(t, e, k)
            /\ About(t) = About(r) /\ t.where = r.where /\ t.kv[k] = r.kv[k]
            /\ e # r.env => Pending(r, e, k) = {} /\ Pending(t, e, k) = {}
        BY <2>2, PendingSince
      <4>2. Reaches(p, e, k, r.kv[k], Pending(r, e, k))
        BY <1>1, <2>4, <4>1 DEF Tracks, Spread
      <4>3. e \in Envs
        BY <1>2, <4>1 DEF Runs
      <4>4. Shaped(r) /\ r.key = None
        <5>1. "upload" \in Left(r.plan)
          BY <1>2, LeftOf
        <5> QED
          BY <1>1, <2>4, <5>1 DEF Tracks, Shaped, Stands
      <4>5. k \in Keys /\ r.kv[k] # None
        BY <1>2, <4>1, <4>4, AboutKeys
      <4>6. e = r.env => cloud'[e][k] = r.kv[k]
        BY <1>2, <2>3, <4>5 DEF Merge
      <4>7. e # r.env => cloud'[e][k] = r.kv[k]
        BY <2>3, <4>1, <4>2, <4>3 DEF Reaches
      <4> QED
        BY <1>2, <4>1, <4>2, <4>6, <4>7 DEF Reaches
    <3> QED
      BY <3>1, <3>2, <3>3
  <2>5. Local(p)' = Local(p)
    BY <1>2 DEF Local
  <2> QED
    BY <1>1, <1>2, <2>1, <2>4, <2>5, AdvanceKeeps
<1> QED
  BY <1>1, <1>3, <1>4 DEF Upload

LEMMA KeychainTracks ==
    ASSUME SyncInv, Tracked, NEW p \in Processes, Keychain(p)
    PROVE  Tracked'
<1>1. PICK r, t : r = run[p] /\ t = After(r)
  OBVIOUS
<1>2. /\ r \in Runs /\ r.plan # <<>> /\ Head(r.plan) = "keychain" /\ r.env \in Envs
      /\ r.plan \in Seq(StepNames) /\ r.kv \in Content
      /\ keychain \in [Envs -> Content] /\ view \in [Processes -> Envs]
      /\ UNCHANGED <<cloud, dotenv, cache, example, keychainOnly, view, file>>
  BY <1>1, AtStep DEF Keychain, At, Runs, SyncInv, Typed
<1>3. CASE Go(p, Missed(After(run[p])))
  BY <1>1, <1>2, <1>3, AfterGoes, MissedTracks
<1>4. CASE /\ Go(p, After(run[p]))
           /\ keychain' = [keychain EXCEPT ![r.env] = Merge(@, Only(r.kv, Has(r.kv)))]
  <2>1. Goes(t, r) /\ t.plan = Tail(r.plan) /\ Go(p, t)
    BY <1>1, <1>2, <1>4, AfterGoes
  <2>2. Since(t, r, {"keychain"})
    BY <1>1, <1>2, <2>1, StepsDone DEF Since, Goes
  <2>3. /\ \A k \in Keys : keychain'[r.env][k]
                              = IF r.kv[k] # None THEN r.kv[k] ELSE keychain[r.env][k]
        /\ \A e \in Envs : e # r.env => keychain'[e] = keychain[e]
    BY <1>2, <1>4 DEF Merge, Only, Has
  <2>4. ASSUME Tracks(p), run'[p] = t PROVE Spread(p)' /\ Noted(p)' /\ Buffered(p)'
    <3>1. Noted(p)'
      <4>1. Planned(r.plan)
        BY <1>1, <2>4 DEF Tracks, Shaped
      <4>2. "example" \in Left(t.plan)
        BY <1>2, <2>1, <4>1, PlannedTail DEF Needs
      <4> QED
        BY <2>4, <4>2 DEF Noted
    <3>2. Buffered(p)'
      BY <1>1, <1>2, <2>1, <2>4, QuietBuffered
    <3>3. Spread(p)'
      <4> SUFFICES ASSUME NEW e \in t.where, NEW k \in About(t)
                   PROVE  Reaches(p, e, k, t.kv[k], Pending(t, e, k))'
        BY <2>4 DEF Spread
      <4>1. /\ Pending(r, e, k) \subseteq {"keychain"} \union Pending(t, e, k)
            /\ About(t) = About(r) /\ t.where = r.where /\ t.kv[k] = r.kv[k]
            /\ e # r.env => Pending(r, e, k) = {} /\ Pending(t, e, k) = {}
        BY <2>2, PendingSince
      <4>2. Reaches(p, e, k, r.kv[k], Pending(r, e, k))
        BY <1>1, <2>4, <4>1 DEF Tracks, Spread
      <4>3. e \in Envs
        BY <1>2, <4>1 DEF Runs
      <4>4. Shaped(r) /\ r.key = None
        <5>1. "keychain" \in Left(r.plan)
          BY <1>2, LeftOf
        <5> QED
          BY <1>1, <2>4, <5>1 DEF Tracks, Shaped, Stands
      <4>5. k \in Keys /\ r.kv[k] # None
        BY <1>2, <4>1, <4>4, AboutKeys
      <4>6. e = r.env => keychain'[e][k] = r.kv[k]
        BY <2>3, <4>5
      <4>7. e # r.env => keychain'[e][k] = r.kv[k]
        BY <2>3, <4>1, <4>2, <4>3 DEF Reaches
      <4> QED
        BY <1>2, <4>1, <4>2, <4>6, <4>7 DEF Reaches
    <3> QED
      BY <3>1, <3>2, <3>3
  <2>5. \A k \in Keys : k \notin Has(r.kv) => Local(p)'[k] = Local(p)[k]
    <3>1. view[p] \in Envs
      BY <1>2
    <3>2. \A k \in Keys : k \notin Has(r.kv) => keychain'[view[p]][k] = keychain[view[p]][k]
      BY <2>3, <3>1 DEF Has
    <3> QED
      BY <1>2, <3>2 DEF Local
  <2>6. Head(r.plan) \in Changing /\ Head(r.plan) # "compare"
    BY <1>2 DEF Changing
  <2> QED
    BY <1>1, <1>2, <2>1, <2>4, <2>5, <2>6, AdvanceKeeps
<1>5. PICK S \in SUBSET Has(r.kv) :
         /\ keychain' = [keychain EXCEPT ![r.env] = Merge(@, Only(r.kv, S))]
         /\ IF S = Has(r.kv) THEN NoFault /\ Go(p, After(r))
                             ELSE Fault /\ Go(p, Missed(After(r)))
  BY <1>1 DEF Keychain
<1> QED
  BY <1>1, <1>3, <1>4, <1>5

LEMMA EnvWriteTracks ==
    ASSUME SyncInv, Tracked, NEW p \in Processes, EnvWrite(p)
    PROVE  Tracked'
<1>1. PICK r, t : r = run[p] /\ t = After(r)
  OBVIOUS
<1>2. /\ r \in Runs /\ r.plan # <<>> /\ Head(r.plan) = "envw"
      /\ r.plan \in Seq(StepNames) /\ r.kv \in Content /\ r.buf \in Content
      /\ dotenv \in [Envs -> Content] /\ file[p] \in Envs
      /\ UNCHANGED <<cloud, keychain, cache, example, keychainOnly, view, file>>
  BY <1>1, AtStep DEF EnvWrite, At, Runs, SyncInv, Typed
<1>3. CASE Go(p, Abort(run[p]))
  BY <1>1, <1>2, <1>3, AfterGoes, MissedTracks
<1>4. CASE /\ Go(p, After(run[p]))
           /\ dotenv' = [dotenv EXCEPT ![file[p]] = Updated(run[p])]
  <2>1. Goes(t, r) /\ t.plan = Tail(r.plan) /\ Go(p, t)
    BY <1>1, <1>2, <1>4, AfterGoes
  <2>2. Since(t, r, {"envw"})
    BY <1>1, <1>2, <2>1, StepsDone DEF Since, Goes
  <2>3. dotenv'[file[p]] = Updated(r)
    BY <1>1, <1>2, <1>4
  <2>4. ASSUME Tracks(p), run'[p] = t PROVE Spread(p)' /\ Noted(p)' /\ Buffered(p)'
    <3>1. Noted(p)'
      BY <1>1, <1>2, <2>2, <2>4, QuietNoted
    <3>2. Buffered(p)'
      BY <1>1, <1>2, <2>1, <2>4, QuietBuffered
    <3>3. Shaped(r) /\ r.buf = dotenv[file[p]]
      BY <1>1, <1>2, <2>4 DEF Tracks, Buffered
    <3>4. Spread(p)'
      <4> SUFFICES ASSUME NEW e \in t.where, NEW k \in About(t)
                   PROVE  Reaches(p, e, k, t.kv[k], Pending(t, e, k))'
        BY <2>4 DEF Spread
      <4>1. /\ Pending(r, e, k) \subseteq {"envw"} \union Pending(t, e, k)
            /\ About(t) = About(r) /\ t.where = r.where /\ t.kv[k] = r.kv[k]
        BY <2>2, PendingSince
      <4>2. Reaches(p, e, k, r.kv[k], Pending(r, e, k))
        BY <1>1, <2>4, <4>1 DEF Tracks, Spread
      <4>3. Updated(r)[k] = r.kv[k] \/ (r.key # None /\ k # r.key /\ Updated(r)[k] = r.buf[k])
        BY <1>2, <3>3, <4>1, UpdatedAbout
      <4>4. CASE Updated(r)[k] = r.kv[k]
        BY <1>2, <2>3, <4>1, <4>2, <4>4 DEF Reaches
      <4>5. CASE r.key # None /\ k # r.key /\ Updated(r)[k] = r.buf[k]
        <5>1. Pending(r, e, k) = {}
          BY <4>5 DEF Pending
        <5>2. keychainOnly \/ dotenv[file[p]][k] = r.kv[k]
          BY <4>2, <5>1 DEF Reaches
        <5>3. keychainOnly \/ dotenv'[file[p]][k] = r.kv[k]
          BY <2>3, <3>3, <4>5, <5>2
        <5> QED
          BY <1>2, <4>1, <4>2, <5>3 DEF Reaches
      <4> QED
        BY <4>3, <4>4, <4>5
    <3> QED
      BY <3>1, <3>2, <3>4
  <2>5. ASSUME r.alone, ~r.missed, r.key = None, NEW k \in Keys, k \notin Has(r.kv)
        PROVE  Local(p)'[k] = Local(p)[k]
    <3>1. r.buf = dotenv[file[p]]
      BY <1>1, <1>2, <2>5 DEF Tracked, Tracks, Buffered
    <3>2. Updated(r)[k] = dotenv[file[p]][k]
      BY <1>2, <2>5, <3>1 DEF Updated, Merge, Has
    <3> QED
      BY <1>2, <2>3, <3>2 DEF Local
  <2>6. Head(r.plan) \in Changing /\ Head(r.plan) # "compare"
    BY <1>2 DEF Changing
  <2>7. CASE r.alone /\ ~r.missed
    BY <1>1, <1>2, <2>1, <2>4, <2>5, <2>6, <2>7, AdvanceKeeps
  <2>8. CASE ~(r.alone /\ ~r.missed)
    BY <2>1, <2>8, OthersTrack DEF Goes
  <2> QED
    BY <2>7, <2>8
<1> QED
  BY <1>1, <1>3, <1>4 DEF EnvWrite

LEMMA ForgetTracks ==
    ASSUME SyncInv, Tracked, NEW p \in Processes, Forget(p)
    PROVE  Tracked'
<1>1. PICK r, t : r = run[p] /\ t = After(r)
  OBVIOUS
<1>2. /\ r \in Runs /\ r.plan # <<>> /\ Head(r.plan) = "forget" /\ r.env \in Envs
      /\ r.plan \in Seq(StepNames) /\ r.kv \in Content /\ r.key \in Keys /\ r.key # None
      /\ keychain \in [Envs -> Content]
      /\ UNCHANGED <<cloud, dotenv, cache, example, keychainOnly, view, file>>
  BY <1>1, AtStep, KeyOfStep, SyncAssumption DEF Forget, At, Runs, SyncInv, Typed, OfOneKey
<1>3. CASE Go(p, Missed(After(run[p])))
  BY <1>1, <1>2, <1>3, AfterGoes, MissedTracks
<1>4. CASE Go(p, After(run[p])) /\ keychain' = [keychain EXCEPT ![r.env][r.key] = None]
  <2>1. Goes(t, r) /\ t.plan = Tail(r.plan) /\ Go(p, t)
    BY <1>1, <1>2, <1>4, AfterGoes
  <2>2. Since(t, r, {"forget"})
    BY <1>1, <1>2, <2>1, StepsDone DEF Since, Goes
  <2>3. /\ keychain'[r.env][r.key] = None
        /\ \A k \in Keys : k # r.key => keychain'[r.env][k] = keychain[r.env][k]
        /\ \A e \in Envs : e # r.env => keychain'[e] = keychain[e]
    BY <1>2, <1>4 DEF Content
  <2>4. ASSUME Tracks(p), run'[p] = t PROVE Spread(p)' /\ Noted(p)' /\ Buffered(p)'
    <3>1. Noted(p)'
      <4>1. Planned(r.plan)
        BY <1>1, <2>4 DEF Tracks, Shaped
      <4>2. "example" \in Left(t.plan)
        BY <1>2, <2>1, <4>1, PlannedTail DEF Needs
      <4> QED
        BY <2>4, <4>2 DEF Noted
    <3>2. Buffered(p)'
      BY <1>1, <1>2, <2>1, <2>4, QuietBuffered
    <3>3. Spread(p)'
      <4> SUFFICES ASSUME NEW e \in t.where, NEW k \in About(t)
                   PROVE  Reaches(p, e, k, t.kv[k], Pending(t, e, k))'
        BY <2>4 DEF Spread
      <4>1. /\ Pending(r, e, k) \subseteq {"forget"} \union Pending(t, e, k)
            /\ About(t) = About(r) /\ t.where = r.where /\ t.kv[k] = r.kv[k]
            /\ e # r.env => Pending(r, e, k) = {} /\ Pending(t, e, k) = {}
        BY <2>2, PendingSince
      <4>2. Reaches(p, e, k, r.kv[k], Pending(r, e, k))
        BY <1>1, <2>4, <4>1 DEF Tracks, Spread
      <4>3. e \in Envs /\ Shaped(r)
        BY <1>1, <1>2, <2>4, <4>1 DEF Runs, Tracks
      <4>4. k \in Keys /\ r.kv[r.key] = None
        BY <1>2, <4>1, <4>3, AboutKeys
      <4>5. k # r.key => Pending(r, e, k) = {}
        BY <1>2 DEF Pending
      <4>6. CASE e = r.env /\ k = r.key
        BY <1>2, <2>3, <4>1, <4>2, <4>4, <4>6 DEF Reaches
      <4>7. CASE ~(e = r.env /\ k = r.key)
        <5>1. keychain'[e][k] = keychain[e][k] /\ Pending(r, e, k) = {}
          BY <2>3, <4>1, <4>3, <4>4, <4>5, <4>7
        <5> QED
          BY <1>2, <4>1, <4>2, <5>1 DEF Reaches
      <4> QED
        BY <4>6, <4>7
    <3> QED
      BY <3>1, <3>2, <3>3
  <2>5. Head(r.plan) \in Changing /\ Head(r.plan) # "compare"
    BY <1>2 DEF Changing
  <2> QED
    BY <1>1, <1>2, <2>1, <2>4, <2>5, AdvanceKeeps
<1> QED
  BY <1>1, <1>3, <1>4 DEF Forget

\* A deletion adds its key to what the command is about.
LEMMA DropTracks ==
    ASSUME SyncInv, Tracked, NEW p \in Processes, Drop(p)
    PROVE  Tracked'
<1>1. PICK r, t : r = run[p] /\ t = [After(run[p]) EXCEPT !.gone = @ \union {run[p].key}]
  OBVIOUS
<1>2. /\ r \in Runs /\ r.plan # <<>> /\ Head(r.plan) = "drop" /\ r.env \in Envs
      /\ r.plan \in Seq(StepNames) /\ r.kv \in Content /\ r.key \in Keys /\ r.key # None
      /\ cloud \in [Envs -> Content]
      /\ UNCHANGED <<keychain, dotenv, cache, example, keychainOnly, view, file>>
  BY <1>1, AtStep, KeyOfStep, SyncAssumption DEF Drop, At, Runs, SyncInv, Typed, OfOneKey
<1>3. CASE Go(p, Abort(run[p]))
  BY <1>1, <1>2, <1>3, AfterGoes, MissedTracks
<1>4. CASE Go(p, t) /\ cloud' = [cloud EXCEPT ![r.env][r.key] = None]
  <2>1. /\ t.plan = Tail(r.plan) /\ t.gone = r.gone \union {r.key}
        /\ t.op = r.op /\ t.env = r.env /\ t.envs = r.envs /\ t.keys = r.keys
        /\ t.kv = r.kv /\ t.key = r.key /\ t.start = r.start /\ t.only = r.only
        /\ t.choice = r.choice /\ t.where = r.where
        /\ t.alone = r.alone /\ t.missed = r.missed
    BY <1>1, <1>2 DEF After, Runs
  <2>2. /\ cloud'[r.env][r.key] = None
        /\ \A k \in Keys : k # r.key => cloud'[r.env][k] = cloud[r.env][k]
    BY <1>2, <1>4 DEF Content
  <2>3. SUFFICES ASSUME t.alone, ~t.missed PROVE Tracks(p)'
    BY <1>4, OthersTrack
  <2>4. /\ Tracks(p) /\ Planned(r.plan) /\ Stands(r, Left(r.plan)) /\ Shaped(r)
        /\ run'[p] = t
    BY <1>1, <1>4, <2>1, <2>3 DEF Tracked, Tracks, Shaped, Go
  <2>5. /\ Planned(t.plan) /\ {"envw", "forget", "cachew", "example"} \subseteq Left(t.plan)
        /\ "read" \notin Left(t.plan)
        /\ Left(t.plan) \subseteq Left(r.plan) /\ "drop" \in Left(r.plan)
    BY <1>2, <2>1, <2>4, LeftOf, PlannedTail DEF Needs
  <2>6. r.op \notin Plain /\ r.where = {r.env} /\ "choose" \notin Left(t.plan)
    BY <1>2, <2>4, <2>5 DEF Stands, Asking, Changing
  <2>7. Shaped(t)
    <3>1. Stands(t, Left(t.plan))
      BY <1>2, <2>1, <2>4, <2>5, <2>6 DEF Stands
    <3> QED
      BY <2>5, <3>1 DEF Shaped
  <2>8. Noted(p)' /\ Chosen(p)'
    BY <2>4, <2>5, <2>6 DEF Noted, Chosen
  <2>9. Buffered(p)'
    BY <1>1, <1>2, <2>1, <2>4, QuietBuffered
  <2>10. Wins(p)'
    <3>1. t.choice # "missing"
      BY <1>1, <1>2, <2>1, <2>4 DEF Tracks, Wins
    <3> QED
      BY <2>4, <3>1 DEF Wins
  <2>11. Spread(p)'
    <3> SUFFICES ASSUME NEW e \in t.where, NEW k \in About(t)
                 PROVE  Reaches(p, e, k, t.kv[k], Pending(t, e, k))'
      BY <2>4 DEF Spread
    <3>1. e = r.env /\ (k = r.key \/ k \in About(r)) /\ r.kv[r.key] = None
      BY <1>2, <2>1, <2>4, <2>6, AboutKeys DEF About
    <3>2. CASE k = r.key
      <4>1. Pending(t, e, k) = Left(t.plan)
        BY <2>1, <3>1, <3>2 DEF Pending
      <4> QED
        BY <2>1, <2>2, <2>5, <3>1, <3>2, <4>1 DEF Reaches
    <3>3. CASE k # r.key
      <4>1. Pending(t, e, k) = {} /\ Pending(r, e, k) = {} /\ k \in About(r) /\ k \in Keys
        BY <1>2, <2>1, <2>4, <3>1, <3>3, AboutKeys DEF Pending
      <4>2. Reaches(p, e, k, r.kv[k], {})
        BY <1>1, <2>1, <2>4, <4>1 DEF Tracks, Spread
      <4> QED
        BY <1>2, <2>1, <2>2, <3>1, <3>3, <4>1, <4>2 DEF Reaches
    <3> QED
      BY <3>2, <3>3
  <2> QED
    BY <2>4, <2>7, <2>8, <2>9, <2>10, <2>11 DEF Tracks
<1> QED
  BY <1>1, <1>3, <1>4 DEF Drop

-----------------------------------------------------------------------------
(* What commands decide.                                                   *)

\* With the steps M still to come nothing need be reached that need not with L.
Allows(L, M) ==
    /\ M \intersect {"upload", "drop"} = {} => L \intersect {"upload", "drop"} = {}
    /\ M \intersect {"keychain", "forget"} = {} => L \intersect {"keychain", "forget"} = {}
    /\ "envw" \in L => "envw" \in M
    /\ M \intersect {"cachew", "store"} = {} => L \intersect {"cachew", "store"} = {}

LEMMA StillSpread ==
    ASSUME NEW p \in Processes, Spread(p), NEW r, NEW t, r = run[p], t = run'[p],
           t.where = r.where, About(t) = About(r), t.kv = r.kv,
           \A e, k : Allows(Pending(r, e, k), Pending(t, e, k)),
           UNCHANGED <<cloud, keychain, dotenv, cache, keychainOnly, file>>
    PROVE  Spread(p)'
<1> SUFFICES ASSUME NEW e \in t.where, NEW k \in About(t)
             PROVE  Reaches(p, e, k, t.kv[k], Pending(t, e, k))'
  BY DEF Spread
<1>1. Reaches(p, e, k, r.kv[k], Pending(r, e, k))
  BY DEF Spread
<1>2. Allows(Pending(r, e, k), Pending(t, e, k))
  OBVIOUS
<1> QED
  BY <1>1, <1>2 DEF Reaches, Allows

\* A command that is about nothing yet.
LEMMA FreshTracks ==
    ASSUME NEW p \in Processes, NEW t, run'[p] = t, Shaped(t), t.where = {} \/ About(t) = {},
           t.plan # <<>> => Head(t.plan) \notin {"envw", "cachew", "store", "load"},
           "read" \notin Left(t.plan),
           "choose" \in Left(t.plan) => "compare" \in Left(t.plan),
           t.choice = "all"
    PROVE  Tracks(p)'
<1>1. Spread(p)' /\ Noted(p)'
  BY DEF Spread, Noted
<1>2. Buffered(p)' /\ Chosen(p)' /\ Wins(p)'
  BY DEF Buffered, Chosen, Wins
<1> QED
  BY <1>1, <1>2 DEF Tracks

LEMMA CompareTracks ==
    ASSUME SyncInv, Tracked, NEW p \in Processes, Compare(p)
    PROVE  Tracked'
<1>1. PICK r, t : r = run[p] /\ t = [After(run[p]) EXCEPT !.start = Local(p)]
  OBVIOUS
<1>2. /\ r \in Runs /\ r.plan # <<>> /\ Head(r.plan) = "compare" /\ r.plan \in Seq(StepNames)
      /\ UNCHANGED <<cloud, keychain, dotenv, cache, example, keychainOnly, view, file>>
  BY <1>1, AtStep DEF Compare, ReadLocal, At, Runs, places
<1>3. CASE Go(p, Abort(run[p]))
  BY <1>1, <1>2, <1>3, AfterGoes, MissedTracks
<1>4. CASE Go(p, t)
  <2>1. /\ t.plan = Tail(r.plan) /\ t.start = Local(p) /\ t.gone = r.gone
        /\ t.op = r.op /\ t.env = r.env /\ t.envs = r.envs /\ t.keys = r.keys
        /\ t.kv = r.kv /\ t.key = r.key /\ t.only = r.only
        /\ t.choice = r.choice /\ t.where = r.where
        /\ t.alone = r.alone /\ t.missed = r.missed
    BY <1>1, <1>2 DEF After, Runs
  <2>2. SUFFICES ASSUME t.alone, ~t.missed PROVE Tracks(p)'
    BY <1>4, OthersTrack
  <2>3. /\ Tracks(p) /\ Planned(r.plan) /\ Stands(r, Left(r.plan)) /\ run'[p] = t
    BY <1>1, <1>4, <2>1, <2>2 DEF Tracked, Tracks, Shaped, Go
  <2>4. /\ Planned(t.plan) /\ Left(r.plan) = {"compare"} \union Left(t.plan)
        /\ "read" \notin Left(t.plan) /\ "compare" \notin Left(t.plan)
    BY <1>2, <2>1, <2>3, LeftOf, PlannedTail
  <2>5. Shaped(t)
    <3>1. Left(t.plan) \subseteq Left(r.plan)
      BY <2>4
    <3>2. Stands(t, Left(t.plan))
      BY <2>1, <2>3, <3>1 DEF Stands
    <3> QED
      BY <2>4, <3>2 DEF Shaped
  <2>6. Spread(p)'
    <3>1. \A e, k : Allows(Pending(r, e, k), Pending(t, e, k))
      BY <2>1, <2>4 DEF Pending, Allows
    <3>2. About(t) = About(r)
      BY <2>1 DEF About
    <3>3. Spread(p)
      BY <2>3 DEF Tracks
    <3>4. /\ r = run[p] /\ t = run'[p] /\ t.where = r.where /\ t.kv = r.kv
          /\ UNCHANGED <<cloud, keychain, dotenv, cache, keychainOnly, file>>
      BY <1>1, <1>2, <2>1, <2>3
    <3> QED
      BY <3>1, <3>2, <3>3, <3>4, StillSpread
  <2>7. Noted(p)'
    <3>1. "example" \in Left(r.plan) => "example" \in Left(t.plan)
      BY <2>4
    <3> QED
      BY <1>1, <1>2, <2>1, <2>3, <3>1 DEF Tracks, Noted, About, Existing
  <2>8. Buffered(p)'
    BY <1>1, <1>2, <2>1, <2>3, QuietBuffered
  <2>9. Local(p)' = Local(p)
    BY <1>2 DEF Local
  <2>10. Chosen(p)'
    BY <2>1, <2>3, <2>4, <2>9 DEF Chosen
  <2>11. Wins(p)'
    <3>1. r.choice # "missing"
      BY <1>1, <2>3, <2>4 DEF Tracks, Wins
    <3> QED
      BY <2>1, <2>3, <3>1 DEF Wins
  <2> QED
    BY <2>3, <2>5, <2>6, <2>7, <2>8, <2>10, <2>11 DEF Tracks
<1> QED
  BY <1>1, <1>3, <1>4 DEF Compare, ReadLocal

\* A command that asks has changed and loaded nothing yet.
LEMMA StillAsking ==
    ASSUME NEW p \in Processes, Tracks(p), NEW r \in Runs, r = run[p], r.plan # <<>>,
           Head(r.plan) \in {"choose", "confirm"}
    PROVE  /\ r.key = None /\ r.keys = {} /\ r.kv = Empty /\ r.gone = {} /\ r.choice = "all"
           /\ r.op \notin Plain /\ r.where = {r.env} /\ Tail(r.plan) = <<>>
           /\ Head(r.plan) = "choose" => r.start = Local(p)
<1>1. r.plan \in Seq(StepNames) /\ Planned(r.plan) /\ Stands(r, Left(r.plan))
  BY DEF Runs, Tracks, Shaped
<1>2. Left(r.plan) = {Head(r.plan)} \union Left(Tail(r.plan)) /\ Tail(r.plan) = <<>>
  BY <1>1, LeftOf, PlannedTail DEF Asking
<1>3. /\ Left(r.plan) \intersect {"choose", "confirm"} # {}
      /\ Left(r.plan) = {Head(r.plan)}
  BY <1>2, NothingLeft
<1>4. /\ r.key = None /\ r.keys = {} /\ r.kv = Empty /\ r.gone = {} /\ r.choice = "all"
      /\ r.op \notin Plain /\ r.where = {r.env}
  BY <1>1, <1>3 DEF Stands
<1>5. Head(r.plan) = "choose" => r.start = Local(p)
  BY <1>3 DEF Tracks, Chosen
<1> QED
  BY <1>2, <1>4, <1>5

LEMMA ChoosePullTracks ==
    ASSUME SyncInv, Tracked, NEW p \in Processes, ChoosePull(p)
    PROVE  Tracked'
<1>1. PICK r : r = run[p]
  OBVIOUS
<1>2. /\ r \in Runs /\ r.plan # <<>> /\ Head(r.plan) = "choose"
      /\ UNCHANGED <<cloud, keychain, dotenv, cache, example, keychainOnly, view, file>>
  BY <1>1, AtStep DEF ChoosePull, At, Runs, places
<1>3. ASSUME NEW t, Go(p, t), t.plan = PullPlan, t.op = r.op, t.env = r.env, t.envs = r.envs,
             t.keys = r.keys, t.kv = r.kv, t.key = r.key, t.start = r.start,
             t.where = r.where, t.gone = r.gone, t.alone = r.alone, t.missed = r.missed,
             \/ t.choice = r.choice
             \/ t.choice = "missing" /\ t.only = Removed(r)
      PROVE  Tracked'
  <2>1. SUFFICES ASSUME t.alone, ~t.missed PROVE Tracks(p)'
    BY <1>3, OthersTrack
  <2>2. Tracks(p) /\ run'[p] = t
    BY <1>1, <1>3, <2>1 DEF Tracked, Go
  <2>3. /\ t.key = None /\ t.keys = {} /\ t.kv = Empty /\ t.gone = {}
        /\ t.op \notin Plain /\ t.where = {t.env}
        /\ r.choice = "all" /\ t.start = Local(p)
    BY <1>1, <1>2, <1>3, <2>2, StillAsking
  <2>4. /\ Left(t.plan) = {"list", "store", "load", "keychain", "env", "envw", "save", "example"}
        /\ Planned(t.plan) /\ Head(t.plan) = "list"
    BY <1>3, PlansAreLeft, PlansArePlanned DEF PullPlan
  <2>5. Has(t.kv) = {} /\ About(t) = {}
    BY <2>3 DEF Has, Empty, About
  <2>6. Shaped(t)
    <3>1. Stands(t, Left(t.plan))
      BY <2>3, <2>4, <2>5 DEF Stands, Asking, Plain
    <3> QED
      BY <2>4, <3>1 DEF Shaped
  <2>7. Spread(p)' /\ Noted(p)'
    BY <2>2, <2>5 DEF Spread, Noted
  <2>8. Buffered(p)' /\ Chosen(p)'
    BY <2>2, <2>4 DEF Buffered, Chosen
  <2>9. Wins(p)'
    <3>1. Local(p)' = Local(p)
      BY <1>2 DEF Local
    <3>2. t.choice = "missing" => Has(t.start) \intersect t.only = {}
      BY <1>3, <2>3 DEF Removed
    <3>3. Left(t.plan) \intersect (Asking \union {"compare", "read"}) = {}
      BY <2>4 DEF Asking
    <3> QED
      BY <2>2, <2>3, <2>5, <3>1, <3>2, <3>3 DEF Wins
  <2> QED
    BY <2>2, <2>6, <2>7, <2>8, <2>9 DEF Tracks
<1>4. CASE Go(p, [r EXCEPT !.plan = PullPlan])
  <2>1. PICK t : t = [r EXCEPT !.plan = PullPlan]
    OBVIOUS
  <2>2. /\ t.plan = PullPlan /\ t.op = r.op /\ t.env = r.env /\ t.envs = r.envs
        /\ t.keys = r.keys /\ t.kv = r.kv /\ t.key = r.key /\ t.start = r.start
        /\ t.where = r.where /\ t.gone = r.gone /\ t.alone = r.alone /\ t.missed = r.missed
        /\ t.choice = r.choice
    BY <1>2, <2>1 DEF Runs
  <2> QED
    BY <1>3, <1>4, <2>1, <2>2
<1>5. CASE Go(p, [r EXCEPT !.plan = PullPlan, !.only = Removed(r), !.choice = "missing"])
  <2>1. PICK t : t = [r EXCEPT !.plan = PullPlan, !.only = Removed(r), !.choice = "missing"]
    OBVIOUS
  <2>2. /\ t.plan = PullPlan /\ t.op = r.op /\ t.env = r.env /\ t.envs = r.envs
        /\ t.keys = r.keys /\ t.kv = r.kv /\ t.key = r.key /\ t.start = r.start
        /\ t.where = r.where /\ t.gone = r.gone /\ t.alone = r.alone /\ t.missed = r.missed
        /\ t.choice = "missing" /\ t.only = Removed(r)
    BY <1>2, <2>1 DEF Runs
  <2> QED
    BY <1>3, <1>5, <2>1, <2>2
<1>6. CASE Go(p, Idle)
  BY <1>6, MissedTracks
<1> QED
  BY <1>1, <1>4, <1>5, <1>6 DEF ChoosePull

LEMMA ChoosePushTracks ==
    ASSUME SyncInv, Tracked, NEW p \in Processes, ChoosePush(p)
    PROVE  Tracked'
<1>1. PICK r : r = run[p]
  OBVIOUS
<1>2. /\ r \in Runs /\ r.plan # <<>> /\ Head(r.plan) = "choose"
      /\ UNCHANGED <<cloud, keychain, dotenv, cache, example, keychainOnly, view, file>>
  BY <1>1, AtStep DEF ChoosePush, At, Runs, places
<1>3. ASSUME NEW t, Go(p, t), t.plan = PushPlan, t.op = r.op, t.env = r.env, t.envs = r.envs,
             t.kv = r.kv, t.key = r.key, t.start = r.start, t.choice = r.choice,
             t.where = r.where, t.gone = r.gone, t.alone = r.alone, t.missed = r.missed,
             t.keys = r.keys \/ t.keys = Removed(r)
      PROVE  Tracked'
  <2>1. SUFFICES ASSUME t.alone, ~t.missed PROVE Tracks(p)'
    BY <1>3, OthersTrack
  <2>2. Tracks(p) /\ run'[p] = t
    BY <1>1, <1>3, <2>1 DEF Tracked, Go
  <2>3. /\ t.key = None /\ r.keys = {} /\ t.kv = Empty /\ t.gone = {}
        /\ t.op \notin Plain /\ t.where = {t.env}
        /\ t.choice = "all" /\ t.start = Local(p)
    BY <1>1, <1>2, <1>3, <2>2, StillAsking
  <2>4. /\ Left(t.plan) = {"read", "keychain", "upload", "save", "example", "refresh", "store"}
        /\ Planned(t.plan) /\ Head(t.plan) = "read"
    BY <1>3, PlansAreLeft, PlansArePlanned DEF PushPlan
  <2>5. Has(t.kv) = {} /\ About(t) = {}
    BY <2>3 DEF Has, Empty, About
  <2>6. Shaped(t)
    <3>1. Stands(t, Left(t.plan))
      BY <2>3, <2>4, <2>5 DEF Stands, Asking, Plain
    <3> QED
      BY <2>4, <3>1 DEF Shaped
  <2>7. Spread(p)' /\ Noted(p)'
    BY <2>2, <2>5 DEF Spread, Noted
  <2>8. Buffered(p)' /\ Wins(p)'
    BY <2>2, <2>3, <2>4 DEF Buffered, Wins
  <2>9. Chosen(p)'
    <3>1. Local(p)' = Local(p)
      BY <1>2 DEF Local
    <3>2. t.keys \intersect Has(t.start) = {}
      BY <1>3, <2>3 DEF Removed
    <3> QED
      BY <2>2, <2>3, <3>1, <3>2 DEF Chosen
  <2> QED
    BY <2>2, <2>6, <2>7, <2>8, <2>9 DEF Tracks
<1>4. CASE Go(p, [r EXCEPT !.plan = PushPlan])
  <2>1. PICK t : t = [r EXCEPT !.plan = PushPlan]
    OBVIOUS
  <2>2. /\ t.plan = PushPlan /\ t.op = r.op /\ t.env = r.env /\ t.envs = r.envs
        /\ t.keys = r.keys /\ t.kv = r.kv /\ t.key = r.key /\ t.start = r.start
        /\ t.where = r.where /\ t.gone = r.gone /\ t.alone = r.alone /\ t.missed = r.missed
        /\ t.choice = r.choice
    BY <1>2, <2>1 DEF Runs
  <2> QED
    BY <1>3, <1>4, <2>1, <2>2
<1>5. CASE Go(p, [r EXCEPT !.plan = PushPlan, !.keys = Removed(r)])
  <2>1. PICK t : t = [r EXCEPT !.plan = PushPlan, !.keys = Removed(r)]
    OBVIOUS
  <2>2. /\ t.plan = PushPlan /\ t.op = r.op /\ t.env = r.env /\ t.envs = r.envs
        /\ t.keys = Removed(r) /\ t.kv = r.kv /\ t.key = r.key /\ t.start = r.start
        /\ t.where = r.where /\ t.gone = r.gone /\ t.alone = r.alone /\ t.missed = r.missed
        /\ t.choice = r.choice
    BY <1>2, <2>1 DEF Runs
  <2> QED
    BY <1>3, <1>5, <2>1, <2>2
<1>6. CASE Go(p, Idle)
  BY <1>6, MissedTracks
<1> QED
  BY <1>1, <1>4, <1>5, <1>6 DEF ChoosePush

\* What a pull is about is what it has listed and cached; the other places follow.
LEMMA LoadTracks ==
    ASSUME SyncInv, Tracked, NEW p \in Processes, Load(p)
    PROVE  Tracked'
<1>1. PICK r, t : r = run[p] /\ t = [After(run[p]) EXCEPT !.kv = Only(run[p].buf, run[p].only)]
  OBVIOUS
<1>2. /\ r \in Runs /\ r.plan # <<>> /\ Head(r.plan) = "load" /\ r.plan \in Seq(StepNames)
      /\ r.buf \in Content
      /\ UNCHANGED <<cloud, keychain, dotenv, cache, example, keychainOnly, view, file>>
  BY <1>1, AtStep DEF Load, At, Runs, places
<1>3. /\ t.plan = Tail(r.plan) /\ t.start = r.start /\ t.gone = r.gone
      /\ t.op = r.op /\ t.env = r.env /\ t.envs = r.envs /\ t.keys = r.keys
      /\ t.kv = Only(r.buf, r.only) /\ t.key = r.key /\ t.only = r.only
      /\ t.choice = r.choice /\ t.where = r.where
      /\ t.alone = r.alone /\ t.missed = r.missed
  BY <1>1, <1>2 DEF After, Runs
<1>4. Go(p, t)
  BY <1>1 DEF Load
<1>5. SUFFICES ASSUME t.alone, ~t.missed PROVE Tracks(p)'
  BY <1>4, OthersTrack
<1>6. /\ Tracks(p) /\ Planned(r.plan) /\ Stands(r, Left(r.plan)) /\ run'[p] = t
  BY <1>1, <1>3, <1>4, <1>5 DEF Tracked, Tracks, Shaped, Go
<1>7. /\ Planned(t.plan) /\ Left(r.plan) = {"load"} \union Left(t.plan)
      /\ {"keychain", "envw", "example"} \subseteq Left(t.plan)
      /\ "read" \notin Left(t.plan)
  BY <1>2, <1>3, <1>6, LeftOf, PlannedTail DEF Needs
<1>8. /\ r.key = None /\ r.keys = {} /\ r.gone = {} /\ r.op \notin Plain
      /\ r.where = {r.env} /\ Left(t.plan) \intersect Asking = {}
  BY <1>6, <1>7 DEF Stands, Changing
<1>9. /\ Has(t.kv) \subseteq Keys /\ Has(t.kv) \subseteq r.only /\ About(t) = Has(t.kv)
      /\ \A k \in Has(t.kv) : t.kv[k] = r.buf[k]
  BY <1>3, <1>8 DEF Has, Only, About
<1>10. r.buf = cloud[r.env] /\ cache[r.env] = r.buf
  BY <1>1, <1>2, <1>6 DEF Tracks, Buffered
<1>11. Shaped(t)
  <2>1. None \notin Keys
    BY SyncAssumption
  <2>2. Has(t.kv) \intersect (t.keys \union t.gone \union {t.key}) = {}
    BY <1>3, <1>8, <1>9, <2>1
  <2>3. t.op \notin {"list", "diff"} /\ t.where # {}
    BY <1>3, <1>8 DEF Plain
  <2>4. Left(t.plan) \intersect {"prompt", "choose", "confirm"} = {}
    BY <1>8 DEF Asking
  <2>5. Stands(t, Left(t.plan))
    BY <1>3, <1>8, <2>2, <2>3, <2>4 DEF Stands
  <2> QED
    BY <1>7, <2>5 DEF Shaped
<1>12. Noted(p)' /\ Chosen(p)'
  BY <1>6, <1>7, <1>8 DEF Noted, Chosen, Asking
<1>13. Buffered(p)'
  BY <1>1, <1>2, <1>3, <1>6, QuietBuffered
<1>14. Wins(p)'
  <2>1. Local(p)' = Local(p)
    BY <1>2 DEF Local
  <2>2. Has(r.start) \intersect r.only = {} => Has(t.kv) \intersect Has(t.start) = {}
    BY <1>3, <1>9
  <2>3. "compare" \in Left(t.plan) => "compare" \in Left(r.plan)
    BY <1>7
  <2> QED
    BY <1>1, <1>3, <1>6, <1>7, <1>8, <2>1, <2>2, <2>3 DEF Tracks, Wins
<1>15. Spread(p)'
  <2> SUFFICES ASSUME NEW e \in t.where, NEW k \in About(t)
               PROVE  Reaches(p, e, k, t.kv[k], Pending(t, e, k))'
    BY <1>6 DEF Spread
  <2>1. e = r.env /\ t.kv[k] = r.buf[k]
    BY <1>3, <1>8, <1>9
  <2>2. Pending(t, e, k) = Left(t.plan)
    BY <1>3, <1>8, <2>1 DEF Pending
  <2> QED
    BY <1>2, <1>7, <1>10, <2>1, <2>2 DEF Reaches
<1> QED
  BY <1>6, <1>11, <1>12, <1>13, <1>14, <1>15 DEF Tracks

\* What a push is about is what it reads, which it then brings everywhere else.
LEMMA ReadTracks ==
    ASSUME SyncInv, Tracked, NEW p \in Processes, Read(p)
    PROVE  Tracked'
<1>1. PICK r, t : /\ r = run[p]
                  /\ t = [run[p] EXCEPT !.kv = Local(p),
                                        !.plan = IF Local(p) = Empty THEN <<>> ELSE Tail(@)]
  OBVIOUS
<1>2. /\ r \in Runs /\ r.plan # <<>> /\ Head(r.plan) = "read" /\ r.plan \in Seq(StepNames)
      /\ UNCHANGED <<cloud, keychain, dotenv, cache, example, keychainOnly, view, file>>
  BY <1>1, AtStep DEF Read, ReadLocal, At, Runs, places
<1>3. CASE Go(p, Abort(run[p]))
  BY <1>1, <1>2, <1>3, AfterGoes, MissedTracks
<1>4. CASE Go(p, t)
  <2>1. /\ t.plan = (IF Local(p) = Empty THEN <<>> ELSE Tail(r.plan))
        /\ t.start = r.start /\ t.gone = r.gone
        /\ t.op = r.op /\ t.env = r.env /\ t.envs = r.envs /\ t.keys = r.keys
        /\ t.kv = Local(p) /\ t.key = r.key /\ t.only = r.only
        /\ t.choice = r.choice /\ t.where = r.where
        /\ t.alone = r.alone /\ t.missed = r.missed
    BY <1>1, <1>2 DEF Runs
  <2>2. SUFFICES ASSUME t.alone, ~t.missed PROVE Tracks(p)'
    BY <1>4, OthersTrack
  <2>3. /\ Tracks(p) /\ Planned(r.plan) /\ Stands(r, Left(r.plan)) /\ run'[p] = t
    BY <1>1, <1>4, <2>1, <2>2 DEF Tracked, Tracks, Shaped, Go
  <2>4. /\ Planned(Tail(r.plan)) /\ Left(r.plan) = {"read"} \union Left(Tail(r.plan))
        /\ {"keychain", "upload", "store", "example"} \subseteq Left(Tail(r.plan))
        /\ "read" \notin Left(Tail(r.plan)) /\ "compare" \notin Left(Tail(r.plan))
    BY <1>2, <2>3, LeftOf, PlannedTail DEF Needs
  <2>5. /\ r.key = None /\ r.gone = {} /\ r.op \notin Plain
        /\ r.where = {r.env} /\ Left(r.plan) \intersect Asking = {}
    BY <2>3, <2>4 DEF Stands, Changing
  <2>6. /\ r.keys \intersect Has(r.start) = {} /\ r.start = Local(p) /\ r.choice # "missing"
    BY <1>1, <2>3, <2>4 DEF Tracks, Chosen, Wins
  <2>7. /\ About(t) = Has(t.kv) /\ Has(t.kv) = Has(r.start) /\ None \notin Has(t.kv)
        /\ \A k \in Has(t.kv) : k \in Keys
    BY <2>1, <2>5, <2>6, SyncAssumption DEF About, Has
  <2>8. Has(t.kv) \intersect (t.keys \union t.gone \union {t.key}) = {}
    BY <2>1, <2>5, <2>6, <2>7
  <2>9. CASE Local(p) = Empty
    <3>1. t.plan = <<>> /\ Left(t.plan) = {} /\ About(t) = {}
      BY <2>1, <2>7, <2>9, NothingLeft DEF Has, Empty
    <3>2. Stands(t, {}) /\ Planned(<<>>)
      BY <2>1, <2>5, <2>8, PlansArePlanned DEF Stands, Plain
    <3>3. Shaped(t)
      BY <3>1, <3>2 DEF Shaped
    <3>4. Spread(p)' /\ Noted(p)' /\ Buffered(p)' /\ Chosen(p)' /\ Wins(p)'
      BY <2>1, <2>3, <2>6, <3>1 DEF Spread, Noted, Buffered, Chosen, Wins
    <3> QED
      BY <2>3, <3>3, <3>4 DEF Tracks
  <2>10. CASE Local(p) # Empty
    <3>1. t.plan = Tail(r.plan) /\ Left(t.plan) \subseteq Left(r.plan)
      BY <2>1, <2>4, <2>10
    <3>2. Left(t.plan) \intersect Asking = {} /\ ("load" \notin Left(t.plan) \/ t.keys = {})
      <4>1. Left(t.plan) \intersect Asking = {}
        BY <2>5, <3>1
      <4>2. "load" \notin Left(t.plan) \/ r.keys = {}
        BY <2>3, <3>1 DEF Stands
      <4> QED
        BY <2>1, <4>1, <4>2
    <3>3. Shaped(t)
      <4>1. t.op \notin Plain /\ t.where = {t.env} /\ t.key = None /\ t.gone = {}
        BY <2>1, <2>5
      <4>2. /\ Left(t.plan) \intersect {"prompt", "choose", "confirm"} = {}
            /\ t.op \notin {"list", "diff"}
        BY <3>2, <4>1 DEF Asking, Plain
      <4>3. Stands(t, Left(t.plan))
        BY <2>8, <3>2, <4>1, <4>2 DEF Stands
      <4> QED
        BY <2>4, <3>1, <4>3 DEF Shaped
    <3>4. Noted(p)' /\ Chosen(p)' /\ Wins(p)'
      BY <2>1, <2>3, <2>4, <2>6, <3>1, <3>2 DEF Noted, Chosen, Wins, Asking
    <3>5. Buffered(p)'
      BY <1>1, <1>2, <2>3, <3>1, QuietBuffered
    <3>6. Spread(p)'
      <4> SUFFICES ASSUME NEW e \in t.where, NEW k \in About(t)
                   PROVE  Reaches(p, e, k, t.kv[k], Pending(t, e, k))'
        BY <2>3 DEF Spread
      <4>1. Pending(t, e, k) = Left(t.plan)
        BY <2>1, <2>5 DEF Pending
      <4>2. keychainOnly \/ dotenv[file[p]] = t.kv
        BY <2>1 DEF Local
      <4> QED
        BY <1>2, <2>4, <3>1, <4>1, <4>2 DEF Reaches
    <3> QED
      BY <2>3, <3>3, <3>4, <3>5, <3>6 DEF Tracks
  <2> QED
    BY <2>9, <2>10
<1> QED
  BY <1>1, <1>3, <1>4 DEF Read, ReadLocal

\* A command that still asks about one key has not begun to delete it.
LEMMA DeletionTracks ==
    ASSUME NEW p \in Processes, Tracks(p), NEW r \in Runs, r = run[p], r.plan # <<>>,
           Head(r.plan) \in {"exists", "found"}, r.key \in Keys, r.key # None,
           NEW s \in {DeletePlan, <<"refresh", "store", "found">>},
           run'[p] = [r EXCEPT !.plan = s],
           UNCHANGED <<cloud, keychain, dotenv, cache, example, keychainOnly, view, file>>
    PROVE  Tracks(p)'
<1>1. PICK t : t = run'[p]
  OBVIOUS
<1>2. /\ t.plan = s /\ t.op = r.op /\ t.env = r.env /\ t.envs = r.envs
      /\ t.keys = r.keys /\ t.kv = r.kv /\ t.key = r.key /\ t.start = r.start
      /\ t.where = r.where /\ t.gone = r.gone /\ t.only = r.only /\ t.choice = r.choice
  BY <1>1 DEF Runs
<1>3. r.plan \in Seq(StepNames) /\ Planned(r.plan) /\ Stands(r, Left(r.plan))
  BY DEF Runs, Tracks, Shaped
<1>4. Left(r.plan) = {Head(r.plan)} /\ Left(r.plan) \intersect Asking # {}
  <2>1. Tail(r.plan) = <<>> /\ Left(r.plan) = {Head(r.plan)} \union Left(Tail(r.plan))
    BY <1>3, LeftOf, PlannedTail DEF Asking
  <2> QED
    BY <2>1, NothingLeft DEF Asking
<1>5. /\ Planned(s) /\ s # <<>> /\ Head(s) \in {"drop", "refresh"}
      /\ \/ Left(s) = {"drop", "env", "envw", "forget", "cache", "cachew", "example"}
         \/ Left(s) = {"refresh", "store", "found"}
  <2>1. CASE s = DeletePlan
    <3>1. DeletePlan # <<>> /\ Head(DeletePlan) = "drop"
      BY DEF DeletePlan
    <3> QED
      BY <2>1, <3>1, PlansAreLeft, PlansArePlanned
  <2>2. CASE s = <<"refresh", "store", "found">>
    <3>1. s # <<>> /\ Head(s) = "refresh"
      BY <2>2
    <3> QED
      BY <2>2, <3>1, PlansAreLeft, PlansArePlanned
  <2> QED
    BY <2>1, <2>2
<1>6. r.op \notin Plain /\ r.where = {r.env}
  BY <1>3 DEF Stands
<1>7. Shaped(t)
  <2>1. Left(s) \intersect Asking = {} \/ Left(s) \intersect Changing = {}
    BY <1>5 DEF Asking, Changing
  <2>2. Left(s) \intersect {"keychain", "upload", "load", "read", "choose", "confirm", "prompt"} = {}
    BY <1>5
  <2>3. t.op \notin Plain /\ t.op \notin {"list", "diff"} /\ t.where = {t.env} /\ t.key # None
    BY <1>2, <1>6 DEF Plain
  <2>4. Has(t.kv) \intersect (t.keys \union t.gone \union {t.key}) = {}
    BY <1>2, <1>3 DEF Stands
  <2>5. Stands(t, Left(s))
    BY <2>1, <2>2, <2>3, <2>4 DEF Stands
  <2> QED
    BY <1>2, <1>5, <2>5 DEF Shaped
<1>8. Spread(p)'
  <2>1. Allows(Left(r.plan), Left(s))
    BY <1>4 DEF Allows
  <2>2. \A e, k : Allows(Pending(r, e, k), Pending(t, e, k))
    <3> TAKE e, k
    <3>1. CASE e = r.env /\ (r.key = None \/ k = r.key)
      BY <1>2, <2>1, <3>1 DEF Pending
    <3>2. CASE ~(e = r.env /\ (r.key = None \/ k = r.key))
      BY <1>2, <3>2 DEF Pending, Allows
    <3> QED
      BY <3>1, <3>2
  <2>3. About(t) = About(r) /\ Spread(p) /\ t.where = r.where /\ t.kv = r.kv
    BY <1>2 DEF About, Tracks
  <2> QED
    BY <1>1, <2>2, <2>3, StillSpread
<1>9. Noted(p)'
  <2>1. "example" \notin Left(r.plan)
    BY <1>4
  <2> QED
    BY <1>1, <1>2, <2>1 DEF Tracks, Noted, About, Existing
<1>10. Buffered(p)' /\ Chosen(p)'
  BY <1>1, <1>2, <1>5 DEF Buffered, Chosen
<1>11. Wins(p)'
  <2>1. t.choice # "missing"
    BY <1>2 DEF Tracks, Wins
  <2> QED
    BY <1>1, <2>1 DEF Wins
<1> QED
  BY <1>1, <1>7, <1>8, <1>9, <1>10, <1>11 DEF Tracks

LEMMA ExistsFoundTrack ==
    ASSUME SyncInv, Tracked, NEW p \in Processes, Exists(p) \/ Found(p)
    PROVE  Tracked'
<1>1. PICK r : r = run[p]
  OBVIOUS
<1>2. /\ r \in Runs /\ r.plan # <<>> /\ Head(r.plan) \in {"exists", "found"}
      /\ r.key \in Keys /\ r.key # None
      /\ UNCHANGED <<cloud, keychain, dotenv, cache, example, keychainOnly, view, file>>
  BY <1>1, AtStep, KeyOfStep, SyncAssumption DEF Exists, Found, At, OfOneKey, places
<1>3. ASSUME NEW s \in {DeletePlan, <<"refresh", "store", "found">>},
             Go(p, [r EXCEPT !.plan = s])
      PROVE  Tracked'
  <2>1. PICK t : t = [r EXCEPT !.plan = s]
    OBVIOUS
  <2>2. t.alone = r.alone /\ t.missed = r.missed /\ Go(p, t) /\ run'[p] = t
    BY <1>2, <1>3, <2>1 DEF Runs, Go
  <2>3. SUFFICES ASSUME t.alone, ~t.missed PROVE Tracks(p)'
    BY <2>2, OthersTrack
  <2>4. Tracks(p)
    BY <1>1, <2>2, <2>3 DEF Tracked
  <2> QED
    BY <1>1, <1>2, <2>1, <2>2, <2>4, DeletionTracks
<1>4. CASE Go(p, Idle)
  BY <1>4, MissedTracks
<1> QED
  BY <1>1, <1>3, <1>4 DEF Exists, Found

LEMMA ConfirmTracks ==
    ASSUME SyncInv, Tracked, NEW p \in Processes, Confirm(p)
    PROVE  Tracked'
<1>1. PICK r, t : r = run[p] /\ t = [After(run[p]) EXCEPT !.keys = Has(run[p].buf)]
  OBVIOUS
<1>2. r \in Runs /\ r.plan # <<>> /\ Head(r.plan) = "confirm"
  BY <1>1, AtStep DEF Confirm, At
<1>3. CASE Go(p, t)
  <2>1. /\ t.plan = Tail(r.plan) /\ t.gone = r.gone /\ t.op = r.op /\ t.env = r.env
        /\ t.kv = r.kv /\ t.key = r.key /\ t.choice = r.choice /\ t.where = r.where
        /\ t.alone = r.alone /\ t.missed = r.missed
    BY <1>1, <1>2 DEF After, Runs
  <2>2. SUFFICES ASSUME t.alone, ~t.missed PROVE Tracks(p)'
    BY <1>3, OthersTrack
  <2>3. Tracks(p) /\ run'[p] = t
    BY <1>1, <1>3, <2>1, <2>2 DEF Tracked, Go
  <2>4. /\ t.key = None /\ t.kv = Empty /\ t.gone = {} /\ t.choice = "all"
        /\ t.op \notin Plain /\ t.where = {t.env} /\ t.plan = <<>>
    BY <1>1, <1>2, <2>1, <2>3, StillAsking
  <2>5. Has(t.kv) = {} /\ About(t) = {} /\ Left(t.plan) = {}
    BY <2>4, NothingLeft DEF Has, Empty, About
  <2>6. Shaped(t)
    BY <2>4, <2>5, PlansArePlanned DEF Shaped, Stands, Plain
  <2> QED
    BY <2>3, <2>4, <2>5, <2>6, FreshTracks
<1>4. CASE Go(p, Idle)
  BY <1>4, MissedTracks
<1> QED
  BY <1>1, <1>3, <1>4 DEF Confirm

LEMMA PromptTracks ==
    ASSUME SyncInv, Tracked, NEW p \in Processes, Prompt(p)
    PROVE  Tracked'
<1>1. PICK r : r = run[p]
  OBVIOUS
<1>2. r \in Runs /\ r.plan # <<>> /\ Head(r.plan) = "prompt"
  BY <1>1, AtStep DEF Prompt, At
<1>3. ASSUME NEW kv \in Content, Go(p, [After(r) EXCEPT !.kv = kv])
      PROVE  Tracked'
  <2>1. PICK t : t = [After(r) EXCEPT !.kv = kv]
    OBVIOUS
  <2>2. /\ t.plan = Tail(r.plan) /\ t.gone = r.gone /\ t.op = r.op /\ t.envs = r.envs
        /\ t.kv = kv /\ t.key = r.key /\ t.keys = r.keys /\ t.choice = r.choice
        /\ t.where = r.where /\ t.alone = r.alone /\ t.missed = r.missed
    BY <1>2, <2>1 DEF After, Runs
  <2>3. SUFFICES ASSUME t.alone, ~t.missed PROVE Tracks(p)'
    BY <1>3, <2>1, OthersTrack
  <2>4. /\ Tracks(p) /\ run'[p] = t /\ Planned(r.plan) /\ Stands(r, Left(r.plan))
        /\ r.plan \in Seq(StepNames)
    BY <1>1, <1>2, <1>3, <2>1, <2>2, <2>3 DEF Tracked, Go, Tracks, Shaped, Runs
  <2>5. "prompt" \in Left(r.plan) /\ t.plan = <<>>
    BY <1>2, <2>2, <2>4, LeftOf, PlannedTail DEF Asking
  <2>6. /\ r.where = {} /\ r.op \in Plain /\ r.op \notin {"list", "diff"}
        /\ r.key = None /\ r.keys = {} /\ r.gone = {}
        /\ r.op # "idle" => r.envs # <<>>
    BY <2>4, <2>5 DEF Stands
  <2>7. t.choice = "all"
    BY <1>1, <1>2, <2>2, <2>4, <2>5 DEF Tracks, Wins, Asking, Runs
  <2>8. Has(t.kv) \intersect (t.keys \union t.gone \union {t.key}) = {}
    BY <2>2, <2>6, SyncAssumption DEF Has
  <2>9. Left(t.plan) = {}
    BY <2>5, NothingLeft
  <2>10. Shaped(t)
    <3>1. Stands(t, {})
      BY <2>2, <2>6, <2>8 DEF Stands
    <3> QED
      BY <2>5, <2>9, <3>1, PlansArePlanned DEF Shaped
  <2> QED
    BY <2>2, <2>4, <2>5, <2>6, <2>7, <2>9, <2>10, FreshTracks
<1>4. CASE Go(p, Idle)
  BY <1>4, MissedTracks
<1> QED
  BY <1>1, <1>3, <1>4 DEF Prompt

LEMMA NextEnvTracks ==
    ASSUME SyncInv, Tracked, NEW p \in Processes, NextEnv(p)
    PROVE  Tracked'
<1>1. PICK r, t :
         /\ r = run[p]
         /\ t = [run[p] EXCEPT !.env = Head(run[p].envs), !.envs = Tail(@),
                               !.where = @ \union {Head(run[p].envs)},
                               !.plan = EachEnvPlan(run[p].op)]
  OBVIOUS
<1>2. /\ r \in Runs /\ r.plan = <<>> /\ r.envs # <<>> /\ r.op \in {"set", "list", "diff"}
      /\ Go(p, t)
      /\ UNCHANGED <<cloud, keychain, dotenv, cache, example, keychainOnly, view, file>>
  BY <1>1 DEF NextEnv, SyncInv, Typed, Fits, EnvFits, places
<1>3. /\ t.env = Head(r.envs) /\ t.where = r.where \union {t.env} /\ t.plan = EachEnvPlan(r.op)
      /\ t.op = r.op /\ t.keys = r.keys /\ t.kv = r.kv /\ t.key = r.key
      /\ t.start = r.start /\ t.only = r.only /\ t.choice = r.choice /\ t.gone = r.gone
      /\ t.alone = r.alone /\ t.missed = r.missed
  BY <1>1, <1>2 DEF Runs
<1>4. SUFFICES ASSUME t.alone, ~t.missed PROVE Tracks(p)'
  BY <1>2, OthersTrack
<1>5. Tracks(p) /\ run'[p] = t /\ Stands(r, {})
  <2>1. Tracks(p) /\ run'[p] = t
    BY <1>1, <1>2, <1>3, <1>4 DEF Tracked, Go
  <2> QED
    BY <1>1, <1>2, <2>1, NothingLeft DEF Tracks, Shaped
<1>6. /\ r.key = None /\ r.keys = {} /\ r.gone = {}
      /\ About(t) = Has(t.kv) /\ About(r) = Has(r.kv)
      /\ r.op \in {"list", "diff"} => r.kv = Empty
      /\ Has(t.kv) \intersect (t.keys \union t.gone \union {t.key}) = {}
  BY <1>2, <1>3, <1>5 DEF Stands, Plain, About
<1>7. /\ Planned(t.plan) /\ t.plan # <<>> /\ Head(t.plan) \in {"keychain", "refresh", "list"}
      /\ \/ /\ r.op = "set"
            /\ Left(t.plan) = {"keychain", "upload", "env", "envw", "cache", "cachew", "example"}
         \/ /\ r.op \in {"list", "diff"}
            /\ Left(t.plan) \in {{"refresh", "store"}, {"list", "store"}}
  <2>1. CASE r.op = "set"
    <3>1. t.plan = SetPlan
      BY <1>3, <2>1 DEF EachEnvPlan
    <3>2. SetPlan # <<>> /\ Head(SetPlan) = "keychain"
      BY DEF SetPlan
    <3> QED
      BY <2>1, <3>1, <3>2, PlansAreLeft, PlansArePlanned
  <2>2. CASE r.op = "list"
    <3>1. t.plan = <<"refresh", "store">>
      BY <1>3, <2>2 DEF EachEnvPlan
    <3>2. t.plan # <<>> /\ Head(t.plan) = "refresh"
      BY <3>1
    <3> QED
      BY <2>2, <3>1, <3>2, PlansAreLeft, PlansArePlanned
  <2>3. CASE r.op = "diff"
    <3>1. t.plan = <<"list", "store">>
      BY <1>3, <2>3 DEF EachEnvPlan
    <3>2. t.plan # <<>> /\ Head(t.plan) = "list"
      BY <3>1
    <3> QED
      BY <2>3, <3>1, <3>2, PlansAreLeft, PlansArePlanned
  <2> QED
    BY <1>2, <2>1, <2>2, <2>3
<1>8. Shaped(t)
  <2>1. Left(t.plan) \intersect (Asking \union {"read", "load", "compare"}) = {}
    BY <1>7 DEF Asking
  <2>2. Stands(t, Left(t.plan))
    BY <1>2, <1>3, <1>6, <2>1 DEF Stands, Plain, Asking
  <2> QED
    BY <1>7, <2>2 DEF Shaped
<1>9. About(t) # {} => r.op = "set"
  BY <1>2, <1>3, <1>6 DEF Has, Empty
<1>10. Noted(p)'
  BY <1>5, <1>7, <1>9 DEF Noted
<1>11. Buffered(p)' /\ Chosen(p)'
  BY <1>5, <1>7 DEF Buffered, Chosen
<1>12. Wins(p)'
  <2>1. Local(p)' = Local(p)
    BY <1>2 DEF Local
  <2>2. Left(t.plan) \intersect (Asking \union {"read", "compare"}) = {}
    BY <1>7 DEF Asking
  <2> QED
    BY <1>1, <1>3, <1>5, <2>1, <2>2 DEF Tracks, Wins
<1>13. Spread(p)'
  <2> SUFFICES ASSUME NEW e \in t.where, NEW k \in About(t)
               PROVE  Reaches(p, e, k, t.kv[k], Pending(t, e, k))'
    BY <1>5 DEF Spread
  <2>1. CASE e = t.env
    <3>1. Pending(t, e, k) = Left(t.plan)
      BY <1>3, <1>6, <2>1 DEF Pending
    <3> QED
      BY <1>7, <1>9, <3>1 DEF Reaches
  <2>2. CASE e # t.env
    <3>1. Pending(t, e, k) = {} /\ Pending(r, e, k) = {}
      BY <1>2, <2>2, NothingLeft DEF Pending
    <3>2. Reaches(p, e, k, r.kv[k], {})
      BY <1>1, <1>3, <1>5, <1>6, <2>2, <3>1 DEF Tracks, Spread
    <3> QED
      BY <1>2, <1>3, <3>1, <3>2 DEF Reaches
  <2> QED
    BY <2>1, <2>2
<1> QED
  BY <1>5, <1>8, <1>10, <1>11, <1>12, <1>13 DEF Tracks

LEMMA NextKeyTracks ==
    ASSUME SyncInv, Tracked, NEW p \in Processes, NextKey(p)
    PROVE  Tracked'
<1>1. PICK r : r = run[p]
  OBVIOUS
<1>2. /\ r \in Runs /\ r.plan = <<>> /\ r.envs = <<>>
      /\ UNCHANGED <<cloud, keychain, dotenv, cache, example, keychainOnly, view, file>>
  BY <1>1 DEF NextKey, SyncInv, Typed, places
<1>3. PICK key \in r.keys :
         Go(p, [r EXCEPT !.key = key, !.keys = @ \ {key}, !.plan = DeletePlan])
  BY <1>1 DEF NextKey
<1>4. PICK t : t = [r EXCEPT !.key = key, !.keys = @ \ {key}, !.plan = DeletePlan]
  OBVIOUS
<1>5. /\ t.env = r.env /\ t.envs = r.envs /\ t.where = r.where /\ t.plan = DeletePlan
      /\ t.op = r.op /\ t.keys = r.keys \ {key} /\ t.kv = r.kv /\ t.key = key
      /\ t.start = r.start /\ t.only = r.only /\ t.choice = r.choice /\ t.gone = r.gone
      /\ t.alone = r.alone /\ t.missed = r.missed /\ key \in Keys /\ key # None
  BY <1>2, <1>3, <1>4, SyncAssumption DEF Runs
<1>6. SUFFICES ASSUME t.alone, ~t.missed PROVE Tracks(p)'
  BY <1>3, <1>4, OthersTrack
<1>7. Tracks(p) /\ run'[p] = t
  BY <1>1, <1>3, <1>4, <1>5, <1>6 DEF Tracked, Go
<1>8. Stands(r, {})
  BY <1>1, <1>2, <1>7, NothingLeft DEF Tracks, Shaped
<1>9. /\ r.op \notin Plain /\ r.where = {r.env} /\ About(t) = About(r)
      /\ Has(t.kv) \intersect (t.keys \union t.gone \union {t.key}) = {}
  BY <1>3, <1>5, <1>8 DEF Stands, About
<1>10. /\ Left(t.plan) = {"drop", "env", "envw", "forget", "cache", "cachew", "example"}
       /\ Planned(t.plan) /\ t.plan # <<>> /\ Head(t.plan) = "drop"
  <2>1. DeletePlan # <<>> /\ Head(DeletePlan) = "drop"
    BY DEF DeletePlan
  <2> QED
    BY <1>5, <2>1, PlansAreLeft, PlansArePlanned
<1>11. Shaped(t)
  <2>1. Left(t.plan) \intersect (Asking \union {"read", "load", "keychain", "upload"}) = {}
    BY <1>10 DEF Asking
  <2>2. t.op \notin Plain /\ t.op \notin {"list", "diff"} /\ t.where = {t.env} /\ t.key # None
    BY <1>5, <1>9 DEF Plain
  <2>3. Stands(t, Left(t.plan))
    BY <1>9, <2>1, <2>2 DEF Stands, Asking
  <2> QED
    BY <1>10, <2>3 DEF Shaped
<1>12. Noted(p)' /\ Buffered(p)' /\ Chosen(p)'
  BY <1>7, <1>10 DEF Noted, Buffered, Chosen
<1>13. Wins(p)'
  <2>1. t.choice # "missing"
    BY <1>1, <1>3, <1>5, <1>7 DEF Tracks, Wins
  <2> QED
    BY <1>7, <2>1 DEF Wins
<1>14. Spread(p)'
  <2>1. \A e, k : Allows(Pending(r, e, k), Pending(t, e, k))
    <3>1. \A e, k : Pending(r, e, k) = {}
      BY <1>2, NothingLeft DEF Pending
    <3> QED
      BY <3>1 DEF Allows
  <2>2. /\ Spread(p) /\ t.where = r.where /\ t.kv = r.kv /\ About(t) = About(r)
        /\ UNCHANGED <<cloud, keychain, dotenv, cache, keychainOnly, file>>
    BY <1>2, <1>5, <1>7, <1>9 DEF Tracks
  <2> QED
    BY <1>1, <1>7, <2>1, <2>2, StillSpread
<1> QED
  BY <1>7, <1>11, <1>12, <1>13, <1>14 DEF Tracks

LEMMA EndTracks ==
    ASSUME SyncInv, Tracked, NEW p \in Processes, Finish(p) \/ Kill(p)
    PROVE  Tracked'
BY MissedTracks DEF Finish, Kill

-----------------------------------------------------------------------------
(* Commands, and what happens around them.                                 *)

LEMMA StartedTracks ==
    ASSUME SyncInv, Tracked, NEW p \in Processes, NEW t, Started(p, t), Shaped(t),
           t.where = {} \/ About(t) = {},
           t.plan # <<>> => Head(t.plan) \notin {"envw", "cachew", "store", "load"},
           "read" \notin Left(t.plan),
           "choose" \in Left(t.plan) => "compare" \in Left(t.plan),
           t.choice = "all"
    PROVE  Tracked'
<1>1. Go(p, t)
  BY DEF Started
<1>2. run'[p] = t
  BY <1>1 DEF Go
<1> QED
  BY <1>1, <1>2, FreshTracks, OthersTrack

\* A command about the secrets of one environment begins with a look, a pull or a
\* deletion.
LEMMA CommandTracks ==
    ASSUME SyncInv, Tracked, NEW p \in Processes, NEW e \in Envs,
           NEW op \in {"pull", "push", "delete", "clean", "status"},
           NEW s \in {DiffPlan, PullPlan, <<"list", "store", "confirm">>,
                      <<"compare", "list", "store">>, <<"compare">>},
           NEW t, t = [Idle EXCEPT !.op = op, !.env = e, !.where = {e}, !.plan = s],
           Started(p, t)
    PROVE  Tracked'
<1>1. /\ t.op = op /\ t.env = e /\ t.where = {e} /\ t.plan = s /\ t.kv = Empty
      /\ t.key = None /\ t.keys = {} /\ t.gone = {} /\ t.choice = "all"
  BY DEF Idle
<1>2. Has(t.kv) = {} /\ About(t) = {}
  BY <1>1 DEF Has, Empty, About
<1>3. /\ Planned(s) /\ Left(s) \in {{"compare", "list", "store", "choose"},
            {"list", "store", "load", "keychain", "env", "envw", "save", "example"},
            {"list", "store", "confirm"}, {"compare", "list", "store"}, {"compare"}}
  BY PlansAreLeft, PlansArePlanned
<1>4. s # <<>> /\ Head(s) \in {"compare", "list"}
  <2>1. /\ DiffPlan # <<>> /\ Head(DiffPlan) = "compare"
        /\ PullPlan # <<>> /\ Head(PullPlan) = "list"
    BY DEF DiffPlan, PullPlan
  <2>2. CASE s \in {<<"list", "store", "confirm">>, <<"compare", "list", "store">>,
                    <<"compare">>}
    BY <2>2
  <2> QED
    BY <2>1, <2>2
<1>5. Stands(t, Left(s))
  <2>1. t.op \notin Plain /\ t.op \notin {"list", "diff"}
    BY <1>1 DEF Plain
  <2>2. /\ Left(s) \intersect {"prompt", "read"} = {}
        /\ Left(s) \intersect Asking # {} => Left(s) \intersect Changing = {}
    BY <1>3 DEF Asking, Changing
  <2> QED
    BY <1>1, <1>2, <2>1, <2>2 DEF Stands
<1>6. Shaped(t)
  BY <1>1, <1>3, <1>5 DEF Shaped
<1>7. /\ "read" \notin Left(s) /\ ("choose" \in Left(s) => "compare" \in Left(s))
  BY <1>3
<1> QED
  BY <1>1, <1>2, <1>4, <1>6, <1>7, StartedTracks

LEMMA OneKeyTracks ==
    ASSUME SyncInv, Tracked, NEW p \in Processes, NEW e \in Envs, NEW k \in Keys,
           NEW s \in {DeletePlan, <<"exists">>},
           NEW t, t = [Command("delete", e, s) EXCEPT !.key = k], Started(p, t)
    PROVE  Tracked'
<1>1. /\ t.op = "delete" /\ t.env = e /\ t.where = {e} /\ t.plan = s /\ t.kv = Empty
      /\ t.key = k /\ t.key # None /\ t.keys = {} /\ t.gone = {} /\ t.choice = "all"
  BY SyncAssumption DEF Idle, Command
<1>2. Has(t.kv) = {} /\ About(t) = {}
  BY <1>1 DEF Has, Empty, About
<1>3. /\ Planned(s)
      /\ Left(s) \in {{"drop", "env", "envw", "forget", "cache", "cachew", "example"},
                      {"exists"}}
  BY PlansAreLeft, PlansArePlanned
<1>4. s # <<>> /\ Head(s) \in {"drop", "exists"}
  <2>1. DeletePlan # <<>> /\ Head(DeletePlan) = "drop"
    BY DEF DeletePlan
  <2>2. CASE s = <<"exists">>
    BY <2>2
  <2> QED
    BY <2>1, <2>2
<1>5. Stands(t, Left(s))
  <2>1. t.op \notin Plain /\ t.op \notin {"list", "diff"}
    BY <1>1 DEF Plain
  <2>2. /\ Left(s) \intersect {"prompt", "read", "keychain", "upload", "load", "choose",
                              "confirm"} = {}
        /\ Left(s) \intersect Asking # {} => Left(s) \intersect Changing = {}
    BY <1>3 DEF Asking, Changing
  <2> QED
    BY <1>1, <1>2, <2>1, <2>2 DEF Stands
<1>6. Shaped(t)
  BY <1>1, <1>3, <1>5 DEF Shaped
<1>7. "read" \notin Left(s) /\ "choose" \notin Left(s)
  BY <1>3
<1> QED
  BY <1>1, <1>2, <1>4, <1>6, <1>7, StartedTracks

\* A command that goes from one environment to the next.
LEMMA EachEnvTracks ==
    ASSUME SyncInv, Tracked, NEW p \in Processes, NEW t, Started(p, t),
           t.op \in {"set", "list", "diff"}, t.where = {}, t.envs # <<>>, t.key = None,
           t.keys = {}, t.gone = {}, t.choice = "all", t.kv \in Content,
           t.op # "set" => t.kv = Empty /\ t.plan = <<>>,
           t.plan \in {<<>>, <<"fetch", "prompt">>}
    PROVE  Tracked'
<1>1. /\ Planned(t.plan) /\ Left(t.plan) \in {{}, {"fetch", "prompt"}}
      /\ t.plan = <<>> => Left(t.plan) = {}
  BY PlansAreLeft, PlansArePlanned, NothingLeft
<1>2. Has(t.kv) \intersect (t.keys \union t.gone \union {t.key}) = {}
  BY SyncAssumption DEF Has
<1>3. Stands(t, Left(t.plan))
  <2>1. Left(t.plan) \intersect Changing = {}
    BY <1>1 DEF Changing
  <2>2. /\ Left(t.plan) \intersect {"choose", "confirm", "load", "read"} = {}
        /\ t.op \in Plain /\ (t.op \in {"list", "diff"} => "prompt" \notin Left(t.plan))
    BY <1>1 DEF Plain
  <2> QED
    BY <1>2, <2>1, <2>2 DEF Stands
<1>4. Shaped(t)
  BY <1>1, <1>3 DEF Shaped
<1>5. t.plan # <<>> => Head(t.plan) = "fetch"
  <2>1. CASE t.plan = <<"fetch", "prompt">>
    BY <2>1
  <2> QED
    BY <2>1
<1>6. "read" \notin Left(t.plan) /\ "choose" \notin Left(t.plan)
  BY <1>1
<1> QED
  BY <1>4, <1>5, <1>6, StartedTracks

LEMMA StartTracks ==
    ASSUME SyncInv, Tracked, NEW p \in Processes,
           \/ Set(p) \/ Copy(p) \/ Pull(p) \/ Push(p) \/ Delete(p) \/ Clean(p)
           \/ ListRemote(p) \/ Status(p) \/ Diff(p) \/ PullSecrets(p) \/ RotateKey(p)
    PROVE  Tracked'
<1>0. active \in Envs /\ Environments # <<>> /\ Batches \subseteq Content /\ Empty \in Content
  BY SyncAssumption DEF SyncInv, Typed, Empty, Content
<1>1. CASE Set(p)
  <2>1. PICK kv \in Batches, all \in BOOLEAN :
           Started(p, [Idle EXCEPT !.op = "set", !.kv = kv,
                                   !.envs = IF all THEN Environments ELSE <<active>>])
    BY <1>1 DEF Set, CLI
  <2>2. PICK t : t = [Idle EXCEPT !.op = "set", !.kv = kv,
                                  !.envs = IF all THEN Environments ELSE <<active>>]
    OBVIOUS
  <2>3. /\ t.op = "set" /\ t.where = {} /\ t.envs # <<>> /\ t.key = None /\ t.keys = {}
        /\ t.gone = {} /\ t.choice = "all" /\ t.kv \in Content /\ t.plan = <<>>
    BY <1>0, <2>2 DEF Idle
  <2> QED
    BY <2>1, <2>2, <2>3, EachEnvTracks
<1>2. CASE Copy(p)
  <2>1. PICK from \in Envs, to \in Envs :
           Started(p, [Idle EXCEPT !.op = "set", !.env = from, !.envs = <<to>>,
                                   !.plan = <<"fetch", "prompt">>])
    BY <1>2 DEF Copy, CLI
  <2>2. PICK t : t = [Idle EXCEPT !.op = "set", !.env = from, !.envs = <<to>>,
                                  !.plan = <<"fetch", "prompt">>]
    OBVIOUS
  <2>3. /\ t.op = "set" /\ t.where = {} /\ t.envs # <<>> /\ t.key = None /\ t.keys = {}
        /\ t.gone = {} /\ t.choice = "all" /\ t.kv \in Content
        /\ t.plan = <<"fetch", "prompt">>
    BY <1>0, <2>2 DEF Idle
  <2> QED
    BY <2>1, <2>2, <2>3, EachEnvTracks
<1>3. CASE Pull(p) \/ Push(p) \/ Clean(p)
  BY <1>0, <1>3, CommandTracks DEF Pull, Push, Clean, CLI, Command
<1>4. CASE Delete(p)
  BY <1>0, <1>4, OneKeyTracks DEF Delete, CLI
<1>5. CASE ListRemote(p)
  <2>1. PICK t : t = [Idle EXCEPT !.op = "list", !.envs = Environments]
    OBVIOUS
  <2>2. /\ t.op = "list" /\ t.where = {} /\ t.envs # <<>> /\ t.key = None /\ t.keys = {}
        /\ t.gone = {} /\ t.choice = "all" /\ t.kv \in Content /\ t.kv = Empty
        /\ t.plan = <<>>
    BY <1>0, <2>1 DEF Idle
  <2> QED
    BY <1>5, <2>1, <2>2, EachEnvTracks DEF ListRemote, CLI
<1>6. ASSUME NEW from, NEW to,
             Started(p, [Idle EXCEPT !.op = "diff", !.envs = <<from, to>>])
      PROVE  Tracked'
  <2>1. PICK t : t = [Idle EXCEPT !.op = "diff", !.envs = <<from, to>>]
    OBVIOUS
  <2>2. /\ t.op = "diff" /\ t.where = {} /\ t.envs # <<>> /\ t.key = None /\ t.keys = {}
        /\ t.gone = {} /\ t.choice = "all" /\ t.kv \in Content /\ t.kv = Empty
        /\ t.plan = <<>>
    BY <1>0, <2>1 DEF Idle
  <2> QED
    BY <1>6, <2>1, <2>2, EachEnvTracks
<1>7. ASSUME NEW e \in Envs,
             NEW s \in {<<"compare", "list", "store">>, <<"compare">>},
             Started(p, [Idle EXCEPT !.op = "status", !.env = e, !.where = {e}, !.plan = s])
      PROVE  Tracked'
  BY <1>7, CommandTracks
<1>8. CASE Status(p)
  <2>1. [Command("status", active, <<"compare", "list", "store">>) EXCEPT !.plan = <<"compare">>]
        = [Idle EXCEPT !.op = "status", !.env = active, !.where = {active},
                       !.plan = <<"compare">>]
    BY DEF Command, Idle
  <2>2. Command("status", active, <<"compare", "list", "store">>)
        = [Idle EXCEPT !.op = "status", !.env = active, !.where = {active},
                       !.plan = <<"compare", "list", "store">>]
    BY DEF Command
  <2> QED
    BY <1>0, <1>7, <1>8, <2>1, <2>2 DEF Status, CLI
<1>9. CASE Diff(p)
  BY <1>6, <1>7, <1>9 DEF Diff, CLI, Command
<1>10. CASE PullSecrets(p)
  BY <1>10, CommandTracks DEF PullSecrets, Request, Command
<1>11. CASE RotateKey(p)
  BY <1>11, OneKeyTracks DEF RotateKey, Request
<1> QED
  BY <1>1, <1>2, <1>3, <1>4, <1>5, <1>8, <1>9, <1>10, <1>11

\* Nothing a running process looks at changes.
LEMMA SameTracks ==
    ASSUME NEW q \in Processes, Tracks(q),
           UNCHANGED <<cloud, keychain, dotenv, cache, example, keychainOnly>>,
           run'[q] = run[q], view'[q] = view[q], file'[q] = file[q]
    PROVE  Tracks(q)'
<1>1. Local(q)' = Local(q)
  BY DEF Local
<1>2. PICK r : r = run[q]
  OBVIOUS
<1>3. Spread(q)' /\ Noted(q)' /\ Buffered(q)'
  BY <1>2 DEF Tracks, Spread, Reaches, Noted, Existing, Buffered
<1>4. Chosen(q)' /\ Wins(q)'
  BY <1>1, <1>2 DEF Tracks, Chosen, Wins
<1> QED
  BY <1>2, <1>3, <1>4 DEF Tracks

LEMMA AroundTracks ==
    ASSUME SyncInv, Tracked,
           NEW p \in Processes, Switch(p) \/ SwitchEnvironment(p) \/ StartServer(p)
    PROVE  Tracked'
<1>1. /\ UNCHANGED <<cloud, keychain, dotenv, cache, example, keychainOnly, run>>
      /\ run[p] = Idle
      /\ \A q \in Processes : q # p => view'[q] = view[q] /\ file'[q] = file[q]
  BY DEF Switch, SwitchEnvironment, StartServer, places, SyncInv, Typed
<1> SUFFICES ASSUME NEW q \in Processes, run'[q].alone, ~run'[q].missed
             PROVE  Tracks(q)'
  BY DEF Tracked
<1>2. CASE q = p
  BY <1>1, <1>2, IdleTracks
<1>3. CASE q # p
  BY <1>1, <1>3, SameTracks DEF Tracked
<1> QED
  BY <1>2, <1>3

LEMMA DisturbedTracks ==
    ASSUME SyncInv, Teammate \/ Edit
    PROVE  Tracked'
<1> SUFFICES ASSUME NEW q \in Processes, run'[q].alone PROVE Tracks(q)'
  BY DEF Tracked
<1>1. run'[q] = Disturbed(q) /\ run[q] \in Runs
  BY DEF Teammate, Edit, SyncInv, Typed
<1>2. run'[q] = Idle
  BY <1>1 DEF Disturbed, Runs
<1> QED
  BY <1>2, IdleTracks

LEMMA InitTracks == Init => Tracked
<1> SUFFICES ASSUME Init, NEW p \in Processes PROVE Tracks(p)
  BY DEF Tracked
<1>1. run[p] = Idle
  BY DEF Init
<1> QED
  BY <1>1, IdleTracks

LEMMA NextTracks ==
    ASSUME SyncInv, Tracked, [Next]_vars
    PROVE  Tracked'
<1>1. ASSUME NEW p \in Processes, Step(p) PROVE Tracked'
  BY <1>1, KeychainTracks, UploadTracks, EnvTracks, EnvWriteTracks, CacheTracks,
     CacheWriteTracks, ExampleTracks, ListTracks, StoreTracks, SaveFetchTrack,
     CompareTracks, ChoosePullTracks, LoadTracks, ChoosePushTracks, ReadTracks,
     DropTracks, ForgetTracks, ExistsFoundTrack, ConfirmTracks, PromptTracks,
     NextEnvTracks, NextKeyTracks, EndTracks DEF Step
<1>2. ASSUME NEW p \in Processes, Start(p) \/ Kill(p) \/ StartServer(p) PROVE Tracked'
  BY <1>2, StartTracks, AroundTracks, EndTracks DEF Start
<1>3. CASE Teammate \/ Edit
  BY <1>3, DisturbedTracks
<1>4. CASE UNCHANGED vars
  <2>1. /\ UNCHANGED <<cloud, keychain, dotenv, cache, example, keychainOnly, run, view, file>>
    BY <1>4 DEF vars, places
  <2> SUFFICES ASSUME NEW q \in Processes, run'[q].alone, ~run'[q].missed
               PROVE  Tracks(q)'
    BY DEF Tracked
  <2> QED
    BY <2>1, SameTracks DEF Tracked
<1> QED
  BY <1>1, <1>2, <1>3, <1>4 DEF Next

-----------------------------------------------------------------------------
(* Theorems.                                                               *)

\* What a command that has the places to itself, and has missed nothing, has left to do
\* is all that keeps the places from agreeing.
THEOREM TrackedInvariant == Spec => []Tracked
<1>1. Init => Tracked
  BY InitTracks
<1>2. SyncInv /\ Tracked /\ [Next]_vars => Tracked'
  BY NextTracks
<1> QED
  BY <1>1, <1>2, SyncInvariant, PTL DEF Spec

\* BatchSet, Pull, Push and Delete (secrets.go): a command that ends without an error or
\* an ignored failure, while nothing else happened, leaves cloud, keychain, .env file and
\* cached copy with the same value of every key it was about, and .env.example with the
\* keychain's keys.
THEOREM PlacesAgree == Spec => []Agreement
<1>1. SyncInv /\ Tracked => Agreement
  <2> SUFFICES ASSUME SyncInv, Tracked, NEW p \in Processes, Done(p),
                      run[p].alone, ~run[p].missed, Has(run[p].kv) \union run[p].gone # {}
               PROVE  /\ \A e \in run[p].where, k \in Has(run[p].kv) \union run[p].gone :
                            /\ cloud[e][k] = run[p].kv[k] /\ keychain[e][k] = run[p].kv[k]
                            /\ keychainOnly \/ dotenv[file[p]][k] = run[p].kv[k]
                            /\ cache[e] = None \/ cache[e][k] = run[p].kv[k]
                      /\ example = {x \in Envs \X Keys : keychain[x[1]][x[2]] # None}
    BY DEF Agreement
  <2>1. PICK r : r = run[p]
    OBVIOUS
  <2>2. /\ Tracks(p) /\ Stands(r, {}) /\ Left(r.plan) = {}
        /\ r.op # "idle" /\ r.plan = <<>> /\ r.envs = <<>>
    BY <2>1, NothingLeft DEF Tracked, Tracks, Shaped, Done
  <2>3. r.where # {} /\ About(r) # {}
    BY <2>1, <2>2 DEF Stands, About
  <2>4. example = Existing
    BY <2>1, <2>2, <2>3 DEF Tracks, Noted
  <2>5. ASSUME NEW e \in r.where, NEW k \in About(r)
        PROVE  Reaches(p, e, k, r.kv[k], {})
    <3>1. Pending(r, e, k) = {}
      BY <2>2 DEF Pending
    <3> QED
      BY <2>1, <2>2, <3>1 DEF Tracks, Spread
  <2>6. ASSUME NEW e \in r.where, NEW k \in About(r)
        PROVE  /\ cloud[e][k] = r.kv[k] /\ keychain[e][k] = r.kv[k]
               /\ keychainOnly \/ dotenv[file[p]][k] = r.kv[k]
               /\ cache[e] = None \/ cache[e][k] = r.kv[k]
    BY <2>5 DEF Reaches
  <2> QED
    BY <2>1, <2>4, <2>6 DEF About, Existing
<1> QED
  BY <1>1, SyncInvariant, TrackedInvariant, PTL

\* runSecretsPull, "Only Pull Missing (Local Wins)": whatever the local side held when it
\* was compared it still holds when the pull has ended, if nothing else happened.
THEOREM LocalValuesWin == Spec => []LocalWins
<1>1. Tracked => LocalWins
  BY DEF Tracked, Tracks, Wins, LocalWins
<1> QED
  BY <1>1, TrackedInvariant, PTL
=============================================================================
