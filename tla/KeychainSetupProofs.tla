------------------------ MODULE KeychainSetupProofs ------------------------
(***************************************************************************)
(* Theorems about KeychainSetup, for any number of processes, any hosts    *)
(* and any number of runs and faults.                                      *)
(*                                                                         *)
(* The invariant says what a list of steps may rely on.  A failure drops   *)
(* the steps up to an "or", so what one step prepares for another holds    *)
(* where no "or" lies between them: a record follows its verification at   *)
(* once, a step that uses the binary of EnsureInstalled comes after the    *)
(* step that finds one, and the close of an update comes after a promotion *)
(* and then a restart.                                                     *)
(***************************************************************************)
EXTENDS KeychainSetup, FiniteSetTheorems, SequenceTheorems, TLAPS

\* The steps that run, copy or install the binary of EnsureInstalled, and those
\* that end with one.
Uses == {"running", "start", "sandbox", "promote", "copy", "copied"}
Preparers == {"install", "download", "unpack"}

\* The steps that put an update into the list.
Openers == {"fresh", "diagnose", "update"}

Unbroken(s, i, j) == \A k \in i .. j : s[k] # "or"

\* A record directly follows a verification.
Guarded(s) == \A i \in DOMAIN s : s[i] = "record" => i > 1 /\ s[i - 1] = "verify"

\* A use has a binary, or one is found before it.
PreparedAt(s, i) == \E j \in 1 .. i - 1 : s[j] \in Preparers /\ Unbroken(s, j, i)
Prepared(s, good) == \A i \in DOMAIN s : s[i] \in Uses => good \/ PreparedAt(s, i)

\* No update begins before another has returned.
Orderly(s) ==
    \A i \in DOMAIN s : s[i] = "close" => \A j \in 1 .. i - 1 : s[j] \notin Openers

\* Before a close the service is restarted, after its binary has been replaced.
Replaces(s, j) ==
    \E k \in 1 .. j - 1 : s[k] \in {"promote", "swap"} /\ Unbroken(s, k, j)
RestartsAt(s, j, current) == s[j] = "restart" /\ (current \/ Replaces(s, j))
Closing(s, current, effective) ==
    \A i \in DOMAIN s : s[i] = "close" =>
        \/ current /\ effective
        \/ \E j \in 1 .. i - 1 : RestartsAt(s, j, current) /\ Unbroken(s, j, i)

-----------------------------------------------------------------------------
(* The invariant.                                                          *)

Good(p) == disk[kc[p]] # "old"
Current == disk["system"] # "old"
Effective == daemon["system"] = Down \/ daemon["system"].code = "new"

Absent(S) == \A p \in Processes : \A i \in DOMAIN todo[p] : todo[p][i] \notin S

Fetching == {"download", "unpack"}
Copying == {"copy", "copied", "swap"}

\* There is no required version to be had.
Bare ==
    /\ release = "old" /\ tmp # "new" /\ ranNew = {}
    /\ \A x \in PlaceNames : disk[x] # "new"
    /\ \A m \in Modes : daemon[m] # Down => daemon[m].code # "new"

\* There is one: published, at home, or in the system's place.
Supplied ==
    \/ release = "new"
    \/ disk["home"] = "new" /\ Absent(Fetching)
    \/ /\ disk["system"] = "new" /\ Absent(Fetching \union Copying)
       /\ \A p \in Processes : kc[p] = "system"

\* Then an old binary is only ever replaced by a newer one.
Rising ==
    /\ tmp # "old"
    /\ "system" \in ranNew => Current
    /\ NeverDowngraded

\* What holds of the steps before a process, if its build is not accepted yet, if a
\* required version is to be had (good: EnsureInstalled has found it), and if it is to
\* update a service (cur: its binary is replaced, eff: what runs is).
Fits(s, acc, supplied, good, updating, cur, eff) ==
    /\ acc \/ Guarded(s)
    /\ Orderly(s)
    /\ supplied => Prepared(s, good)
    /\ updating => Closing(s, cur, eff)

Updating(p) == p \in served /\ release = "new"
ListFits(p) == Fits(todo[p], accepted, ~Bare, Good(p), Updating(p), Current, Effective)

SetupInv ==
    /\ TypeOK
    /\ accepted \/ ~marker
    /\ \A p \in Processes : ListFits(p)
    /\ Bare \/ (Supplied /\ Rising)
    /\ RunNew(daemon) \subseteq ranNew
    /\ served # {} => unit

-----------------------------------------------------------------------------
(* Lists of steps.                                                         *)

\* A set of natural numbers has a least element: among the intervals that end
\* in the set, one includes no other.
LEMMA LeastNatural ==
    ASSUME NEW T \in SUBSET Nat, T # {}
    PROVE  \E i \in T : \A j \in T : i <= j
<1> DEFINE upTo(k) == 0..k
           Intervals == {upTo(k) : k \in T}
<1>1. Intervals \subseteq FiniteSubsetsOf(Nat)
  <2>1. \A k \in T : upTo(k) \subseteq Nat /\ IsFiniteSet(upTo(k))
    BY FS_Interval
  <2> QED
    BY <2>1 DEF FiniteSubsetsOf
<1>2. PICK I \in Intervals :
          \A J \in Intervals : ~ (<<J, I>> \in StrictSubsetOrdering(Nat))
  <2>1. Intervals # {}
    OBVIOUS
  <2> QED
    BY <1>1, <2>1, FS_StrictSubsetOrderingWellFounded, WFMin
<1>3. PICK i \in T : I = upTo(i)
  BY <1>2
<1>4. ASSUME NEW j \in T, j < i PROVE FALSE
  <2>1. upTo(j) \subseteq upTo(i) /\ upTo(j) # upTo(i) /\ upTo(i) \subseteq Nat
    BY <1>4
  <2>2. <<upTo(j), upTo(i)>> \in StrictSubsetOrdering(Nat)
    BY <2>1 DEF StrictSubsetOrdering
  <2> QED
    BY <1>2, <1>3, <2>2
<1> QED
  BY <1>4

\* A place of a suffix, counted from where the suffix begins, is one of the whole.
LEMMA ShiftInRange ==
    ASSUME NEW h \in Nat, NEW m \in 0 .. h, NEW i \in 1 .. h - m
    PROVE  i + m \in 1 .. h
  OBVIOUS

\* From leaves a suffix: it drops the steps before the first one at a place of I.
LEMMA FromIsASuffix ==
    ASSUME NEW s \in Seq(Steps), NEW I, I \subseteq DOMAIN s
    PROVE  /\ From(s, I) \in Seq(Steps)
           /\ \E m \in 0 .. Len(s) :
                 /\ Len(From(s, I)) = Len(s) - m
                 /\ \A i \in 1 .. Len(From(s, I)) : From(s, I)[i] = s[i + m]
                 /\ \A j \in 1 .. m : j \notin I
                 /\ m < Len(s) => m + 1 \in I
<1>1. Len(s) \in Nat /\ DOMAIN s = 1 .. Len(s)
  BY LenProperties
<1>2. CASE I = {}
  <2>1. From(s, I) = <<>>
    BY <1>2 DEF From
  <2>2. <<>> \in Seq(Steps) /\ Len(<<>>) = 0
    BY EmptySeq
  <2> DEFINE r == From(s, I)
             n == Len(s)
  <2>3. r \in Seq(Steps) /\ Len(r) = 0
    BY <2>1, <2>2
  <2> HIDE DEF r, n
  <2>4. /\ n \in 0 .. n /\ Len(r) = n - n /\ ~(n < n)
        /\ \A i \in 1 .. Len(r) : r[i] = s[i + n]
    BY <1>1, <2>3 DEF n
  <2> QED
    BY <1>2, <2>3, <2>4 DEF r, n
<1>3. CASE I # {}
  <2>1. PICK f \in I : \A i \in I : f <= i
    BY <1>1, <1>3, LeastNatural
  <2>2. Min(I) \in I /\ \A i \in I : Min(I) <= i
    BY <2>1 DEF Min
  <2> DEFINE g == Min(I)
             r == SubSeq(s, g, Len(s))
  <2>3. g \in 1 .. Len(s)
    BY <1>1, <2>2
  <2>4. \A i \in g .. Len(s) : s[i] \in Steps
    BY <1>1, <2>3, ElementOfSeq
  <2>5. /\ r \in Seq(Steps) /\ Len(r) = Len(s) - g + 1
        /\ \A i \in 1 .. Len(s) - g + 1 : r[i] = s[g + i - 1]
    BY <1>1, <2>3, <2>4, SubSeqProperties
  <2>6. From(s, I) = r
    BY <1>3 DEF From
  <2>7. \A i \in I : i \in Nat /\ g <= i
    BY <1>1, <2>2
  <2> HIDE DEF g, r
  <2>8. /\ g - 1 \in 0 .. Len(s) /\ Len(r) = Len(s) - (g - 1)
        /\ \A i \in 1 .. Len(r) : r[i] = s[i + (g - 1)]
        /\ \A j \in 1 .. g - 1 : j \notin I
        /\ (g - 1) + 1 \in I
    <3>1. (g - 1) + 1 = g
      BY <2>3
    <3>2. g \in I
      BY <2>2 DEF g
    <3>3. \A i \in 1 .. Len(r) : r[i] = s[i + (g - 1)]
      <4> TAKE i \in 1 .. Len(r)
      <4>0. g \in Int /\ i \in Int /\ Len(r) = Len(s) - g + 1
        BY <1>1, <2>3, <2>5
      <4>1. i \in 1 .. Len(s) - g + 1 /\ g + i - 1 = i + (g - 1)
        BY <4>0
      <4>2. r[i] = s[g + i - 1]
        BY <2>5, <4>1, Zenon
      <4> QED
        BY <4>1, <4>2
    <3> QED
      BY <1>1, <2>3, <2>5, <2>7, <3>1, <3>2, <3>3
  <2> QED
    BY <2>5, <2>6, <2>8
<1> QED
  BY <1>2, <1>3

\* What is left of a list: the rest of it behind an "or", or nothing.
Drops(u, r) ==
    /\ r \in Seq(Steps)
    /\ \E m \in 0 .. Len(u) :
          /\ Len(r) = Len(u) - m
          /\ \A i \in 1 .. Len(r) : r[i] = u[i + m]
          /\ m = 0 \/ m = Len(u) \/ u[m] = "or"

LEMMA PastOrDrops ==
    ASSUME NEW u \in Seq(Steps)
    PROVE  Drops(u, PastOr(u))
<1> DEFINE I == {i \in DOMAIN u : u[i] # "or"}
<1>1. PastOr(u) = From(u, I) /\ Len(u) \in Nat /\ DOMAIN u = 1 .. Len(u)
  BY LenProperties DEF PastOr
<1>2. From(u, I) \in Seq(Steps)
  BY FromIsASuffix
<1>3. PICK m \in 0 .. Len(u) :
         /\ Len(From(u, I)) = Len(u) - m
         /\ \A i \in 1 .. Len(From(u, I)) : From(u, I)[i] = u[i + m]
         /\ \A j \in 1 .. m : j \notin I
  BY FromIsASuffix
<1>4. m = 0 \/ u[m] = "or"
  BY <1>1, <1>3
<1> QED
  BY <1>1, <1>2, <1>3, <1>4, Zenon DEF Drops

LEMMA FailureDrops ==
    ASSUME NEW u \in Seq(Steps)
    PROVE  Drops(u, PastOr(UpToOr(u)))
<1> DEFINE I == {i \in DOMAIN u : u[i] = "or"}
           v == From(u, I)
           J == {i \in DOMAIN v : v[i] # "or"}
           r == From(v, J)
<1>1. PastOr(UpToOr(u)) = r /\ Len(u) \in Nat
  BY LenProperties DEF PastOr, UpToOr
<1>2. I \subseteq DOMAIN u /\ \A i \in I : u[i] = "or"
  OBVIOUS
<1>3. v \in Seq(Steps)
  BY FromIsASuffix
<1>4. Len(v) \in Nat /\ J \subseteq DOMAIN v
  BY <1>3, LenProperties
<1>5. \A j \in 1 .. Len(v) : j \notin J => v[j] = "or"
  BY <1>3, LenProperties
<1> HIDE DEF I
<1>6. PICK m \in 0 .. Len(u) :
         /\ Len(v) = Len(u) - m
         /\ \A i \in 1 .. Len(v) : v[i] = u[i + m]
         /\ m < Len(u) => m + 1 \in I
  BY <1>2, FromIsASuffix
<1>7. J \subseteq DOMAIN v /\ \A j \in J : v[j] # "or"
  OBVIOUS
<1> HIDE DEF v, J
<1>8. r \in Seq(Steps)
  BY <1>3, <1>4, FromIsASuffix
<1>9. PICK n \in 0 .. Len(v) :
         /\ Len(r) = Len(v) - n
         /\ \A i \in 1 .. Len(r) : r[i] = v[i + n]
         /\ \A j \in 1 .. n : j \notin J
         /\ n < Len(v) => n + 1 \in J
  BY <1>3, <1>4, FromIsASuffix
<1> HIDE DEF r
<1>10. m + n \in 0 .. Len(u) /\ Len(r) = Len(u) - (m + n)
  BY <1>1, <1>4, <1>6, <1>9
<1>11. \A i \in 1 .. Len(r) : r[i] = u[i + (m + n)]
  <2> TAKE i \in 1 .. Len(r)
  <2>1. i + n \in 1 .. Len(v) /\ (i + n) + m = i + (m + n)
    BY <1>1, <1>4, <1>6, <1>9
  <2> QED
    BY <1>6, <1>9, <2>1
<1>12. m + n = Len(u) \/ u[m + n] = "or"
  <2>1. CASE m = Len(u)
    BY <1>1, <1>4, <1>6, <1>9, <2>1
  <2>2. CASE m < Len(u)
    <3>1. 1 \in 1 .. Len(v) /\ v[1] = "or"
      <4>1. m + 1 \in I
        BY <1>6, <2>2
      <4>2. 1 \in 1 .. Len(v) /\ u[m + 1] = "or"
        BY <1>1, <1>2, <1>4, <1>6, <2>2, <4>1
      <4>3. v[1] = u[1 + m] /\ 1 + m = m + 1
        BY <1>6, <4>2
      <4> QED
        BY <4>2, <4>3
    <3>2. n >= 1
      <4>1. 1 \notin J
        BY <1>7, <3>1
      <4>2. CASE n = 0
        <5>1. n < Len(v) /\ n + 1 = 1
          BY <1>4, <3>1, <4>2
        <5> QED
          BY <1>9, <4>1, <5>1
      <4> QED
        BY <1>4, <1>9, <4>2
    <3>3. n \in 1 .. Len(v) /\ n \in 1 .. n
      BY <1>4, <1>9, <3>2
    <3>4. v[n] = "or" /\ v[n] = u[n + m] /\ n + m = m + n
      BY <1>5, <1>6, <1>9, <3>3
    <3> QED
      BY <3>4
  <2> QED
    BY <1>1, <1>6, <2>1, <2>2
<1> QED
  BY <1>1, <1>8, <1>10, <1>11, <1>12 DEF Drops

\* The list with its first step replaced by those of l.
Inserts(t, l, u) ==
    /\ u \in Seq(Steps) /\ Len(u) = Len(l) + Len(t) - 1
    /\ \A i \in 1 .. Len(l) : u[i] = l[i]
    /\ \A h \in 2 .. Len(t) : u[h + Len(l) - 1] = t[h]

LEMMA ConcatInserts ==
    ASSUME NEW t \in Seq(Steps), t # <<>>, NEW l \in Seq(Steps)
    PROVE  Inserts(t, l, l \o Tail(t))
<1> DEFINE b == Tail(t)
           u == l \o b
<1>1. /\ b \in Seq(Steps) /\ Len(b) = Len(t) - 1
      /\ \A i \in 1 .. Len(b) : b[i] = t[i + 1]
  BY HeadTailProperties
<1>2. Len(l) \in Nat /\ Len(t) \in Nat \ {0}
  BY LenProperties, EmptySeq
<1> HIDE DEF b
<1>3. /\ u \in Seq(Steps) /\ Len(u) = Len(l) + Len(b)
      /\ \A i \in 1 .. Len(l) + Len(b) :
            u[i] = IF i <= Len(l) THEN l[i] ELSE b[i - Len(l)]
  BY <1>1, ConcatProperties
<1> HIDE DEF u
<1>4. ASSUME NEW i \in 1 .. Len(l)
      PROVE  u[i] = l[i]
  <2>1. PICK n \in 1 .. Len(l) + Len(b) : n = i /\ n <= Len(l)
    BY <1>1, <1>2
  <2>2. u[n] = l[n]
    BY <1>3, <2>1
  <2> QED
    BY <2>1, <2>2
<1>5. ASSUME NEW h \in 2 .. Len(t)
      PROVE  u[h + Len(l) - 1] = t[h]
  <2>1. PICK k \in 1 .. Len(b) : k = h - 1
    BY <1>1, <1>2
  <2>2. PICK i \in 1 .. Len(l) + Len(b) : i = h + Len(l) - 1
    <3>1. h + Len(l) - 1 \in 1 .. Len(l) + Len(b)
      BY <1>1, <1>2
    <3> QED
      BY <3>1
  <2>3. ~(i <= Len(l)) /\ i - Len(l) = k /\ k + 1 = h
    BY <1>1, <1>2, <2>1, <2>2
  <2>4. u[i] = b[k] /\ b[k] = t[k + 1]
    BY <1>1, <1>3, <2>2, <2>3
  <2> QED
    BY <2>2, <2>3, <2>4
<1> QED
  BY <1>1, <1>2, <1>3, <1>4, <1>5 DEF Inserts, u, b

\* A position of the new list is one of l, or one of t behind its first.
LEMMA InsertedOrKept ==
    ASSUME NEW t \in Seq(Steps), t # <<>>, NEW l \in Seq(Steps), NEW u, Inserts(t, l, u)
    PROVE  \A i \in 1 .. Len(u) :
              \/ i \in 1 .. Len(l) /\ u[i] = l[i]
              \/ \E h \in 2 .. Len(t) : i = h + Len(l) - 1 /\ u[i] = t[h]
<1> TAKE i \in 1 .. Len(u)
<1>1. Len(l) \in Nat /\ Len(t) \in Nat \ {0} /\ Len(u) = Len(l) + Len(t) - 1
  BY LenProperties, EmptySeq DEF Inserts
<1>2. CASE i <= Len(l)
  <2>1. i \in 1 .. Len(l)
    BY <1>1, <1>2
  <2> QED
    BY <2>1 DEF Inserts
<1>3. CASE i > Len(l)
  <2>1. PICK h \in 2 .. Len(t) : h = i - Len(l) + 1
    <3>1. i - Len(l) + 1 \in 2 .. Len(t)
      BY <1>1, <1>3
    <3> QED
      BY <3>1
  <2>2. i = h + Len(l) - 1
    BY <1>1, <2>1
  <2>3. u[h + Len(l) - 1] = t[h]
    BY DEF Inserts
  <2> QED
    BY <2>2, <2>3
<1> QED
  BY <1>1, <1>2, <1>3

LEMMA GuardedInserts ==
    ASSUME NEW t \in Seq(Steps), t # <<>>, NEW l \in Seq(Steps), NEW u, Inserts(t, l, u),
           Guarded(t), Guarded(l),
           t[1] # "verify" \/ (l # <<>> /\ l[Len(l)] = "verify")
    PROVE  Guarded(u)
<1>1. /\ Len(l) \in Nat /\ Len(t) \in Nat \ {0} /\ Len(u) \in Nat
      /\ DOMAIN l = 1 .. Len(l) /\ DOMAIN t = 1 .. Len(t) /\ DOMAIN u = 1 .. Len(u)
      /\ l # <<>> => Len(l) > 0
  BY LenProperties, EmptySeq DEF Inserts
<1> SUFFICES ASSUME NEW i \in 1 .. Len(u), u[i] = "record"
             PROVE  i > 1 /\ u[i - 1] = "verify"
  BY <1>1 DEF Guarded
<1>0. \A k \in 1 .. Len(t) : t[k] = "record" => k > 1 /\ t[k - 1] = "verify"
  BY <1>1 DEF Guarded
<1>2. CASE i \in 1 .. Len(l) /\ u[i] = l[i]
  <2>1. i > 1 /\ l[i - 1] = "verify"
    BY <1>1, <1>2 DEF Guarded
  <2>2. i - 1 \in 1 .. Len(l)
    BY <1>1, <1>2, <2>1
  <2> QED
    BY <2>1, <2>2 DEF Inserts
<1>3. ASSUME NEW h \in 2 .. Len(t), i = h + Len(l) - 1, u[i] = t[h]
      PROVE  i > 1 /\ u[i - 1] = "verify"
  <2>1. t[h - 1] = "verify"
    BY <1>0, <1>1, <1>3
  <2>2. CASE h = 2
    <3>1. l # <<>> /\ l[Len(l)] = "verify" /\ i - 1 = Len(l)
      BY <1>1, <1>3, <2>1, <2>2
    <3>2. i - 1 \in 1 .. Len(l) /\ i > 1
      BY <1>1, <3>1
    <3> QED
      BY <3>1, <3>2 DEF Inserts
  <2>3. CASE h > 2
    <3>1. PICK g \in 2 .. Len(t) : g = h - 1
      BY <1>1, <2>3
    <3>2. i - 1 = g + Len(l) - 1 /\ i > 1
      BY <1>1, <1>3, <2>3, <3>1
    <3>3. u[g + Len(l) - 1] = t[g]
      BY DEF Inserts
    <3> QED
      BY <2>1, <3>1, <3>2, <3>3
  <2> QED
    BY <1>1, <2>2, <2>3
<1>4. \A k \in 1 .. Len(u) :
         \/ k \in 1 .. Len(l) /\ u[k] = l[k]
         \/ \E h \in 2 .. Len(t) : k = h + Len(l) - 1 /\ u[k] = t[h]
  BY InsertedOrKept
<1> QED
  BY <1>2, <1>3, <1>4

LEMMA GuardedDrops ==
    ASSUME NEW u \in Seq(Steps), NEW r, Drops(u, r), Guarded(u)
    PROVE  Guarded(r)
<1>1. PICK m \in 0 .. Len(u) :
         /\ Len(r) = Len(u) - m
         /\ \A i \in 1 .. Len(r) : r[i] = u[i + m]
         /\ m = 0 \/ m = Len(u) \/ u[m] = "or"
  BY DEF Drops
<1>2. /\ Len(u) \in Nat /\ DOMAIN u = 1 .. Len(u) /\ DOMAIN r = 1 .. Len(r)
      /\ Len(r) \in Nat
  BY LenProperties DEF Drops
<1> SUFFICES ASSUME NEW i \in 1 .. Len(r), r[i] = "record"
             PROVE  i > 1 /\ r[i - 1] = "verify"
  BY <1>2 DEF Guarded
<1>3. i + m \in 1 .. Len(u) /\ u[i + m] = "record"
  BY <1>1, <1>2
<1>4. i + m > 1 /\ u[i + m - 1] = "verify"
  <2>1. \A k \in 1 .. Len(u) : u[k] = "record" => k > 1 /\ u[k - 1] = "verify"
    BY <1>2 DEF Guarded
  <2> QED
    BY <1>3, <2>1
<1>5. i > 1
  <2>1. CASE i = 1 /\ m = 0
    BY <1>4, <2>1
  <2>2. CASE i = 1 /\ m > 0
    <3>1. u[m] = "verify" /\ m # Len(u)
      BY <1>1, <1>2, <1>3, <1>4, <2>2
    <3> QED
      BY <1>1, <2>2, <3>1
  <2> QED
    BY <1>2, <2>1, <2>2
<1>6. i - 1 \in 1 .. Len(r) /\ (i - 1) + m = i + m - 1
  BY <1>2, <1>5
<1> QED
  BY <1>1, <1>4, <1>5, <1>6

\* What has no "or" between keeps none: in the rest, in what is inserted, and from the
\* end of what is inserted into the rest.
LEMMA UnbrokenInserts ==
    ASSUME NEW t \in Seq(Steps), t # <<>>, NEW l \in Seq(Steps), NEW u, Inserts(t, l, u)
    PROVE  /\ \A h \in 2 .. Len(t), g \in 2 .. Len(t) :
                 Unbroken(t, g, h) => Unbroken(u, g + Len(l) - 1, h + Len(l) - 1)
           /\ \A i \in 1 .. Len(l), j \in 1 .. Len(l) : Unbroken(l, j, i) => Unbroken(u, j, i)
           /\ \A h \in 2 .. Len(t), j \in 1 .. Len(l) :
                 Unbroken(l, j, Len(l)) /\ Unbroken(t, 1, h) => Unbroken(u, j, h + Len(l) - 1)
<1>1. Len(l) \in Nat /\ Len(t) \in Nat \ {0} /\ Len(u) = Len(l) + Len(t) - 1
  BY LenProperties, EmptySeq DEF Inserts
<1>2. ASSUME NEW h \in 2 .. Len(t), NEW g \in 2 .. Len(t), Unbroken(t, g, h),
             NEW k \in g + Len(l) - 1 .. h + Len(l) - 1
      PROVE  u[k] # "or"
  <2>1. k \in 1 .. Len(u) /\ k \notin 1 .. Len(l)
    BY <1>1
  <2>2. PICK f \in 2 .. Len(t) : k = f + Len(l) - 1 /\ u[k] = t[f]
    BY <2>1, InsertedOrKept
  <2>3. f \in g .. h
    BY <1>1, <2>2
  <2> QED
    BY <1>2, <2>2, <2>3 DEF Unbroken
<1>3. ASSUME NEW i \in 1 .. Len(l), NEW j \in 1 .. Len(l), Unbroken(l, j, i), NEW k \in j .. i
      PROVE  u[k] # "or"
  <2>1. k \in 1 .. Len(l)
    BY <1>1
  <2> QED
    BY <1>3, <2>1 DEF Inserts, Unbroken
<1>4. ASSUME NEW h \in 2 .. Len(t), NEW j \in 1 .. Len(l),
             Unbroken(l, j, Len(l)), Unbroken(t, 1, h), NEW k \in j .. h + Len(l) - 1
      PROVE  u[k] # "or"
  <2>1. k \in 1 .. Len(u)
    BY <1>1
  <2>2. CASE k \in 1 .. Len(l) /\ u[k] = l[k]
    <3>1. k \in j .. Len(l)
      BY <1>1, <2>2
    <3> QED
      BY <1>4, <2>2, <3>1 DEF Unbroken
  <2>3. ASSUME NEW f \in 2 .. Len(t), k = f + Len(l) - 1, u[k] = t[f] PROVE u[k] # "or"
    <3>1. f \in 1 .. h
      BY <1>1, <2>3
    <3> QED
      BY <1>4, <2>3, <3>1 DEF Unbroken
  <2> QED
    BY <2>1, <2>2, <2>3, InsertedOrKept
<1>5. \A h \in 2 .. Len(t), g \in 2 .. Len(t) :
         Unbroken(t, g, h) => Unbroken(u, g + Len(l) - 1, h + Len(l) - 1)
  BY <1>2 DEF Unbroken
<1>6. \A i \in 1 .. Len(l), j \in 1 .. Len(l) : Unbroken(l, j, i) => Unbroken(u, j, i)
  BY <1>3 DEF Unbroken
<1>7. \A h \in 2 .. Len(t), j \in 1 .. Len(l) :
         Unbroken(l, j, Len(l)) /\ Unbroken(t, 1, h) => Unbroken(u, j, h + Len(l) - 1)
  BY <1>4 DEF Unbroken
<1> QED
  BY <1>5, <1>6, <1>7

\* What dropping leaves: nothing before it on this side of an "or".
LEMMA UnbrokenDrops ==
    ASSUME NEW u \in Seq(Steps), NEW r, Drops(u, r)
    PROVE  \E m \in 0 .. Len(u) :
              /\ Len(r) = Len(u) - m
              /\ \A i \in 1 .. Len(r) : r[i] = u[i + m]
              /\ \A i \in 1 .. Len(r), j \in 1 .. Len(u) :
                    j <= i + m /\ Unbroken(u, j, i + m) => j > m /\ Unbroken(r, j - m, i)
<1>1. PICK m \in 0 .. Len(u) :
         /\ Len(r) = Len(u) - m
         /\ \A i \in 1 .. Len(r) : r[i] = u[i + m]
         /\ m = 0 \/ m = Len(u) \/ u[m] = "or"
  BY DEF Drops
<1>2. Len(u) \in Nat /\ Len(r) \in Nat
  BY LenProperties DEF Drops
<1>3. ASSUME NEW i \in 1 .. Len(r), NEW j \in 1 .. Len(u), j <= i + m, Unbroken(u, j, i + m)
      PROVE  j > m /\ Unbroken(r, j - m, i)
  <2>1. j > m
    <3>1. SUFFICES ASSUME j <= m PROVE FALSE
      BY <1>2
    <3>2. m \in j .. i + m /\ m # 0 /\ m # Len(u)
      BY <1>1, <1>2, <3>1
    <3> QED
      BY <1>1, <1>3, <3>2 DEF Unbroken
  <2>2. ASSUME NEW k \in j - m .. i PROVE r[k] # "or"
    <3>1. k \in 1 .. Len(r) /\ k + m \in j .. i + m
      BY <1>2, <2>1
    <3> QED
      BY <1>1, <1>3, <3>1 DEF Unbroken
  <2> QED
    BY <2>1, <2>2 DEF Unbroken
<1> QED
  BY <1>1, <1>3

LEMMA PreparedInserts ==
    ASSUME NEW t \in Seq(Steps), t # <<>>, NEW l \in Seq(Steps), NEW u, Inserts(t, l, u),
           NEW g \in BOOLEAN, NEW h \in BOOLEAN, g => h, Prepared(t, g), Prepared(l, h),
           \/ h \/ t[1] \notin Preparers
           \/ \E j \in 1 .. Len(l) : l[j] \in Preparers /\ Unbroken(l, j, Len(l))
    PROVE  Prepared(u, h)
<1>1. /\ Len(l) \in Nat /\ Len(t) \in Nat \ {0} /\ Len(u) = Len(l) + Len(t) - 1
      /\ DOMAIN l = 1 .. Len(l) /\ DOMAIN t = 1 .. Len(t) /\ DOMAIN u = 1 .. Len(u)
  BY LenProperties, EmptySeq DEF Inserts
<1> SUFFICES ASSUME NEW i \in 1 .. Len(u), u[i] \in Uses, ~h
             PROVE  PreparedAt(u, i)
  BY <1>1 DEF Prepared
<1>2. CASE i \in 1 .. Len(l) /\ u[i] = l[i]
  <2>1. PICK j \in 1 .. i - 1 : l[j] \in Preparers /\ Unbroken(l, j, i)
    BY <1>1, <1>2 DEF Prepared, PreparedAt
  <2>2. j \in 1 .. Len(l)
    BY <1>1, <1>2
  <2>3. u[j] = l[j] /\ Unbroken(u, j, i)
    BY <1>2, <2>1, <2>2, UnbrokenInserts DEF Inserts
  <2> QED
    BY <2>1, <2>3 DEF PreparedAt
<1>3. ASSUME NEW k \in 2 .. Len(t), i = k + Len(l) - 1, u[i] = t[k]
      PROVE  PreparedAt(u, i)
  <2>1. k \in DOMAIN t
    BY <1>1
  <2>2. PICK j \in 1 .. k - 1 : t[j] \in Preparers /\ Unbroken(t, j, k)
    BY <1>3, <2>1 DEF Prepared, PreparedAt
  <2>3. CASE j = 1
    <3>1. PICK f \in 1 .. Len(l) : l[f] \in Preparers /\ Unbroken(l, f, Len(l))
      BY <2>2, <2>3
    <3>2. f \in 1 .. i - 1
      BY <1>1, <1>3
    <3>3. u[f] = l[f] /\ Unbroken(u, f, i)
      BY <1>3, <2>2, <2>3, <3>1, UnbrokenInserts DEF Inserts
    <3> QED
      BY <3>1, <3>2, <3>3 DEF PreparedAt
  <2>4. CASE j > 1
    <3>1. j \in 2 .. Len(t)
      BY <1>1, <2>4
    <3>2. j + Len(l) - 1 \in 1 .. i - 1
      BY <1>1, <1>3, <3>1
    <3>3. u[j + Len(l) - 1] = t[j] /\ Unbroken(u, j + Len(l) - 1, i)
      BY <1>3, <2>2, <3>1, UnbrokenInserts DEF Inserts
    <3> QED
      BY <2>2, <3>2, <3>3 DEF PreparedAt
  <2> QED
    BY <1>1, <2>3, <2>4
<1> QED
  BY <1>2, <1>3, InsertedOrKept

LEMMA PreparedDrops ==
    ASSUME NEW u \in Seq(Steps), NEW r, Drops(u, r), NEW g, Prepared(u, g)
    PROVE  Prepared(r, g)
<1>1. PICK m \in 0 .. Len(u) :
         /\ Len(r) = Len(u) - m
         /\ \A i \in 1 .. Len(r) : r[i] = u[i + m]
         /\ \A i \in 1 .. Len(r), j \in 1 .. Len(u) :
               j <= i + m /\ Unbroken(u, j, i + m) => j > m /\ Unbroken(r, j - m, i)
  BY UnbrokenDrops
<1>2. Len(u) \in Nat /\ Len(r) \in Nat /\ DOMAIN u = 1 .. Len(u) /\ DOMAIN r = 1 .. Len(r)
  BY LenProperties DEF Drops
<1> SUFFICES ASSUME NEW i \in 1 .. Len(r), r[i] \in Uses, ~g
             PROVE  PreparedAt(r, i)
  BY <1>2 DEF Prepared
<1>3. i + m \in 1 .. Len(u) /\ u[i + m] \in Uses
  BY <1>1, <1>2
<1>4. PICK j \in 1 .. i + m - 1 : u[j] \in Preparers /\ Unbroken(u, j, i + m)
  BY <1>2, <1>3 DEF Prepared, PreparedAt
<1>5. j \in 1 .. Len(u) /\ j <= i + m
  BY <1>2, <1>3
<1>6. j > m /\ Unbroken(r, j - m, i)
  BY <1>1, <1>4, <1>5
<1>7. j - m \in 1 .. i - 1 /\ j - m \in 1 .. Len(r) /\ (j - m) + m = j
  BY <1>2, <1>5, <1>6
<1>8. r[j - m] = u[j]
  BY <1>1, <1>7
<1> QED
  BY <1>4, <1>6, <1>7, <1>8 DEF PreparedAt

LEMMA OrderlyInserts ==
    ASSUME NEW t \in Seq(Steps), t # <<>>, NEW l \in Seq(Steps), NEW u, Inserts(t, l, u),
           Orderly(t), Orderly(l),
           t[1] \in Openers \/ \A i \in DOMAIN l : l[i] \notin Openers
    PROVE  Orderly(u)
<1>1. /\ Len(l) \in Nat /\ Len(t) \in Nat \ {0} /\ Len(u) = Len(l) + Len(t) - 1
      /\ DOMAIN l = 1 .. Len(l) /\ DOMAIN t = 1 .. Len(t) /\ DOMAIN u = 1 .. Len(u)
  BY LenProperties, EmptySeq DEF Inserts
<1> SUFFICES ASSUME NEW i \in 1 .. Len(u), u[i] = "close", NEW j \in 1 .. i - 1
             PROVE  u[j] \notin Openers
  BY <1>1 DEF Orderly
<1>2. CASE i \in 1 .. Len(l) /\ u[i] = l[i]
  <2>1. i \in DOMAIN l /\ j \in 1 .. Len(l)
    BY <1>1, <1>2
  <2>2. l[j] \notin Openers
    BY <1>2, <2>1 DEF Orderly
  <2> QED
    BY <2>1, <2>2 DEF Inserts
<1>3. ASSUME NEW h \in 2 .. Len(t), i = h + Len(l) - 1, u[i] = t[h]
      PROVE  u[j] \notin Openers
  <2>1. h \in DOMAIN t /\ t[h] = "close" /\ 1 \in 1 .. h - 1
    BY <1>1, <1>3
  <2>2. \A k \in 1 .. h - 1 : t[k] \notin Openers
    BY <2>1 DEF Orderly
  <2>3. \A k \in 1 .. Len(l) : l[k] \notin Openers
    BY <1>1, <2>1, <2>2
  <2>4. j \in 1 .. Len(u)
    BY <1>1
  <2>5. CASE j \in 1 .. Len(l) /\ u[j] = l[j]
    BY <2>3, <2>5
  <2>6. ASSUME NEW k \in 2 .. Len(t), j = k + Len(l) - 1, u[j] = t[k]
        PROVE  u[j] \notin Openers
    <3>1. k \in 1 .. h - 1
      BY <1>1, <1>3, <2>6
    <3> QED
      BY <2>2, <2>6, <3>1
  <2> QED
    BY <2>4, <2>5, <2>6, InsertedOrKept
<1>4. \/ i \in 1 .. Len(l) /\ u[i] = l[i]
      \/ \E h \in 2 .. Len(t) : i = h + Len(l) - 1 /\ u[i] = t[h]
  BY InsertedOrKept
<1> QED
  BY <1>2, <1>3, <1>4

LEMMA OrderlyDrops ==
    ASSUME NEW u \in Seq(Steps), NEW r, Drops(u, r), Orderly(u)
    PROVE  Orderly(r)
<1>1. PICK m \in 0 .. Len(u) :
         Len(r) = Len(u) - m /\ \A i \in 1 .. Len(r) : r[i] = u[i + m]
  BY DEF Drops
<1>2. Len(u) \in Nat /\ Len(r) \in Nat /\ DOMAIN u = 1 .. Len(u) /\ DOMAIN r = 1 .. Len(r)
  BY LenProperties DEF Drops
<1> SUFFICES ASSUME NEW i \in 1 .. Len(r), r[i] = "close", NEW j \in 1 .. i - 1
             PROVE  r[j] \notin Openers
  BY <1>2 DEF Orderly
<1>3. i + m \in 1 .. Len(u) /\ u[i + m] = "close" /\ j + m \in 1 .. (i + m) - 1
  BY <1>1, <1>2
<1>4. u[j + m] \notin Openers
  BY <1>2, <1>3 DEF Orderly
<1>5. j \in 1 .. Len(r)
  BY <1>2
<1> QED
  BY <1>1, <1>4, <1>5

\* A close in the rest of the list relies on what is behind the first step, unless the
\* first step was the promotion or the restart, which is then done.
LEMMA ClosingInserts ==
    ASSUME NEW t \in Seq(Steps), t # <<>>, NEW l \in Seq(Steps), NEW u, Inserts(t, l, u),
           NEW c \in BOOLEAN, NEW e \in BOOLEAN, NEW d \in BOOLEAN, NEW f \in BOOLEAN,
           c => d, c /\ e => f, Closing(t, c, e), Closing(l, d, f),
           t[1] = "restart" => (c => f),
           t[1] \in {"promote", "swap"} =>
              \/ d
              \/ \E j \in 1 .. Len(l) : l[j] \in {"promote", "swap"} /\ Unbroken(l, j, Len(l))
    PROVE  Closing(u, d, f)
<1>1. /\ Len(l) \in Nat /\ Len(t) \in Nat \ {0} /\ Len(u) = Len(l) + Len(t) - 1
      /\ DOMAIN l = 1 .. Len(l) /\ DOMAIN t = 1 .. Len(t) /\ DOMAIN u = 1 .. Len(u)
  BY LenProperties, EmptySeq DEF Inserts
<1> SUFFICES ASSUME NEW i \in 1 .. Len(u), u[i] = "close", ~(d /\ f)
             PROVE  \E j \in 1 .. i - 1 : RestartsAt(u, j, d) /\ Unbroken(u, j, i)
  BY <1>1 DEF Closing
<1>2. CASE i \in 1 .. Len(l) /\ u[i] = l[i]
  <2>1. PICK j \in 1 .. i - 1 : RestartsAt(l, j, d) /\ Unbroken(l, j, i)
    BY <1>1, <1>2 DEF Closing
  <2>2. j \in 1 .. Len(l)
    BY <1>1, <1>2
  <2>3. u[j] = "restart" /\ Unbroken(u, j, i)
    BY <1>2, <2>1, <2>2, UnbrokenInserts DEF Inserts, RestartsAt
  <2>4. CASE Replaces(l, j)
    <3>1. PICK k \in 1 .. j - 1 : l[k] \in {"promote", "swap"} /\ Unbroken(l, k, j)
      BY <2>4 DEF Replaces
    <3>2. k \in 1 .. Len(l)
      BY <1>1, <2>2
    <3>3. u[k] = l[k] /\ Unbroken(u, k, j)
      BY <2>2, <3>1, <3>2, UnbrokenInserts DEF Inserts
    <3> QED
      BY <2>3, <3>1, <3>3 DEF RestartsAt, Replaces
  <2> QED
    BY <2>1, <2>3, <2>4 DEF RestartsAt
<1>3. ASSUME NEW h \in 2 .. Len(t), i = h + Len(l) - 1, u[i] = t[h]
      PROVE  \E j \in 1 .. i - 1 : RestartsAt(u, j, d) /\ Unbroken(u, j, i)
  <2>1. h \in DOMAIN t
    BY <1>1
  <2>2. PICK j \in 1 .. h - 1 : RestartsAt(t, j, c) /\ Unbroken(t, j, h)
    BY <1>3, <2>1 DEF Closing
  <2>3. j # 1
    <3>1. SUFFICES ASSUME j = 1 PROVE FALSE
      OBVIOUS
    <3>2. ~Replaces(t, j)
      BY <3>1 DEF Replaces
    <3> QED
      BY <2>2, <3>1, <3>2 DEF RestartsAt
  <2>4. j \in 2 .. Len(t)
    BY <1>1, <2>3
  <2> DEFINE v == j + Len(l) - 1
  <2>5. v \in 1 .. i - 1 /\ u[v] = "restart" /\ Unbroken(u, v, i)
    <3>1. v \in 1 .. i - 1
      BY <1>1, <1>3, <2>4
    <3>2. u[v] = t[j] /\ Unbroken(u, v, i)
      BY <1>3, <2>2, <2>4, UnbrokenInserts DEF Inserts
    <3> QED
      BY <2>2, <3>1, <3>2 DEF RestartsAt
  <2>6. CASE Replaces(t, j)
    <3>1. PICK k \in 1 .. j - 1 : t[k] \in {"promote", "swap"} /\ Unbroken(t, k, j)
      BY <2>6 DEF Replaces
    <3>2. CASE k = 1
      <4>1. CASE ~d
        <5>1. PICK g \in 1 .. Len(l) :
                 l[g] \in {"promote", "swap"} /\ Unbroken(l, g, Len(l))
          BY <3>1, <3>2, <4>1
        <5>2. g \in 1 .. v - 1
          BY <1>1, <2>4
        <5>3. u[g] = l[g] /\ Unbroken(u, g, v)
          BY <2>4, <3>1, <3>2, <5>1, UnbrokenInserts DEF Inserts
        <5>4. Replaces(u, v)
          BY <5>1, <5>2, <5>3 DEF Replaces
        <5> QED
          BY <2>5, <5>4 DEF RestartsAt
      <4>2. CASE d
        BY <2>5, <4>2 DEF RestartsAt
      <4> QED
        BY <4>1, <4>2
    <3>3. CASE k > 1
      <4>1. k \in 2 .. Len(t)
        BY <1>1, <2>4, <3>3
      <4>2. k + Len(l) - 1 \in 1 .. v - 1
        BY <1>1, <2>4, <4>1
      <4>3. u[k + Len(l) - 1] = t[k] /\ Unbroken(u, k + Len(l) - 1, v)
        BY <2>4, <3>1, <4>1, UnbrokenInserts DEF Inserts
      <4>4. Replaces(u, v)
        BY <3>1, <4>2, <4>3 DEF Replaces
      <4> QED
        BY <2>5, <4>4 DEF RestartsAt
    <3> QED
      BY <1>1, <2>4, <3>2, <3>3
  <2>7. CASE c
    BY <2>5, <2>7 DEF RestartsAt
  <2> QED
    BY <2>2, <2>6, <2>7 DEF RestartsAt
<1> QED
  BY <1>2, <1>3, InsertedOrKept

LEMMA ClosingDrops ==
    ASSUME NEW u \in Seq(Steps), NEW r, Drops(u, r), NEW c, NEW e, Closing(u, c, e)
    PROVE  Closing(r, c, e)
<1>1. PICK m \in 0 .. Len(u) :
         /\ Len(r) = Len(u) - m
         /\ \A i \in 1 .. Len(r) : r[i] = u[i + m]
         /\ \A i \in 1 .. Len(r), j \in 1 .. Len(u) :
               j <= i + m /\ Unbroken(u, j, i + m) => j > m /\ Unbroken(r, j - m, i)
  BY UnbrokenDrops
<1>2. Len(u) \in Nat /\ Len(r) \in Nat /\ DOMAIN u = 1 .. Len(u) /\ DOMAIN r = 1 .. Len(r)
  BY LenProperties DEF Drops
\* What a step of r relies on is in r.
<1>3. ASSUME NEW i \in 1 .. Len(r), NEW j \in 1 .. i + m - 1, Unbroken(u, j, i + m)
      PROVE  \E v \in 1 .. i - 1 : /\ v \in 1 .. Len(r) /\ v + m = j
                                   /\ r[v] = u[j] /\ Unbroken(r, v, i)
  <2>1. j \in 1 .. Len(u) /\ j <= i + m
    BY <1>1, <1>2
  <2>2. j > m /\ Unbroken(r, j - m, i)
    BY <1>1, <1>3, <2>1
  <2>3. j - m \in 1 .. i - 1 /\ j - m \in 1 .. Len(r) /\ (j - m) + m = j
    BY <1>2, <2>1, <2>2
  <2>4. r[j - m] = u[j]
    BY <1>1, <2>3
  <2> QED
    BY <2>2, <2>3, <2>4
<1> SUFFICES ASSUME NEW i \in 1 .. Len(r), r[i] = "close", ~(c /\ e)
             PROVE  \E j \in 1 .. i - 1 : RestartsAt(r, j, c) /\ Unbroken(r, j, i)
  BY <1>2 DEF Closing
<1>4. i + m \in 1 .. Len(u) /\ u[i + m] = "close"
  BY <1>1, <1>2
<1>5. PICK j \in 1 .. i + m - 1 : RestartsAt(u, j, c) /\ Unbroken(u, j, i + m)
  BY <1>2, <1>4 DEF Closing
<1>6. PICK v \in 1 .. i - 1 : /\ v \in 1 .. Len(r) /\ v + m = j
                              /\ r[v] = u[j] /\ Unbroken(r, v, i)
  BY <1>3, <1>5
<1>7. CASE Replaces(u, j)
  <2>1. PICK k \in 1 .. j - 1 : u[k] \in {"promote", "swap"} /\ Unbroken(u, k, j)
    BY <1>7 DEF Replaces
  <2>2. k \in 1 .. v + m - 1 /\ Unbroken(u, k, v + m)
    BY <1>6, <2>1
  <2>3. PICK w \in 1 .. v - 1 : r[w] = u[k] /\ Unbroken(r, w, v)
    BY <1>3, <1>6, <2>2
  <2>4. Replaces(r, v)
    BY <2>1, <2>3 DEF Replaces
  <2> QED
    BY <1>5, <1>6, <2>4 DEF RestartsAt
<1>8. CASE c
  BY <1>5, <1>6, <1>8 DEF RestartsAt
<1> QED
  BY <1>5, <1>7, <1>8 DEF RestartsAt

-----------------------------------------------------------------------------
(* The lists that steps insert.                                            *)

Without(l, S) == \A i \in DOMAIN l : l[i] \notin S

\* Nothing but uses of what is prepared, and no step that needs one before or behind it.
Special == Fetching \union Copying \union {"record", "close"}
Plain(l, good) == l \in Seq(Steps) /\ Without(l, Special) /\ Prepared(l, good)

LEMMA ConcatPlain ==
    ASSUME NEW g \in BOOLEAN, NEW l, Plain(l, g), NEW k, Plain(k, g)
    PROVE  Plain(l \o k, g)
<1> DEFINE u == l \o k
<1>1. /\ Len(l) \in Nat /\ Len(k) \in Nat /\ DOMAIN l = 1 .. Len(l) /\ DOMAIN k = 1 .. Len(k)
      /\ l \in Seq(Steps) /\ k \in Seq(Steps)
  BY LenProperties DEF Plain
<1>2. /\ u \in Seq(Steps) /\ Len(u) = Len(l) + Len(k)
      /\ \A i \in 1 .. Len(l) + Len(k) : u[i] = IF i <= Len(l) THEN l[i] ELSE k[i - Len(l)]
  BY <1>1, ConcatProperties
<1>3. DOMAIN u = 1 .. Len(u)
  BY <1>2, LenProperties
<1> HIDE DEF u
<1>4. ASSUME NEW i \in 1 .. Len(u)
      PROVE  \/ i \in 1 .. Len(l) /\ u[i] = l[i]
             \/ \E h \in 1 .. Len(k) : i = h + Len(l) /\ u[i] = k[h]
  <2>1. CASE i <= Len(l)
    BY <1>1, <1>2, <2>1
  <2>2. CASE i > Len(l)
    <3>1. i - Len(l) \in 1 .. Len(k) /\ i = (i - Len(l)) + Len(l)
      BY <1>1, <1>2, <2>2
    <3> QED
      BY <1>1, <1>2, <2>2, <3>1
  <2> QED
    BY <1>1, <2>1, <2>2
<1>5. Without(u, Special)
  BY <1>1, <1>3, <1>4 DEF Without, Plain
<1>6. ASSUME NEW i \in 1 .. Len(u), u[i] \in Uses, ~g PROVE PreparedAt(u, i)
  <2>1. CASE i \in 1 .. Len(l) /\ u[i] = l[i]
    <3>1. PICK j \in 1 .. i - 1 : l[j] \in Preparers /\ Unbroken(l, j, i)
      BY <1>1, <1>6, <2>1 DEF Plain, Prepared, PreparedAt
    <3>2. \A h \in 1 .. i : u[h] = l[h]
      BY <1>1, <1>2, <2>1
    <3>3. u[j] = l[j] /\ \A h \in j .. i : h \in 1 .. i
      BY <1>1, <2>1, <3>2
    <3> QED
      BY <3>1, <3>2, <3>3 DEF PreparedAt, Unbroken
  <2>2. ASSUME NEW h \in 1 .. Len(k), i = h + Len(l), u[i] = k[h] PROVE PreparedAt(u, i)
    <3>1. PICK j \in 1 .. h - 1 : k[j] \in Preparers /\ Unbroken(k, j, h)
      BY <1>1, <1>6, <2>2 DEF Plain, Prepared, PreparedAt
    <3>2. \A f \in j .. h : u[f + Len(l)] = k[f]
      <4> TAKE f \in j .. h
      <4>1. /\ f + Len(l) \in 1 .. Len(l) + Len(k) /\ ~(f + Len(l) <= Len(l))
            /\ (f + Len(l)) - Len(l) = f
        BY <1>1
      <4> QED
        BY <1>2, <4>1
    <3>3. j + Len(l) \in 1 .. i - 1 /\ u[j + Len(l)] = k[j]
      BY <1>1, <2>2, <3>2
    <3>4. ASSUME NEW f \in j + Len(l) .. i PROVE u[f] # "or"
      <4>1. f - Len(l) \in j .. h /\ (f - Len(l)) + Len(l) = f
        BY <1>1, <2>2
      <4> QED
        BY <3>1, <3>2, <4>1 DEF Unbroken
    <3> QED
      BY <3>1, <3>3, <3>4 DEF PreparedAt, Unbroken
  <2> QED
    BY <1>4, <2>1, <2>2
<1>7. Prepared(u, g)
  BY <1>3, <1>6 DEF Prepared
<1> QED
  BY <1>2, <1>5, <1>7 DEF Plain, u

LEMMA ConcatWithout ==
    ASSUME NEW l \in Seq(Steps), NEW k \in Seq(Steps), NEW S, Without(l, S), Without(k, S)
    PROVE  Without(l \o k, S)
<1> DEFINE u == l \o k
<1>1. /\ Len(l) \in Nat /\ Len(k) \in Nat /\ DOMAIN l = 1 .. Len(l) /\ DOMAIN k = 1 .. Len(k)
  BY LenProperties
<1>2. /\ u \in Seq(Steps) /\ Len(u) = Len(l) + Len(k)
      /\ \A i \in 1 .. Len(l) + Len(k) : u[i] = IF i <= Len(l) THEN l[i] ELSE k[i - Len(l)]
  BY ConcatProperties
<1>3. DOMAIN u = 1 .. Len(u)
  BY <1>2, LenProperties
<1> HIDE DEF u
<1>4. ASSUME NEW i \in 1 .. Len(u) PROVE u[i] \notin S
  <2>1. CASE i <= Len(l)
    BY <1>1, <1>2, <2>1 DEF Without
  <2>2. CASE i > Len(l)
    <3>1. i - Len(l) \in 1 .. Len(k)
      BY <1>1, <1>2, <2>2
    <3> QED
      BY <1>1, <1>2, <2>2, <3>1 DEF Without
  <2> QED
    BY <1>1, <2>1, <2>2
<1> QED
  BY <1>3, <1>4 DEF Without, u

\* A list in which every use is behind its k-th step, which is "install".
LEMMA InstallsFirst ==
    ASSUME NEW l \in Seq(Steps), NEW k \in 1 .. Len(l), l[k] = "install", Without(l, Special),
           \A i \in 1 .. Len(l) : l[i] \in Uses => i > k /\ Unbroken(l, k, i)
    PROVE  Plain(l, FALSE)
<1>1. Len(l) \in Nat /\ DOMAIN l = 1 .. Len(l)
  BY LenProperties
<1>2. ASSUME NEW i \in 1 .. Len(l), l[i] \in Uses PROVE PreparedAt(l, i)
  <2>1. k \in 1 .. i - 1 /\ Unbroken(l, k, i)
    BY <1>1, <1>2
  <2> QED
    BY <2>1 DEF PreparedAt, Preparers
<1> QED
  BY <1>1, <1>2 DEF Plain, Prepared

\* Lists of single steps that need nothing.
LEMMA PlainSteps ==
    /\ Plain(<<>>, FALSE) /\ Without(<<>>, Openers)
    /\ \A x \in Steps \ (Special \union Uses) : Plain(<<x>>, FALSE)
    /\ \A x \in Steps \ Openers : Without(<<x>>, Openers)
<1>1. Plain(<<>>, FALSE) /\ Without(<<>>, Openers)
  BY EmptySeq DEF Plain, Without, Prepared
<1>2. ASSUME NEW x \in Steps
      PROVE  <<x>> \in Seq(Steps) /\ DOMAIN <<x>> = 1 .. 1 /\ <<x>>[1] = x
  OBVIOUS
<1>3. ASSUME NEW x \in Steps \ (Special \union Uses) PROVE Plain(<<x>>, FALSE)
  <2> DEFINE l == <<x>>
  <2>1. l \in Seq(Steps) /\ DOMAIN l = 1 .. 1 /\ l[1] = x
    BY <1>2
  <2> HIDE DEF l
  <2> QED
    BY <2>1 DEF Plain, Without, Prepared, l
<1>4. ASSUME NEW x \in Steps \ Openers PROVE Without(<<x>>, Openers)
  <2> DEFINE l == <<x>>
  <2>1. DOMAIN l = 1 .. 1 /\ l[1] = x
    BY <1>2
  <2> HIDE DEF l
  <2> QED
    BY <2>1 DEF Without, l
<1> QED
  BY <1>1, <1>3, <1>4

\* The repairs, which install first.
LEMMA PlainLists ==
    /\ Plain(AutoSetup, FALSE) /\ Without(AutoSetup, Openers)
    /\ Plain(RegisterAndActivate, FALSE) /\ Without(RegisterAndActivate, Openers)
    /\ Plain(Authorization, FALSE) /\ Without(Authorization, Openers)
    /\ Plain(<<"install", "start">>, FALSE) /\ Without(<<"install", "start">>, Openers)
    /\ Plain(<<"unlink", "install", "running", "or", "again">>, FALSE)
    /\ Without(<<"unlink", "install", "running", "or", "again">>, Openers)
<1>1. Plain(AutoSetup, FALSE) /\ Without(AutoSetup, Openers)
  <2> DEFINE l == AutoSetup
  <2>1. /\ l \in Seq(Steps) /\ Len(l) = 4 /\ DOMAIN l = 1 .. 4
        /\ l[1] = "install" /\ l[2] = "sandbox" /\ l[3] = "register" /\ l[4] = "running"
    BY DEF AutoSetup, Steps
  <2> HIDE DEF l
  <2>2. \A i \in 1 .. 4 : i = 1 \/ i = 2 \/ i = 3 \/ i = 4
    OBVIOUS
  <2>3. Without(l, Special) /\ Without(l, Openers) /\ \A i \in 1 .. 4 : l[i] # "or"
    BY <2>1, <2>2 DEF Without, Special, Fetching, Copying, Openers
  <2>4. \A i \in 1 .. 4 : l[i] \in Uses => i > 1 /\ Unbroken(l, 1, i)
    BY <2>1, <2>2, <2>3 DEF Uses, Unbroken
  <2>5. 1 \in 1 .. Len(l) /\ l[1] = "install"
    BY <2>1
  <2>6. \A i \in 1 .. Len(l) : l[i] \in Uses => i > 1 /\ Unbroken(l, 1, i)
    BY <2>1, <2>4
  <2>7. Plain(l, FALSE)
    BY <2>1, <2>3, <2>5, <2>6, InstallsFirst
  <2> QED
    BY <2>3, <2>7 DEF l
<1>2. Plain(RegisterAndActivate, FALSE) /\ Without(RegisterAndActivate, Openers)
  <2> DEFINE l == RegisterAndActivate
  <2>1. /\ l \in Seq(Steps) /\ Len(l) = 3 /\ DOMAIN l = 1 .. 3
        /\ l[1] = "install" /\ l[2] = "promote" /\ l[3] = "register"
    BY DEF RegisterAndActivate, Steps
  <2> HIDE DEF l
  <2>2. \A i \in 1 .. 3 : i = 1 \/ i = 2 \/ i = 3
    OBVIOUS
  <2>3. Without(l, Special) /\ Without(l, Openers) /\ \A i \in 1 .. 3 : l[i] # "or"
    BY <2>1, <2>2 DEF Without, Special, Fetching, Copying, Openers
  <2>4. \A i \in 1 .. 3 : l[i] \in Uses => i > 1 /\ Unbroken(l, 1, i)
    BY <2>1, <2>2, <2>3 DEF Uses, Unbroken
  <2>5. 1 \in 1 .. Len(l) /\ l[1] = "install"
    BY <2>1
  <2>6. \A i \in 1 .. Len(l) : l[i] \in Uses => i > 1 /\ Unbroken(l, 1, i)
    BY <2>1, <2>4
  <2>7. Plain(l, FALSE)
    BY <2>1, <2>3, <2>5, <2>6, InstallsFirst
  <2> QED
    BY <2>3, <2>7 DEF l
<1>3. Plain(Authorization, FALSE) /\ Without(Authorization, Openers)
  <2> DEFINE l == Authorization
  <2>1. /\ l \in Seq(Steps) /\ Len(l) = 3 /\ DOMAIN l = 1 .. 3
        /\ l[1] = "authorize" /\ l[2] = "restart" /\ l[3] = "probe"
    BY DEF Authorization, Steps
  <2> HIDE DEF l
  <2>2. \A i \in 1 .. 3 : i = 1 \/ i = 2 \/ i = 3
    OBVIOUS
  <2>3. Without(l, Special) /\ Without(l, Openers) /\ Without(l, Uses)
    BY <2>1, <2>2 DEF Without, Special, Fetching, Copying, Openers, Uses
  <2> QED
    BY <2>1, <2>3 DEF Plain, Prepared, Without, l
<1>4. Plain(<<"install", "start">>, FALSE) /\ Without(<<"install", "start">>, Openers)
  <2> DEFINE l == <<"install", "start">>
  <2>1. l \in Seq(Steps) /\ Len(l) = 2 /\ DOMAIN l = 1 .. 2 /\ l[1] = "install" /\ l[2] = "start"
    BY DEF Steps
  <2> HIDE DEF l
  <2>2. \A i \in 1 .. 2 : i = 1 \/ i = 2
    OBVIOUS
  <2>3. Without(l, Special) /\ Without(l, Openers) /\ \A i \in 1 .. 2 : l[i] # "or"
    BY <2>1, <2>2 DEF Without, Special, Fetching, Copying, Openers
  <2>4. \A i \in 1 .. 2 : l[i] \in Uses => i > 1 /\ Unbroken(l, 1, i)
    BY <2>1, <2>2, <2>3 DEF Uses, Unbroken
  <2>5. 1 \in 1 .. Len(l) /\ l[1] = "install"
    BY <2>1
  <2>6. \A i \in 1 .. Len(l) : l[i] \in Uses => i > 1 /\ Unbroken(l, 1, i)
    BY <2>1, <2>4
  <2>7. Plain(l, FALSE)
    BY <2>1, <2>3, <2>5, <2>6, InstallsFirst
  <2> QED
    BY <2>3, <2>7 DEF l
<1>5. /\ Plain(<<"unlink", "install", "running", "or", "again">>, FALSE)
      /\ Without(<<"unlink", "install", "running", "or", "again">>, Openers)
  <2> DEFINE l == <<"unlink", "install", "running", "or", "again">>
  <2>1. /\ l \in Seq(Steps) /\ Len(l) = 5 /\ DOMAIN l = 1 .. 5
        /\ l[1] = "unlink" /\ l[2] = "install" /\ l[3] = "running" /\ l[4] = "or"
        /\ l[5] = "again"
    BY DEF Steps
  <2> HIDE DEF l
  <2>2. \A i \in 1 .. 5 : i = 1 \/ i = 2 \/ i = 3 \/ i = 4 \/ i = 5
    OBVIOUS
  <2>3. Without(l, Special) /\ Without(l, Openers)
    BY <2>1, <2>2 DEF Without, Special, Fetching, Copying, Openers
  <2>4. \A i \in 1 .. 5 : l[i] \in Uses => i = 3
    BY <2>1, <2>2 DEF Uses
  <2>5. Unbroken(l, 2, 3)
    <3>1. \A k \in 2 .. 3 : k = 2 \/ k = 3
      OBVIOUS
    <3> QED
      BY <2>1, <3>1 DEF Unbroken
  <2>6. \A i \in 1 .. Len(l) : l[i] \in Uses => i > 2 /\ Unbroken(l, 2, i)
    BY <2>1, <2>4, <2>5
  <2>7. 2 \in 1 .. Len(l)
    BY <2>1
  <2>8. Plain(l, FALSE)
    BY <2>1, <2>3, <2>6, <2>7, InstallsFirst
  <2> QED
    BY <2>3, <2>8 DEF l
<1> QED
  BY <1>1, <1>2, <1>3, <1>4, <1>5

LEMMA RecoveryIsPlain ==
    ASSUME NEW kind \in {"daemon", "protocol", "register"}, NEW a, Plain(a, FALSE),
           Without(a, Openers)
    PROVE  Plain(Recovery(kind) \o a, FALSE) /\ Without(Recovery(kind) \o a, Openers)
<1>1. /\ Plain(<<"unlink">>, FALSE) /\ Without(<<"unlink">>, Openers)
      /\ Plain(<<"restart">>, FALSE) /\ Without(<<"restart">>, Openers)
  <2>1. "unlink" \in Steps /\ "restart" \in Steps
    BY DEF Steps
  <2>2. {"unlink", "restart"} \intersect (Special \union Uses \union Openers) = {}
    BY DEF Special, Fetching, Copying, Uses, Openers
  <2> QED
    BY <2>1, <2>2, PlainSteps
<1>2. Plain(Recovery(kind), FALSE) /\ Without(Recovery(kind), Openers)
  <2>1. CASE kind = "daemon"
    <3>1. Recovery(kind) = <<"unlink">> \o AutoSetup
      BY <2>1 DEF Recovery
    <3> QED
      BY <1>1, <3>1, PlainLists, ConcatPlain, ConcatWithout DEF Plain
  <2>2. CASE kind = "protocol"
    <3>1. Recovery(kind) = <<"restart">>
      BY <2>2 DEF Recovery
    <3> QED
      BY <1>1, <3>1
  <2>3. CASE kind = "register"
    <3>1. Recovery(kind) = RegisterAndActivate
      BY <2>3 DEF Recovery
    <3> QED
      BY <3>1, PlainLists
  <2> QED
    BY <2>1, <2>2, <2>3
<1> QED
  BY <1>2, ConcatPlain, ConcatWithout DEF Plain

-----------------------------------------------------------------------------
(* A step keeps what holds of the lists.                                   *)

\* The list l may take the place of the step x.
Suits(l, x, acc, supplied, good, updating, cur, eff) ==
    /\ l \in Seq(Steps)
    /\ \/ acc
       \/ Guarded(l) /\ (x = "verify" => l # <<>> /\ l[Len(l)] = "verify")
    /\ Orderly(l) /\ (x \in Openers \/ Without(l, Openers))
    /\ supplied =>
          /\ Prepared(l, good)
          /\ \/ good \/ x \notin Preparers
             \/ \E j \in 1 .. Len(l) : l[j] \in Preparers /\ Unbroken(l, j, Len(l))
    /\ updating =>
          /\ Closing(l, cur, eff)
          /\ x = "restart" /\ cur => eff
          /\ x \in {"promote", "swap"} =>
                \/ cur
                \/ \E j \in 1 .. Len(l) : l[j] \in {"promote", "swap"} /\ Unbroken(l, j, Len(l))

\* Nothing that a list relies on is lost.
Rises(a, s, g, n, c, e, a1, s1, g1, n1, c1, e1) ==
    /\ a => a1
    /\ s1 => s /\ (g => g1)
    /\ n1 => n /\ (c => c1) /\ (c /\ e => e1)

LEMMA PreparedRises ==
    ASSUME NEW t, NEW g \in BOOLEAN, NEW h \in BOOLEAN, g => h, Prepared(t, g)
    PROVE  Prepared(t, h)
  BY DEF Prepared

LEMMA ClosingRises ==
    ASSUME NEW t, NEW c \in BOOLEAN, NEW e \in BOOLEAN, NEW d \in BOOLEAN, NEW f \in BOOLEAN,
           c => d, c /\ e => f, Closing(t, c, e)
    PROVE  Closing(t, d, f)
  BY DEF Closing, RestartsAt

LEMMA FitsDrops ==
    ASSUME NEW u \in Seq(Steps), NEW r, Drops(u, r),
           NEW a \in BOOLEAN, NEW s \in BOOLEAN, NEW g \in BOOLEAN, NEW n \in BOOLEAN,
           NEW c \in BOOLEAN, NEW e \in BOOLEAN, Fits(u, a, s, g, n, c, e)
    PROVE  Fits(r, a, s, g, n, c, e)
<1>1. a \/ Guarded(r)
  BY GuardedDrops DEF Fits
<1>2. Orderly(r)
  BY OrderlyDrops DEF Fits
<1>3. s => Prepared(r, g)
  BY PreparedDrops DEF Fits
<1>4. n => Closing(r, c, e)
  BY ClosingDrops DEF Fits
<1> QED
  BY <1>1, <1>2, <1>3, <1>4 DEF Fits

-----------------------------------------------------------------------------
(* Types.                                                                  *)

LEMMA FirstIsAPlace ==
    ASSUME NEW I, I \subseteq DOMAIN Places, I # {}
    PROVE  /\ Min(I) \in I /\ \A i \in I : Min(I) <= i
           /\ First(I) \in PlaceNames
<1>1. /\ DOMAIN Places = 1 .. 2 /\ Places[1] = "system" /\ Places[2] = "home"
      /\ \A i \in 1 .. 2 : i = 1 \/ i = 2
  BY DEF Places
<1>2. \E i \in I : \A j \in I : i <= j
  BY <1>1, LeastNatural
<1>3. Min(I) \in I /\ \A i \in I : Min(I) <= i
  BY <1>2 DEF Min
<1> QED
  BY <1>1, <1>3 DEF First, PlaceNames

LEMMA ThenTyped ==
    ASSUME NEW p \in Processes, todo \in [Processes -> Seq(Steps)], todo[p] # <<>>,
           NEW l \in Seq(Steps), Then(p, l)
    PROVE  todo' \in [Processes -> Seq(Steps)]
<1>1. l \o Tail(todo[p]) \in Seq(Steps)
  BY HeadTailProperties, ConcatProperties
<1>2. PastOr(l \o Tail(todo[p])) \in Seq(Steps)
  BY <1>1, PastOrDrops DEF Drops
<1> QED
  BY <1>2 DEF Then

LEMMA FailsTyped ==
    ASSUME NEW p \in Processes, todo \in [Processes -> Seq(Steps)], Fails(p)
    PROVE  todo' \in [Processes -> Seq(Steps)]
<1>1. PastOr(UpToOr(todo[p])) \in Seq(Steps)
  BY FailureDrops DEF Drops
<1> QED
  BY <1>1 DEF Fails

\* The lists, as sequences.
LEMMA InsertedLists ==
    /\ <<>> \in Seq(Steps)
    /\ \A x \in Steps : <<x>> \in Seq(Steps)
    /\ AutoSetup \in Seq(Steps) /\ RegisterAndActivate \in Seq(Steps)
    /\ EnsureDaemonUpToDate \in Seq(Steps) /\ PromoteBinaryTo \in Seq(Steps)
    /\ Authorization \in Seq(Steps)
    /\ <<"unlink", "install", "running", "or", "again">> \in Seq(Steps)
    /\ \A x, y \in Steps : <<x, y>> \in Seq(Steps)
<1>1. EnsureDaemonUpToDate \in Seq(Steps) /\ PromoteBinaryTo \in Seq(Steps)
  BY DEF EnsureDaemonUpToDate, PromoteBinaryTo, Steps
<1>2. /\ AutoSetup \in Seq(Steps) /\ RegisterAndActivate \in Seq(Steps)
      /\ Authorization \in Seq(Steps)
      /\ <<"unlink", "install", "running", "or", "again">> \in Seq(Steps)
  BY PlainLists DEF Plain
<1>3. \A x, y \in Steps : <<x, y>> \in Seq(Steps)
  OBVIOUS
<1>4. <<>> \in Seq(Steps) /\ \A x \in Steps : <<x>> \in Seq(Steps)
  OBVIOUS
<1> QED
  BY <1>1, <1>2, <1>3, <1>4

LEMMA RecoveryTyped ==
    ASSUME NEW kind \in {"daemon", "protocol", "register"}, NEW a \in Seq(Steps)
    PROVE  Recovery(kind) \o a \in Seq(Steps)
<1>1. "unlink" \in Steps /\ "restart" \in Steps
  BY DEF Steps
<1>2. CASE kind = "daemon"
  <2>1. Recovery(kind) = <<"unlink">> \o AutoSetup
    BY <1>2 DEF Recovery
  <2> QED
    BY <1>1, <2>1, InsertedLists, ConcatProperties
<1>3. CASE kind = "protocol"
  <2>1. Recovery(kind) = <<"restart">>
    BY <1>3 DEF Recovery
  <2> QED
    BY <1>1, <2>1, InsertedLists, ConcatProperties
<1>4. CASE kind = "register"
  <2>1. Recovery(kind) = RegisterAndActivate
    BY <1>4 DEF Recovery
  <2> QED
    BY <2>1, InsertedLists, ConcatProperties
<1> QED
  BY <1>2, <1>3, <1>4

LEMMA RecoverTyped ==
    ASSUME TypeOK, NEW p \in Processes, todo[p] # <<>>,
           NEW kind \in {"daemon", "protocol", "register"}, NEW a \in Seq(Steps),
           Recover(p, kind, a)
    PROVE  /\ todo' \in [Processes -> Seq(Steps)]
           /\ tried' \in [Processes -> SUBSET {"daemon", "protocol", "register"}]
<1>1. todo \in [Processes -> Seq(Steps)]
  BY DEF TypeOK
<1>2. CASE kind \in tried[p]
  BY <1>1, <1>2, FailsTyped DEF Recover, TypeOK
<1>3. CASE kind \notin tried[p]
  <2>1. Then(p, Recovery(kind) \o a)
    BY <1>3 DEF Recover
  <2>2. todo' \in [Processes -> Seq(Steps)]
    BY <1>1, <2>1, RecoveryTyped, ThenTyped
  <2>3. tried' = [tried EXCEPT ![p] = @ \union {kind}]
    BY <1>3 DEF Recover
  <2> QED
    BY <2>2, <2>3 DEF TypeOK
<1> QED
  BY <1>2, <1>3

\* What doctor does is a list of repairs and updates.
LEMMA RepairsArePlain ==
    ASSUME NEW r
    PROVE  Plain(Repairs(r), FALSE)
<1> DEFINE Part(finding, repair) == IF finding THEN repair \o <<"or">> ELSE <<>>
           best == disk[FindBestDaemon]
           a == Part(best = "broken", <<"install">>)
           b == Part(best = "old", <<"update">>)
           c == Part(best = "broken", <<"update">>)
           d == Part(~IsAvailable, AutoSetup)
           e == Part(IsAvailable /\ r # Down /\ disk[r.at] = "old", <<"update">>)
           f == Part(Unregistered(best), RegisterAndActivate)
           g == Part(IsAvailable /\ ~Serving.grants, RegisterAndActivate)
<1>1. Repairs(r) = IF Existing = {} THEN <<"install", "or">>
                   ELSE a \o b \o c \o d \o e \o f \o g
  BY DEF Repairs
<1>2. /\ Plain(<<>>, FALSE) /\ Plain(<<"or">>, FALSE)
      /\ Plain(<<"install">>, FALSE) /\ Plain(<<"update">>, FALSE)
  <2>1. "or" \in Steps /\ "install" \in Steps /\ "update" \in Steps
    BY DEF Steps
  <2>2. {"or", "install", "update"} \intersect (Special \union Uses) = {}
    BY DEF Special, Fetching, Copying, Uses
  <2> QED
    BY <2>1, <2>2, PlainSteps
<1>3. ASSUME NEW finding, NEW repair, Plain(repair, FALSE)
      PROVE  Plain(Part(finding, repair), FALSE)
  BY <1>2, <1>3, ConcatPlain
<1>4. /\ Plain(a, FALSE) /\ Plain(b, FALSE) /\ Plain(c, FALSE) /\ Plain(d, FALSE)
      /\ Plain(e, FALSE) /\ Plain(f, FALSE) /\ Plain(g, FALSE)
  BY <1>2, <1>3, PlainLists
<1> HIDE DEF a, b, c, d, e, f, g
<1>5. Plain(a \o b \o c \o d \o e \o f \o g, FALSE)
  <2>1. Plain(a \o b \o c, FALSE)
    BY <1>4, ConcatPlain
  <2>2. Plain(a \o b \o c \o d \o e, FALSE)
    BY <1>4, <2>1, ConcatPlain
  <2> QED
    BY <1>4, <2>2, ConcatPlain
<1>6. Plain(<<"install", "or">>, FALSE)
  <2>1. <<"install", "or">> = <<"install">> \o <<"or">>
    OBVIOUS
  <2> QED
    BY <1>2, <2>1, ConcatPlain
<1> QED
  BY <1>1, <1>5, <1>6

LEMMA InitTyped == Init => TypeOK
<1> SUFFICES ASSUME Init PROVE TypeOK
  OBVIOUS
<1>1. PICK h \in Installations : disk = h.disk /\ unit = h.unit /\ daemon = h.up
  BY DEF Init
<1>2. h \in [disk : [PlaceNames -> Builds], unit : BOOLEAN, up : [Modes -> Daemons \union {Down}]]
  BY SetupAssumption
<1>3. ranNew \subseteq Modes
  BY DEF Init, RunNew
<1>4. <<>> \in Seq(Steps)
  OBVIOUS
<1>5. /\ disk \in [PlaceNames -> Builds] /\ unit \in BOOLEAN
      /\ daemon \in [Modes -> Daemons \union {Down}]
  BY <1>1, <1>2
<1>6. /\ tmp \in Builds /\ release \in Runnable
      /\ trust \in [Modes -> BOOLEAN] /\ marker \in BOOLEAN
      /\ accepted \in BOOLEAN /\ served \subseteq Processes
  BY DEF Init, Builds, Runnable
<1>7. /\ todo \in [Processes -> Seq(Steps)] /\ kc \in [Processes -> PlaceNames]
      /\ out \in [Processes -> {"nothing", "tmp", "system"}]
  BY <1>4 DEF Init, PlaceNames
<1>8. /\ changed \in [Processes -> BOOLEAN] /\ spent \in [Processes -> BOOLEAN]
      /\ tried \in [Processes -> SUBSET {"daemon", "protocol", "register"}]
  BY DEF Init
<1>9. runs \in 0 .. MaxRuns /\ faults \in 0 .. MaxFaults
  BY SetupAssumption DEF Init
<1> QED
  BY <1>3, <1>5, <1>6, <1>7, <1>8, <1>9 DEF TypeOK

LEMMA ResetTyped ==
    ASSUME TypeOK, NEW p \in Processes, Reset(p)
    PROVE  /\ todo' \in [Processes -> Seq(Steps)] /\ kc' \in [Processes -> PlaceNames]
           /\ out' \in [Processes -> {"nothing", "tmp", "system"}]
           /\ changed' \in [Processes -> BOOLEAN] /\ spent' \in [Processes -> BOOLEAN]
           /\ tried' \in [Processes -> SUBSET {"daemon", "protocol", "register"}]
           /\ served' \subseteq Processes
<1>1. <<>> \in Seq(Steps)
  OBVIOUS
<1> QED
  BY <1>1 DEF Reset, TypeOK, PlaceNames

LEMMA ProgramTyped ==
    ASSUME NEW kind \in Kinds
    PROVE  Program(kind) \o <<"or", "exit">> \in Seq(Steps)
<1>1. kind = "command" \/ kind = "machine" \/ kind = "doctor"
  BY SetupAssumption
<1>2. /\ <<"avail", "fresh", "init", "binary">> \in Seq(Steps) /\ <<"machine">> \in Seq(Steps)
      /\ <<"diagnose">> \in Seq(Steps) /\ <<"or", "exit">> \in Seq(Steps)
  BY DEF Steps
<1>3. Program(kind) \in Seq(Steps)
  BY <1>1, <1>2 DEF Program
<1> QED
  BY <1>2, <1>3, ConcatProperties

LEMMA StartedTyped ==
    ASSUME TypeOK, NEW place \in PlaceNames, NEW mode \in Modes, disk[place] \in Runnable
    PROVE  Started(place, mode) \in Daemons
  BY DEF TypeOK, Started, Daemons

LEMMA RunNewTyped ==
    ASSUME NEW d
    PROVE  RunNew(d) \subseteq Modes
  BY DEF RunNew

LEMMA BeginTyped ==
    ASSUME TypeOK, NEW p \in Processes, NEW kind \in Kinds, Begin(p, kind)
    PROVE  TypeOK'
<1>1. todo' \in [Processes -> Seq(Steps)]
  BY ProgramTyped DEF Begin, TypeOK
<1>2. spent' \in [Processes -> BOOLEAN]
  BY DEF Begin, TypeOK
<1>3. runs' \in 0 .. MaxRuns
  BY SetupAssumption DEF Begin, TypeOK
<1> QED
  BY <1>1, <1>2, <1>3 DEF Begin, TypeOK, files, host, history

LEMMA FaultTyped ==
    ASSUME TypeOK, Fault
    PROVE  runs' \in 0 .. MaxRuns /\ faults' \in 0 .. MaxFaults
  BY SetupAssumption DEF Fault, TypeOK

LEMMA DaemonDiesTyped ==
    ASSUME TypeOK, NEW m \in Modes, DaemonDies(m)
    PROVE  TypeOK'
  BY FaultTyped DEF DaemonDies, TypeOK, files, locals, history

LEMMA KillTyped ==
    ASSUME TypeOK, NEW p \in Processes, Kill(p)
    PROVE  TypeOK'
<1>1. Reset(p) /\ Fault
  BY DEF Kill
<1> QED
  BY <1>1, FaultTyped, ResetTyped DEF Kill, TypeOK, files, host

LEMMA UpgradeTyped ==
    ASSUME TypeOK, Upgrade
    PROVE  TypeOK'
<1>1. daemon' \in [Modes -> Daemons \union {Down}]
  <2> SUFFICES ASSUME NEW m \in Modes, daemon[m] # Down
               PROVE  [daemon[m] EXCEPT !.grants = FALSE] \in Daemons
    BY DEF Upgrade
  <2>1. daemon[m] \in Daemons
    BY DEF TypeOK
  <2> QED
    BY <2>1 DEF Daemons
<1>2. trust' \in [Modes -> BOOLEAN]
  BY DEF Upgrade
<1> QED
  BY <1>1, <1>2, FaultTyped DEF Upgrade, TypeOK, files, locals

LEMMA RepairAndTyped ==
    ASSUME TypeOK, NEW p \in Processes, todo[p] # <<>>, NEW x \in Steps, RepairAnd(p, x)
    PROVE  todo' \in [Processes -> Seq(Steps)] /\ spent' \in [Processes -> BOOLEAN]
<1>1. "or" \in Steps
  BY DEF Steps
<1>2. RegisterAndActivate \o <<"or", x>> \in Seq(Steps)
  BY <1>1, InsertedLists, ConcatProperties
<1> QED
  BY <1>2, ThenTyped DEF RepairAnd, TypeOK

\* What is left of the list, after most steps.
LEMMA StepTyped ==
    ASSUME TypeOK, NEW p \in Processes, Step(p)
    PROVE  TypeOK'
<1> DEFINE Ok == todo' \in [Processes -> Seq(Steps)]
<1>1. todo \in [Processes -> Seq(Steps)] /\ todo[p] # <<>>
  BY DEF TypeOK, Step, Avail, Again, Fresh, Update, Binary, Connect, Verify, Record, Diagnose,
     Reach, Unlink, Install, Download, Unpack, Settle, Promote, Copy, Copied, Swap, Sandbox,
     Register, Authorize, Restart, Probe, EnsureDaemonRunning, Start, Close, Exit, At
<1>2. \A l \in Seq(Steps) : Then(p, l) => Ok
  BY <1>1, ThenTyped
<1>3. Fails(p) => Ok
  BY <1>1, FailsTyped
<1>4. Done(p) => Ok
  BY <1>2, InsertedLists DEF Done
<1>5. /\ "unlink" \in Steps /\ "update" \in Steps /\ "verify" \in Steps /\ "record" \in Steps
      /\ "init" \in Steps /\ "reach" \in Steps /\ "download" \in Steps /\ "unpack" \in Steps
      /\ "settle" \in Steps /\ "or" \in Steps /\ "start" \in Steps /\ "install" \in Steps
      /\ "register" \in Steps
  BY DEF Steps
<1> HIDE DEF Ok
<1>6. CASE Exit(p)
  BY <1>6, ResetTyped DEF Exit, TypeOK, files, host, counters
<1>7. CASE Avail(p)
  <2>1. Ok
    BY <1>2, <1>4, <1>7, InsertedLists DEF Avail
  <2> QED
    BY <1>7, <2>1 DEF Ok, Avail, TypeOK, files, host, locals, history, counters
<1>8. CASE Again(p)
  <2>1. <<"unlink">> \o AutoSetup \in Seq(Steps)
    BY <1>5, InsertedLists, ConcatProperties
  <2>2. Ok
    BY <1>2, <1>4, <1>8, <2>1 DEF Again
  <2> QED
    BY <1>8, <2>2 DEF Ok, Again, TypeOK, files, host, locals, history, counters
<1>9. CASE Fresh(p)
  <2>1. <<"update">> \in Seq(Steps)
    BY <1>5, InsertedLists
  <2>2. Ok
    BY <1>2, <1>4, <1>9, <2>1 DEF Fresh
  <2>3. changed' \in [Processes -> BOOLEAN]
    BY <1>9 DEF Fresh, TypeOK, BinaryVerificationNeeded
  <2> QED
    BY <1>9, <2>2, <2>3 DEF Ok, Fresh, TypeOK, files, host, history, counters
<1>10. CASE Update(p)
  <2>1. Ok
    BY <1>2, <1>4, <1>10, InsertedLists DEF Update
  <2>2. served' \subseteq Processes
    BY <1>10 DEF Update, TypeOK
  <2> QED
    BY <1>10, <2>1, <2>2 DEF Ok, Update, TypeOK, files, host, locals, counters
<1>11. CASE Binary(p)
  <2>1. <<"verify", "record">> \in Seq(Steps)
    BY <1>5, InsertedLists
  <2>2. Ok
    BY <1>2, <1>4, <1>11, <2>1 DEF Binary
  <2> QED
    BY <1>11, <2>2 DEF Ok, Binary, TypeOK, files, host, history, counters
<1>12. CASE Connect(p)
  <2>1. <<"init">> \in Seq(Steps)
    BY <1>5, InsertedLists
  <2>2. Ok /\ tried' \in [Processes -> SUBSET {"daemon", "protocol", "register"}]
    BY <1>1, <1>4, <1>12, <2>1, RecoverTyped DEF Connect, Ok, TypeOK
  <2> QED
    BY <1>12, <2>2 DEF Ok, Connect, TypeOK, files, host, history, counters
<1>13. CASE Verify(p)
  <2>1. <<"init", "verify">> \in Seq(Steps)
    BY <1>5, InsertedLists
  <2> DEFINE Tried == tried' \in [Processes -> SUBSET {"daemon", "protocol", "register"}]
             New == accepted' \in BOOLEAN /\ spent' \in [Processes -> BOOLEAN]
  <2>2. Ok /\ Tried /\ New
    <3>1. CASE RepairAnd(p, "verify") /\ UNCHANGED <<tried, accepted>>
      BY <1>1, <1>5, <3>1, RepairAndTyped DEF TypeOK, Ok
    <3>2. CASE accepted' = TRUE /\ Done(p) /\ UNCHANGED <<tried, spent>>
      BY <1>4, <3>2 DEF TypeOK
    <3>3. ASSUME NEW kind \in {"daemon", "protocol", "register"},
                 Recover(p, kind, <<"init", "verify">>), UNCHANGED <<spent, accepted>>
          PROVE  Ok /\ Tried /\ New
      BY <1>1, <2>1, <3>3, RecoverTyped DEF TypeOK, Ok
    <3> QED
      BY <1>13, <3>1, <3>2, <3>3 DEF Verify
  <2> QED
    BY <1>13, <2>2 DEF Ok, Verify, TypeOK, files, host, counters
<1>14. CASE Record(p)
  BY <1>4, <1>14 DEF Ok, Record, TypeOK, files, locals, history, counters
<1>15. CASE Diagnose(p)
  <2>1. PICK r \in Scanned :
           Then(p, (IF IsAvailable \/ Existing = {} THEN <<>> ELSE <<"unlink">>)
                   \o Repairs(r) \o <<"reach">>)
    BY <1>15 DEF Diagnose
  <2>2. (IF IsAvailable \/ Existing = {} THEN <<>> ELSE <<"unlink">>)
           \o Repairs(r) \o <<"reach">> \in Seq(Steps)
    <3>1. Repairs(r) \in Seq(Steps)
      BY RepairsArePlain DEF Plain
    <3>2. /\ <<>> \in Seq(Steps) /\ <<"unlink">> \in Seq(Steps)
          /\ <<"reach">> \in Seq(Steps)
      BY <1>5, InsertedLists
    <3> HIDE DEF Repairs
    <3> QED
      BY <3>1, <3>2, ConcatProperties
  <2>3. Ok
    BY <1>2, <2>1, <2>2
  <2> QED
    BY <1>15, <2>3 DEF Ok, Diagnose, TypeOK, files, host, locals, history, counters
<1>16. CASE Reach(p)
  <2>1. Ok
    BY <1>2, <1>4, <1>5, <1>16, InsertedLists DEF Reach
  <2> QED
    BY <1>16, <2>1 DEF Ok, Reach, TypeOK, files, host, locals, history, counters
<1>17. CASE Unlink(p)
  <2>1. daemon' \in [Modes -> Daemons \union {Down}]
    <3>1. \A d \in Daemons : [d EXCEPT !.socket = FALSE] \in Daemons
      BY DEF Daemons
    <3>2. daemon["user"] \in Daemons \union {Down}
      BY DEF TypeOK, Modes
    <3> QED
      BY <1>17, <3>1, <3>2 DEF Unlink, TypeOK, Modes
  <2> QED
    BY <1>4, <1>17, <2>1 DEF Ok, Unlink, TypeOK, files, locals, history, counters
<1>18. CASE Install(p)
  <2>1. Ok
    BY <1>2, <1>4, <1>5, <1>18, InsertedLists DEF Install
  <2>2. kc' \in [Processes -> PlaceNames]
    <3>1. Sufficient # {} => First(Sufficient) \in PlaceNames
      BY FirstIsAPlace DEF Sufficient
    <3> QED
      BY <1>18, <3>1 DEF Install, TypeOK
  <2> QED
    BY <1>18, <2>1, <2>2 DEF Ok, Install, TypeOK, files, host, history, counters
<1>19. CASE Download(p)
  <2>1. Ok
    BY <1>2, <1>3, <1>5, <1>19, InsertedLists DEF Download
  <2>2. disk' \in [PlaceNames -> Builds]
    BY <1>19 DEF Download, TypeOK, Builds, Runnable
  <2> QED
    BY <1>19, <2>1, <2>2 DEF Ok, Download, TypeOK, host, locals, history, counters
<1>20. CASE Unpack(p)
  <2>1. PromoteBinaryTo \o <<"settle", "or">> \in Seq(Steps)
    BY <1>5, InsertedLists, ConcatProperties
  <2>2. Ok
    BY <1>2, <1>3, <1>4, <1>20, <2>1 DEF Unpack
  <2>3. disk' \in [PlaceNames -> Builds] /\ kc' \in [Processes -> PlaceNames]
    <3>1. release \in Builds /\ "home" \in PlaceNames
      BY DEF TypeOK, Builds, PlaceNames
    <3>2. disk' \in [PlaceNames -> Builds]
      BY <1>20, <3>1 DEF Unpack, TypeOK
    <3>3. kc' \in [Processes -> PlaceNames]
      BY <1>20, <3>1 DEF Unpack, TypeOK
    <3> QED
      BY <3>2, <3>3
  <2> QED
    BY <1>20, <2>2, <2>3 DEF Ok, Unpack, TypeOK, host, history, counters
<1>21. CASE Settle(p)
  <2>1. kc' \in [Processes -> PlaceNames]
    BY <1>21 DEF Settle, TypeOK, PlaceNames
  <2> QED
    BY <1>4, <1>21, <2>1 DEF Ok, Settle, TypeOK, files, host, history, counters
<1>22. CASE Promote(p)
  <2>1. Ok
    BY <1>2, <1>4, <1>22, InsertedLists DEF Promote
  <2> QED
    BY <1>22, <2>1 DEF Ok, Promote, TypeOK, files, host, locals, history, counters
<1>23. CASE Copy(p)
  <2>1. tmp' \in Builds /\ out' \in [Processes -> {"nothing", "tmp", "system"}] /\ Ok
    BY <1>3, <1>4, <1>23 DEF Copy, TypeOK, Builds
  <2> QED
    BY <1>23, <2>1 DEF Ok, Copy, TypeOK, host, history, counters
<1>24. CASE Copied(p)
  <2>1. Ok
    BY <1>3, <1>4, <1>24 DEF Copied
  <2>2. /\ tmp' \in Builds /\ disk' \in [PlaceNames -> Builds]
        /\ out' \in [Processes -> {"nothing", "tmp", "system"}]
    <3>1. disk[kc[p]] \in Builds
      BY DEF TypeOK
    <3>2. tmp' \in Builds /\ disk' \in [PlaceNames -> Builds]
      BY <1>24, <3>1 DEF Copied, TypeOK
    <3>3. out' \in [Processes -> {"nothing", "tmp", "system"}]
      BY <1>24 DEF Copied, TypeOK
    <3> QED
      BY <3>2, <3>3
  <2> QED
    BY <1>24, <2>1, <2>2 DEF Ok, Copied, TypeOK, host, history, counters
<1>25. CASE Swap(p)
  <2>1. Ok
    BY <1>3, <1>4, <1>25 DEF Swap
  <2>2. /\ tmp' \in Builds /\ disk' \in [PlaceNames -> Builds]
        /\ out' \in [Processes -> {"nothing", "tmp", "system"}]
    <3>1. "none" \in Builds /\ tmp \in Builds
      BY DEF TypeOK, Builds
    <3>2. tmp' \in Builds
      BY <1>25, <3>1 DEF Swap
    <3>3. disk' \in [PlaceNames -> Builds]
      BY <1>25, <3>1 DEF Swap, TypeOK
    <3>4. out' \in [Processes -> {"nothing", "tmp", "system"}]
      BY <1>25 DEF Swap, TypeOK
    <3> QED
      BY <3>2, <3>3, <3>4
  <2> QED
    BY <1>25, <2>1, <2>2 DEF Ok, Swap, TypeOK, host, history, counters
<1>26. CASE Sandbox(p)
  <2>1. Ok
    BY <1>3, <1>4, <1>26 DEF Sandbox
  <2>2. /\ unit' \in BOOLEAN /\ disk' \in [PlaceNames -> Builds]
        /\ trust' \in [Modes -> BOOLEAN]
    BY <1>26 DEF Sandbox, TypeOK
  <2> QED
    BY <1>26, <2>1, <2>2 DEF Ok, Sandbox, TypeOK, locals, history, counters
<1>27. CASE Register(p)
  <2>1. Ok /\ spent' \in [Processes -> BOOLEAN]
    <3>1. CASE RepairAnd(p, "register")
      BY <1>1, <1>5, <3>1, RepairAndTyped DEF Ok
    <3>2. CASE Done(p) /\ UNCHANGED spent
      BY <1>4, <3>2 DEF TypeOK
    <3>3. CASE Then(p, Authorization) /\ UNCHANGED spent
      BY <1>2, <3>3, InsertedLists DEF TypeOK
    <3> QED
      BY <1>27, <3>1, <3>2, <3>3 DEF Register
  <2> QED
    BY <1>27, <2>1 DEF Ok, Register, TypeOK, files, host, history, counters
<1>28. CASE Authorize(p)
  <2>1. Ok /\ trust' \in [Modes -> BOOLEAN]
    BY <1>3, <1>4, <1>28 DEF Authorize, TypeOK
  <2> QED
    BY <1>28, <2>1 DEF Ok, Authorize, TypeOK, files, locals, history, counters
<1>29. CASE Restart(p)
  <2>1. Ok
    BY <1>2, <1>3, <1>4, <1>5, <1>29, InsertedLists DEF Restart, SystemdRestarts
  <2>2. daemon' \in [Modes -> Daemons \union {Down}]
    BY <1>29, StartedTyped DEF Restart, SystemdRestarts, TypeOK, Modes, PlaceNames
  <2>3. ranNew' \subseteq Modes
    BY <1>29, RunNewTyped DEF Restart, TypeOK
  <2> QED
    BY <1>29, <2>1, <2>2, <2>3 DEF Ok, Restart, TypeOK, files, locals, counters
<1>30. CASE Probe(p)
  <2>1. Ok
    BY <1>3, <1>4, <1>30 DEF Probe
  <2> QED
    BY <1>30, <2>1 DEF Ok, Probe, TypeOK, files, host, locals, history, counters
<1>31. CASE EnsureDaemonRunning(p)
  <2>1. Ok
    BY <1>2, <1>4, <1>5, <1>31, InsertedLists DEF EnsureDaemonRunning
  <2> QED
    BY <1>31, <2>1 DEF Ok, EnsureDaemonRunning, TypeOK, files, host, locals, history, counters
<1>32. CASE Start(p)
  <2>1. Ok
    BY <1>3, <1>4, <1>32 DEF Start, SystemdRestarts
  <2>2. daemon' \in [Modes -> Daemons \union {Down}]
    BY <1>32, StartedTyped DEF Start, SystemdRestarts, TypeOK, Modes, PlaceNames
  <2>3. ranNew' \subseteq Modes
    BY <1>32, RunNewTyped DEF Start, TypeOK
  <2> QED
    BY <1>32, <2>1, <2>2, <2>3 DEF Ok, Start, TypeOK, files, locals, counters
<1>33. CASE Close(p)
  <2>1. served' \subseteq Processes
    BY <1>33 DEF Close, TypeOK
  <2> QED
    BY <1>4, <1>33, <2>1 DEF Ok, Close, TypeOK, files, host, locals, counters
<1> QED
  BY <1>6, <1>7, <1>8, <1>9, <1>10, <1>11, <1>12, <1>13, <1>14, <1>15, <1>16, <1>17, <1>18,
     <1>19, <1>20, <1>21, <1>22, <1>23, <1>24, <1>25, <1>26, <1>27, <1>28, <1>29, <1>30,
     <1>31, <1>32, <1>33 DEF Step

\* Binaries, lists of steps and daemons keep their form under every step.
THEOREM TypeCorrect == Spec => []TypeOK
<1>1. Init => TypeOK
  BY InitTyped
<1>2. TypeOK /\ [Next]_vars => TypeOK'
  <2> SUFFICES ASSUME TypeOK, [Next]_vars PROVE TypeOK'
    OBVIOUS
  <2>1. ASSUME NEW p \in Processes, Step(p) PROVE TypeOK'
    BY <2>1, StepTyped
  <2>2. ASSUME NEW p \in Processes, Kill(p) PROVE TypeOK'
    BY <2>2, KillTyped
  <2>3. ASSUME NEW p \in Processes, NEW kind \in Kinds, Begin(p, kind) PROVE TypeOK'
    BY <2>3, BeginTyped
  <2>4. ASSUME NEW m \in Modes, DaemonDies(m) PROVE TypeOK'
    BY <2>4, DaemonDiesTyped
  <2>5. CASE Upgrade
    BY <2>5, UpgradeTyped
  <2>6. CASE UNCHANGED vars
    BY <2>6 DEF TypeOK, vars, files, host, locals, history, counters
  <2> QED
    BY <2>1, <2>2, <2>3, <2>4, <2>5, <2>6 DEF Next
<1> QED
  BY <1>1, <1>2, PTL DEF Spec

-----------------------------------------------------------------------------
(* The steps, and what every list relies on.                               *)

\* No list loses what it relies on.
Rise(p) ==
    Rises(accepted, ~Bare, Good(p), Updating(p), Current, Effective,
          accepted', ~Bare', Good(p)', Updating(p)', Current', Effective')

SuitsNow(l, p) ==
    Suits(l, todo[p][1], accepted', ~Bare', Good(p)', Updating(p)', Current', Effective')

LEMMA Booleans ==
    ASSUME TypeOK, NEW p
    PROVE  /\ accepted \in BOOLEAN /\ (~Bare) \in BOOLEAN /\ Good(p) \in BOOLEAN
           /\ Updating(p) \in BOOLEAN /\ Current \in BOOLEAN /\ Effective \in BOOLEAN
  BY DEF TypeOK, Bare, Good, Updating, Current, Effective

LEMMA BooleansNext ==
    ASSUME TypeOK', NEW p
    PROVE  /\ accepted' \in BOOLEAN /\ (~Bare') \in BOOLEAN /\ Good(p)' \in BOOLEAN
           /\ Updating(p)' \in BOOLEAN /\ Current' \in BOOLEAN /\ Effective' \in BOOLEAN
  BY DEF TypeOK, Bare, Good, Updating, Current, Effective

LEMMA KeptFits ==
    ASSUME TypeOK, TypeOK', NEW p \in Processes, ListFits(p), Rise(p), todo'[p] = todo[p]
    PROVE  ListFits(p)'
<1> DEFINE a == accepted
           s == ~Bare
           g == Good(p)
           n == Updating(p)
           c == Current
           e == Effective
           a1 == accepted'
           s1 == ~Bare'
           g1 == Good(p)'
           n1 == Updating(p)'
           c1 == Current'
           e1 == Effective'
<1>1. /\ a \in BOOLEAN /\ s \in BOOLEAN /\ g \in BOOLEAN
      /\ n \in BOOLEAN /\ c \in BOOLEAN /\ e \in BOOLEAN
  BY Booleans
<1>2. /\ a1 \in BOOLEAN /\ s1 \in BOOLEAN /\ g1 \in BOOLEAN
      /\ n1 \in BOOLEAN /\ c1 \in BOOLEAN /\ e1 \in BOOLEAN
  BY BooleansNext
<1>3. Fits(todo[p], a, s, g, n, c, e) /\ Rises(a, s, g, n, c, e, a1, s1, g1, n1, c1, e1)
  BY DEF ListFits, Rise
<1> HIDE DEF a, s, g, n, c, e, a1, s1, g1, n1, c1, e1
<1>4. todo[p] \in Seq(Steps)
  BY DEF TypeOK
<1>5. Fits(todo[p], a1, s1, g1, n1, c1, e1)
  <2>1. (a1 \/ Guarded(todo[p])) /\ Orderly(todo[p])
    BY <1>1, <1>2, <1>3 DEF Fits, Rises
  <2>2. s1 => Prepared(todo[p], g1)
    BY <1>1, <1>2, <1>3, PreparedRises DEF Fits, Rises
  <2>3. n1 => Closing(todo[p], c1, e1)
    BY <1>1, <1>2, <1>3, ClosingRises DEF Fits, Rises
  <2> QED
    BY <2>1, <2>2, <2>3 DEF Fits
<1>6. Fits(todo'[p], a1, s1, g1, n1, c1, e1)
  BY <1>5
<1> QED
  BY <1>6 DEF ListFits, a1, s1, g1, n1, c1, e1

LEMMA FailedFits ==
    ASSUME TypeOK, TypeOK', NEW p \in Processes, ListFits(p), Rise(p), Fails(p)
    PROVE  ListFits(p)'
<1> DEFINE a == accepted
           s == ~Bare
           g == Good(p)
           n == Updating(p)
           c == Current
           e == Effective
           a1 == accepted'
           s1 == ~Bare'
           g1 == Good(p)'
           n1 == Updating(p)'
           c1 == Current'
           e1 == Effective'
<1>1. /\ a \in BOOLEAN /\ s \in BOOLEAN /\ g \in BOOLEAN
      /\ n \in BOOLEAN /\ c \in BOOLEAN /\ e \in BOOLEAN
  BY Booleans
<1>2. /\ a1 \in BOOLEAN /\ s1 \in BOOLEAN /\ g1 \in BOOLEAN
      /\ n1 \in BOOLEAN /\ c1 \in BOOLEAN /\ e1 \in BOOLEAN
  BY BooleansNext
<1>3. Fits(todo[p], a, s, g, n, c, e) /\ Rises(a, s, g, n, c, e, a1, s1, g1, n1, c1, e1)
  BY DEF ListFits, Rise
<1> HIDE DEF a, s, g, n, c, e, a1, s1, g1, n1, c1, e1
<1>4. todo[p] \in Seq(Steps)
  BY DEF TypeOK
<1>5. Fits(todo[p], a1, s1, g1, n1, c1, e1)
  <2>1. (a1 \/ Guarded(todo[p])) /\ Orderly(todo[p])
    BY <1>1, <1>2, <1>3 DEF Fits, Rises
  <2>2. s1 => Prepared(todo[p], g1)
    BY <1>1, <1>2, <1>3, PreparedRises DEF Fits, Rises
  <2>3. n1 => Closing(todo[p], c1, e1)
    BY <1>1, <1>2, <1>3, ClosingRises DEF Fits, Rises
  <2> QED
    BY <2>1, <2>2, <2>3 DEF Fits
<1>6. Drops(todo[p], todo'[p])
  BY <1>4, FailureDrops DEF Fails, TypeOK
<1>7. Fits(todo'[p], a1, s1, g1, n1, c1, e1)
  BY <1>2, <1>4, <1>5, <1>6, FitsDrops
<1> QED
  BY <1>7 DEF ListFits, a1, s1, g1, n1, c1, e1

LEMMA ThenFitsIf ==
    ASSUME TypeOK, TypeOK', NEW p \in Processes, todo[p] # <<>>, NEW n \in BOOLEAN,
           Fits(todo[p], accepted, ~Bare, Good(p), n, Current, Effective),
           Rises(accepted, ~Bare, Good(p), n, Current, Effective,
                 accepted', ~Bare', Good(p)', Updating(p)', Current', Effective'),
           NEW l, SuitsNow(l, p), Then(p, l)
    PROVE  ListFits(p)'
<1> DEFINE a == accepted
           s == ~Bare
           g == Good(p)
           c == Current
           e == Effective
           a1 == accepted'
           s1 == ~Bare'
           g1 == Good(p)'
           n1 == Updating(p)'
           c1 == Current'
           e1 == Effective'
<1>1. /\ a \in BOOLEAN /\ s \in BOOLEAN /\ g \in BOOLEAN
      /\ n \in BOOLEAN /\ c \in BOOLEAN /\ e \in BOOLEAN
  BY Booleans
<1>2. /\ a1 \in BOOLEAN /\ s1 \in BOOLEAN /\ g1 \in BOOLEAN
      /\ n1 \in BOOLEAN /\ c1 \in BOOLEAN /\ e1 \in BOOLEAN
  BY BooleansNext
<1>3. Fits(todo[p], a, s, g, n, c, e) /\ Rises(a, s, g, n, c, e, a1, s1, g1, n1, c1, e1)
  OBVIOUS
<1>4. Suits(l, todo[p][1], a1, s1, g1, n1, c1, e1)
  BY DEF SuitsNow
<1> HIDE DEF a, s, g, c, e, a1, s1, g1, n1, c1, e1
<1> DEFINE u == l \o Tail(todo[p])
<1>5. todo[p] \in Seq(Steps) /\ l \in Seq(Steps)
  BY <1>4 DEF TypeOK, Suits
<1>6. Inserts(todo[p], l, u) /\ u \in Seq(Steps)
  BY <1>5, ConcatInserts DEF Inserts
<1>7. todo'[p] = PastOr(u)
  BY DEF Then, TypeOK
<1> HIDE DEF u
<1>8. Fits(u, a1, s1, g1, n1, c1, e1)
  <2>1. a1 \/ Guarded(u)
    BY <1>1, <1>2, <1>3, <1>4, <1>5, <1>6, GuardedInserts DEF Fits, Suits, Rises
  <2>2. Orderly(u)
    BY <1>3, <1>4, <1>5, <1>6, OrderlyInserts DEF Fits, Suits, Without
  <2>3. ASSUME s1 PROVE Prepared(u, g1)
    <3>1. /\ g => g1
          /\ Prepared(todo[p], g) /\ Prepared(l, g1)
          /\ \/ g1 \/ todo[p][1] \notin Preparers
             \/ \E j \in 1 .. Len(l) : l[j] \in Preparers /\ Unbroken(l, j, Len(l))
      BY <1>1, <1>2, <1>3, <1>4, <2>3 DEF Fits, Suits, Rises
    <3> QED
      BY <1>1, <1>2, <1>5, <1>6, <3>1, PreparedInserts
  <2>4. ASSUME n1 PROVE Closing(u, c1, e1)
    <3>1. /\ c => c1
          /\ c /\ e => e1
          /\ Closing(todo[p], c, e) /\ Closing(l, c1, e1)
          /\ todo[p][1] = "restart" => (c => e1)
          /\ todo[p][1] \in {"promote", "swap"} =>
                \/ c1
                \/ \E j \in 1 .. Len(l) :
                      l[j] \in {"promote", "swap"} /\ Unbroken(l, j, Len(l))
      BY <1>1, <1>2, <1>3, <1>4, <2>4 DEF Fits, Suits, Rises
    <3>2. PICK t : t = todo[p]
      OBVIOUS
    <3>3. /\ t \in Seq(Steps) /\ t # <<>> /\ Inserts(t, l, u) /\ Closing(t, c, e)
          /\ t[1] = "restart" => (c => e1)
          /\ t[1] \in {"promote", "swap"} =>
                \/ c1
                \/ \E j \in 1 .. Len(l) :
                      l[j] \in {"promote", "swap"} /\ Unbroken(l, j, Len(l))
      BY <1>5, <1>6, <3>1, <3>2
    <3> QED
      BY <1>1, <1>2, <1>5, <3>1, <3>3, ClosingInserts
  <2> QED
    BY <2>1, <2>2, <2>3, <2>4 DEF Fits
<1>9. Drops(u, PastOr(u))
  BY <1>6, PastOrDrops
<1>10. Fits(PastOr(u), a1, s1, g1, n1, c1, e1)
  <2>1. u \in Seq(Steps) /\ Drops(u, PastOr(u)) /\ Fits(u, a1, s1, g1, n1, c1, e1)
    BY <1>6, <1>8, <1>9
  <2>2. \A a2, s2, g2, n2, c2, e2 \in BOOLEAN :
           Fits(u, a2, s2, g2, n2, c2, e2) => Fits(PastOr(u), a2, s2, g2, n2, c2, e2)
    BY <2>1, FitsDrops
  <2> QED
    BY <1>2, <2>1, <2>2
<1> QED
  BY <1>7, <1>10 DEF ListFits, a1, s1, g1, n1, c1, e1

LEMMA ThenFits ==
    ASSUME TypeOK, TypeOK', NEW p \in Processes, todo[p] # <<>>, ListFits(p), Rise(p),
           NEW l, SuitsNow(l, p), Then(p, l)
    PROVE  ListFits(p)'
<1> DEFINE n == Updating(p)
<1>1. n \in BOOLEAN
  BY Booleans
<1>2. /\ Fits(todo[p], accepted, ~Bare, Good(p), n, Current, Effective)
      /\ Rises(accepted, ~Bare, Good(p), n, Current, Effective,
               accepted', ~Bare', Good(p)', Updating(p)', Current', Effective')
  BY DEF ListFits, Rise
<1> HIDE DEF n
<1> QED
  BY <1>1, <1>2, ThenFitsIf

\* What a step keeps of the lists that are not its own.
LEMMA OthersFit ==
    ASSUME SetupInv, TypeOK', NEW p \in Processes, \A q \in Processes \ {p} : Rise(q),
           \A q \in Processes \ {p} : todo'[q] = todo[q], ListFits(p)'
    PROVE  \A q \in Processes : ListFits(q)'
<1>1. TypeOK /\ \A q \in Processes : ListFits(q)
  BY DEF SetupInv
<1>2. ASSUME NEW q \in Processes \ {p} PROVE ListFits(q)'
  BY <1>1, KeptFits
<1> QED
  BY <1>2

LEMMA PlainFits ==
    ASSUME TypeOK', NEW p \in Processes, Plain(todo'[p], FALSE)
    PROVE  ListFits(p)'
<1> DEFINE l == todo'[p]
<1>1. Plain(l, FALSE)
  OBVIOUS
<1>2. /\ Guarded(l) /\ Orderly(l) /\ Closing(l, Current', Effective')
      /\ Prepared(l, Good(p)')
  BY <1>1 DEF Plain, Without, Special, Guarded, Orderly, Closing, Prepared
<1> HIDE DEF l
<1>3. Fits(l, accepted', ~Bare', Good(p)', Updating(p)', Current', Effective')
  BY <1>2 DEF Fits
<1> QED
  BY <1>3 DEF ListFits, l

LEMMA PlainSuitsNow ==
    ASSUME NEW p \in Processes, NEW l, Plain(l, FALSE),
           todo[p][1] \notin Preparers \union {"verify", "restart", "promote", "swap"},
           todo[p][1] \in Openers \/ Without(l, Openers)
    PROVE  SuitsNow(l, p)
<1>1. /\ Guarded(l) /\ Orderly(l) /\ Closing(l, Current', Effective')
      /\ Prepared(l, Good(p)') /\ l \in Seq(Steps)
  BY DEF Plain, Without, Special, Guarded, Orderly, Closing, Prepared
<1> QED
  BY <1>1 DEF SuitsNow, Suits

LEMMA AbsentThen ==
    ASSUME TypeOK, NEW p \in Processes, todo[p] # <<>>, NEW l \in Seq(Steps), NEW S,
           Without(l, S), Absent(S), Then(p, l)
    PROVE  Absent(S)'
<1> DEFINE t == todo[p]
           u == l \o Tail(t)
<1>1. t \in Seq(Steps) /\ todo'[p] = PastOr(u) /\ Without(t, S)
  BY DEF Then, TypeOK, Absent, Without
<1>2. Tail(t) \in Seq(Steps) /\ Without(Tail(t), S)
  <2>1. /\ Tail(t) \in Seq(Steps) /\ Len(Tail(t)) = Len(t) - 1 /\ Len(t) \in Nat
        /\ \A i \in 1 .. Len(Tail(t)) : Tail(t)[i] = t[i + 1]
    BY <1>1, HeadTailProperties, LenProperties
  <2>2. DOMAIN Tail(t) = 1 .. Len(Tail(t)) /\ DOMAIN t = 1 .. Len(t)
    BY <1>1, <2>1, LenProperties
  <2> QED
    BY <1>1, <2>1, <2>2 DEF Without
<1>3. u \in Seq(Steps) /\ Without(u, S)
  BY <1>2, ConcatWithout, ConcatProperties
<1> HIDE DEF u
<1>4. Without(todo'[p], S)
  <2>0. DOMAIN u = 1 .. Len(u) /\ Len(u) \in Nat
    BY <1>3, LenProperties
  <2>1. Drops(u, todo'[p])
    BY <1>1, <1>3, PastOrDrops
  <2>2. DOMAIN todo'[p] = 1 .. Len(todo'[p])
    BY <2>1, LenProperties DEF Drops
  <2>3. PICK m \in 0 .. Len(u) : /\ Len(todo'[p]) = Len(u) - m
                                 /\ \A i \in 1 .. Len(todo'[p]) : todo'[p][i] = u[i + m]
    BY <2>1, Zenon DEF Drops
  <2>4. \A i \in 1 .. Len(todo'[p]) : i + m \in DOMAIN u
    <3> DEFINE k == Len(todo'[p])
               h == Len(u)
    <3>1. k = h - m /\ h \in Nat /\ m \in 0 .. h /\ DOMAIN u = 1 .. h
      BY <2>0, <2>3, Zenon
    <3> HIDE DEF k, h
    <3>2. \A i \in 1 .. k : i + m \in 1 .. h
      BY <3>1, ShiftInRange, Zenon
    <3> QED
      BY <3>1, <3>2 DEF k
  <2> QED
    BY <1>3, <2>2, <2>3, <2>4 DEF Without
<1>5. \A q \in Processes \ {p} : todo'[q] = todo[q]
  BY DEF Then, TypeOK
<1> QED
  BY <1>4, <1>5 DEF Absent, Without

LEMMA AbsentFails ==
    ASSUME TypeOK, NEW p \in Processes, NEW S, Absent(S), Fails(p)
    PROVE  Absent(S)'
<1> DEFINE u == todo[p]
<1>1. /\ u \in Seq(Steps) /\ todo'[p] = PastOr(UpToOr(u)) /\ Without(u, S)
      /\ DOMAIN u = 1 .. Len(u) /\ Len(u) \in Nat
  BY LenProperties DEF Fails, TypeOK, Absent, Without
<1>2. Drops(u, todo'[p])
  BY <1>1, FailureDrops
<1>3. DOMAIN todo'[p] = 1 .. Len(todo'[p])
  BY <1>2, LenProperties DEF Drops
<1>4. PICK m \in 0 .. Len(u) : /\ Len(todo'[p]) = Len(u) - m
                               /\ \A i \in 1 .. Len(todo'[p]) : todo'[p][i] = u[i + m]
  BY <1>2 DEF Drops
<1>5. \A i \in 1 .. Len(todo'[p]) : i + m \in DOMAIN u
  BY <1>1, <1>4
<1>6. \A i \in DOMAIN todo'[p] : todo'[p][i] \notin S
  BY <1>1, <1>3, <1>4, <1>5 DEF Without
<1>7. \A q \in Processes \ {p} : todo'[q] = todo[q]
  BY DEF Fails, TypeOK
<1> QED
  BY <1>6, <1>7 DEF Absent

-----------------------------------------------------------------------------
(* Steps that leave the binaries alone, and start no daemon.               *)

SameCode ==
    \A m \in Modes : daemon'[m] # Down => daemon[m] # Down /\ daemon'[m].code = daemon[m].code

QuietHost ==
    SameCode /\ UNCHANGED <<disk, tmp, release, ranNew>> /\ (unit => unit')
             /\ served' \subseteq served

\* Such a step takes nothing from any list.
LEMMA QuietRises ==
    ASSUME QuietHost, NEW q \in Processes, kc'[q] = kc[q], accepted => accepted'
    PROVE  Rise(q)
<1>1. Bare => Bare'
  BY DEF QuietHost, SameCode, Bare
<1>2. (Good(q) <=> Good(q)') /\ (Current <=> Current') /\ (Updating(q)' => Updating(q))
  BY DEF QuietHost, Good, Current, Updating
<1>3. Effective => Effective'
  BY DEF QuietHost, SameCode, Effective, Modes
<1> QED
  BY <1>1, <1>2, <1>3 DEF Rise, Rises

LEMMA QuietWorld ==
    ASSUME SetupInv, QuietHost, Supplied => Supplied'
    PROVE  /\ Bare' \/ (Supplied' /\ Rising')
           /\ RunNew(daemon') \subseteq ranNew'
           /\ served' # {} => unit'
<1>1. Bare => Bare'
  BY DEF QuietHost, SameCode, Bare
<1>2. Rising => Rising'
  <2>1. ranNew \subseteq Modes
    BY DEF SetupInv, TypeOK
  <2>2. NeverDowngraded => NeverDowngraded'
    BY <2>1 DEF QuietHost, SameCode, NeverDowngraded
  <2> QED
    BY <2>2 DEF QuietHost, Rising, Current
<1>3. RunNew(daemon') \subseteq RunNew(daemon)
  BY DEF QuietHost, SameCode, RunNew
<1>4. RunNew(daemon) \subseteq ranNew /\ ranNew' = ranNew
  BY DEF SetupInv, QuietHost
<1> QED
  BY <1>1, <1>2, <1>3, <1>4 DEF SetupInv, QuietHost

\* A list takes the place of the first step.
LEMMA QuietThen ==
    ASSUME SetupInv, TypeOK', NEW p \in Processes, todo[p] # <<>>,
           NEW l, SuitsNow(l, p), Then(p, l), Without(l, Fetching),
           Without(l, Copying) \/ kc[p] # "system",
           QuietHost, kc' = kc, accepted => accepted', accepted' \/ ~marker'
    PROVE  SetupInv'
<1>1. TypeOK /\ \A q \in Processes : ListFits(q)
  BY DEF SetupInv
<1>3. \A q \in Processes : Rise(q)
  BY QuietRises
<1>4. ListFits(p)'
  BY <1>1, <1>3, ThenFits
<1>5. \A q \in Processes \ {p} : todo'[q] = todo[q]
  BY <1>1 DEF Then, TypeOK
<1>6. \A q \in Processes : ListFits(q)'
  BY <1>3, <1>4, <1>5, OthersFit
<1>7. Supplied => Supplied'
  <2>1. l \in Seq(Steps)
    BY DEF SuitsNow, Suits
  <2>2. Absent(Fetching) => Absent(Fetching)'
    BY <1>1, <2>1, AbsentThen
  <2>3. CASE Without(l, Copying)
    <3>1. Without(l, Fetching \union Copying)
      BY <2>3 DEF Without
    <3>2. Absent(Fetching \union Copying) => Absent(Fetching \union Copying)'
      BY <1>1, <2>1, <3>1, AbsentThen
    <3> QED
      BY <2>2, <3>2 DEF Supplied, QuietHost
  <2>4. CASE kc[p] # "system"
    BY <2>2, <2>4 DEF Supplied, QuietHost
  <2> QED
    BY <2>3, <2>4
<1> QED
  BY <1>6, <1>7, QuietWorld DEF SetupInv

LEMMA QuietFails ==
    ASSUME SetupInv, TypeOK', NEW p \in Processes, Fails(p),
           QuietHost, kc' = kc, accepted => accepted', accepted' \/ ~marker'
    PROVE  SetupInv'
<1>1. TypeOK /\ \A q \in Processes : ListFits(q)
  BY DEF SetupInv
<1>2. \A q \in Processes : Rise(q)
  BY QuietRises
<1>3. ListFits(p)'
  BY <1>1, <1>2, FailedFits
<1>4. \A q \in Processes \ {p} : todo'[q] = todo[q]
  BY <1>1 DEF Fails, TypeOK
<1>5. \A q \in Processes : ListFits(q)'
  BY <1>2, <1>3, <1>4, OthersFit
<1>6. Supplied => Supplied'
  <2>1. Absent(Fetching) => Absent(Fetching)'
    BY <1>1, AbsentFails
  <2>2. Absent(Fetching \union Copying) => Absent(Fetching \union Copying)'
    BY <1>1, AbsentFails
  <2> QED
    BY <2>1, <2>2 DEF Supplied, QuietHost
<1> QED
  BY <1>5, <1>6, QuietWorld DEF SetupInv

\* A plain list does.
LEMMA PlainThen ==
    ASSUME SetupInv, TypeOK', NEW p \in Processes, todo[p] # <<>>,
           NEW l, Plain(l, FALSE), Then(p, l),
           todo[p][1] \notin Preparers \union {"verify", "restart", "promote", "swap"},
           todo[p][1] \in Openers \/ Without(l, Openers),
           QuietHost, kc' = kc, accepted => accepted', accepted' \/ ~marker'
    PROVE  SetupInv'
<1>1. SuitsNow(l, p)
  BY PlainSuitsNow
<1>2. Without(l, Fetching) /\ Without(l, Copying)
  BY DEF Plain, Without, Special
<1> QED
  BY <1>1, <1>2, QuietThen

LEMMA AtHead ==
    ASSUME TypeOK, NEW p \in Processes, NEW x, At(p, x)
    PROVE  todo[p] # <<>> /\ todo[p][1] = x
  BY DEF TypeOK, At

LEMMA Unchanged ==
    ASSUME UNCHANGED <<disk, tmp, unit, release, daemon, ranNew, served>>
    PROVE  QuietHost
  BY DEF QuietHost, SameCode

LEMMA SingleSteps ==
    /\ \A x \in {"unlink", "update", "init", "verify", "or", "register", "restart", "reach",
                 "again", "install"} :
          Plain(<<x>>, FALSE)
    /\ \A x \in {"unlink", "init", "verify", "or", "register", "restart", "reach",
                 "again", "install"} :
          Without(<<x>>, Openers)
<1>1. {"unlink", "update", "init", "verify", "or", "register", "restart", "reach", "again",
       "install"} \subseteq Steps \ (Special \union Uses)
  BY DEF Steps, Special, Fetching, Copying, Uses
<1>2. {"unlink", "init", "verify", "or", "register", "restart", "reach", "again",
       "install"} \subseteq Steps \ Openers
  BY DEF Steps, Openers
<1> QED
  BY <1>1, <1>2, PlainSteps

LEMMA PlainStepInv ==
    ASSUME SetupInv, TypeOK', NEW p \in Processes,
           \/ Avail(p) \/ Again(p) \/ Fresh(p) \/ Reach(p) \/ Unlink(p) \/ Authorize(p)
           \/ Probe(p) \/ Diagnose(p) \/ Record(p)
    PROVE  SetupInv'
<1> DEFINE Ends(x) == x \notin Preparers \union {"verify", "restart", "promote", "swap"}
<1>1. TypeOK /\ (accepted \/ ~marker)
  BY DEF SetupInv
<1>2. /\ Plain(<<>>, FALSE) /\ Without(<<>>, Openers)
      /\ Plain(<<"unlink">>, FALSE) /\ Without(<<"unlink">>, Openers)
      /\ Plain(<<"update">>, FALSE)
      /\ Plain(<<"unlink">> \o AutoSetup, FALSE) /\ Without(<<"unlink">> \o AutoSetup, Openers)
  BY PlainSteps, SingleSteps, PlainLists, ConcatPlain, ConcatWithout DEF Plain
<1>3. CASE Avail(p)
  <2>1. todo[p] # <<>> /\ todo[p][1] = "avail" /\ Ends("avail")
    BY <1>1, <1>3, AtHead DEF Avail, Preparers
  <2>2. QuietHost /\ UNCHANGED <<kc, accepted, marker>>
    BY <1>3, Unchanged DEF Avail, files, host, locals, history
  <2> QED
    BY <1>1, <1>2, <1>3, <2>1, <2>2, PlainLists, PlainThen DEF Avail, Done
<1>4. CASE Again(p)
  <2>1. todo[p] # <<>> /\ todo[p][1] \in {"again", "machine"} /\ Ends(todo[p][1])
    BY <1>1, <1>4, AtHead DEF Again, Preparers
  <2>2. QuietHost /\ UNCHANGED <<kc, accepted, marker>>
    BY <1>4, Unchanged DEF Again, files, host, locals, history
  <2> QED
    BY <1>1, <1>2, <1>4, <2>1, <2>2, PlainThen DEF Again, Done
<1>5. CASE Fresh(p)
  <2>1. todo[p] # <<>> /\ todo[p][1] = "fresh" /\ Ends("fresh") /\ "fresh" \in Openers
    BY <1>1, <1>5, AtHead DEF Fresh, Preparers, Openers
  <2>2. QuietHost /\ UNCHANGED <<kc, accepted, marker>>
    BY <1>5, Unchanged DEF Fresh, files, host, history
  <2>3. Then(p, <<"update">>) \/ Then(p, <<>>)
    BY <1>5 DEF Fresh, Done
  <2> QED
    BY <1>1, <1>2, <2>1, <2>2, <2>3, PlainThen
<1>6. CASE Reach(p)
  <2>1. todo[p] # <<>> /\ todo[p][1] = "reach" /\ Ends("reach")
    BY <1>1, <1>6, AtHead DEF Reach, Preparers
  <2>2. QuietHost /\ UNCHANGED <<kc, accepted, marker>>
    BY <1>6, Unchanged DEF Reach, files, host, locals, history
  <2> QED
    BY <1>1, <1>2, <1>6, <2>1, <2>2, PlainThen DEF Reach, Done
<1>7. CASE Unlink(p)
  <2>1. todo[p] # <<>> /\ todo[p][1] = "unlink" /\ Ends("unlink")
    BY <1>1, <1>7, AtHead DEF Unlink, Preparers
  <2>2. SameCode
    BY <1>1, <1>7 DEF Unlink, SameCode, TypeOK, Modes, Daemons
  <2>3. QuietHost /\ UNCHANGED <<kc, accepted, marker>>
    BY <1>7, <2>2 DEF Unlink, QuietHost, files, locals, history
  <2>4. Then(p, <<>>)
    BY <1>7 DEF Unlink, Done
  <2> QED
    BY <1>1, <1>2, <2>1, <2>3, <2>4, PlainThen
<1>8. CASE Authorize(p)
  <2>1. todo[p] # <<>> /\ todo[p][1] = "authorize" /\ Ends("authorize")
    BY <1>1, <1>8, AtHead DEF Authorize, Preparers
  <2>2. QuietHost /\ UNCHANGED <<kc, accepted, marker>>
    BY <1>8, Unchanged DEF Authorize, files, locals, history
  <2>3. Then(p, <<>>) \/ Fails(p)
    BY <1>8 DEF Authorize, Done
  <2> QED
    BY <1>1, <1>2, <2>1, <2>2, <2>3, PlainThen, QuietFails
<1>9. CASE Probe(p)
  <2>1. todo[p] # <<>> /\ todo[p][1] = "probe" /\ Ends("probe")
    BY <1>1, <1>9, AtHead DEF Probe, Preparers
  <2>2. QuietHost /\ UNCHANGED <<kc, accepted, marker>>
    BY <1>9, Unchanged DEF Probe, files, host, locals, history
  <2> QED
    BY <1>1, <1>2, <1>9, <2>1, <2>2, PlainThen, QuietFails DEF Probe, Done
<1>10. CASE Diagnose(p)
  <2>1. todo[p] # <<>> /\ todo[p][1] = "diagnose" /\ Ends("diagnose") /\ "diagnose" \in Openers
    BY <1>1, <1>10, AtHead DEF Diagnose, Preparers, Openers
  <2>2. QuietHost /\ UNCHANGED <<kc, accepted, marker>>
    BY <1>10, Unchanged DEF Diagnose, files, host, locals, history
  <2> DEFINE First_ == IF IsAvailable \/ Existing = {} THEN <<>> ELSE <<"unlink">>
  <2>3. PICK r \in Scanned : Then(p, First_ \o Repairs(r) \o <<"reach">>)
    BY <1>10 DEF Diagnose
  <2>4. Plain(Repairs(r), FALSE) /\ Plain(First_, FALSE) /\ Plain(<<"reach">>, FALSE)
    BY <1>2, RepairsArePlain, SingleSteps
  <2> HIDE DEF First_, Repairs
  <2>5. Plain(First_ \o Repairs(r) \o <<"reach">>, FALSE)
    <3>1. Plain(First_ \o Repairs(r), FALSE)
      BY <2>4, ConcatPlain
    <3> QED
      BY <2>4, <3>1, ConcatPlain
  <2> QED
    BY <1>1, <2>1, <2>2, <2>3, <2>5, PlainThen
<1>11. CASE Record(p)
  <2>1. todo[p] # <<>> /\ todo[p][1] = "record" /\ Ends("record") /\ At(p, "record")
    BY <1>1, <1>11, AtHead DEF Record, Preparers
  <2>2. QuietHost /\ UNCHANGED <<kc, accepted>> /\ Then(p, <<>>)
    BY <1>11, Unchanged DEF Record, files, locals, history, Done
  <2>3. accepted
    <3>1. 1 \in DOMAIN todo[p]
      BY <1>1, <2>1, LenProperties, EmptySeq DEF TypeOK
    <3>2. ~Guarded(todo[p])
      BY <2>1, <3>1 DEF Guarded
    <3> QED
      BY <3>2 DEF SetupInv, ListFits, Fits
  <2> QED
    BY <1>2, <2>1, <2>2, <2>3, PlainThen
<1> QED
  BY <1>3, <1>4, <1>5, <1>6, <1>7, <1>8, <1>9, <1>10, <1>11

\* Steps that ask the daemon, and recover from what it answers.
LEMMA AskStepInv ==
    ASSUME SetupInv, TypeOK', NEW p \in Processes, Connect(p) \/ Register(p)
    PROVE  SetupInv'
<1>1. TypeOK /\ (accepted \/ ~marker)
  BY DEF SetupInv
<1>2. CASE Connect(p)
  <2>1. todo[p] # <<>> /\ todo[p][1] = "init"
    BY <1>1, <1>2, AtHead DEF Connect
  <2>2. "init" \notin Preparers \union {"verify", "restart", "promote", "swap"}
    BY DEF Preparers
  <2>3. QuietHost /\ UNCHANGED <<kc, accepted, marker>>
    BY <1>2, Unchanged DEF Connect, files, host, history
  <2> DEFINE l == Recovery("daemon") \o <<"init">>
  <2>4. Plain(l, FALSE) /\ Without(l, Openers)
    BY SingleSteps, RecoveryIsPlain
  <2> HIDE DEF l
  <2>5. Then(p, <<>>) \/ Then(p, l) \/ Fails(p)
    BY <1>2 DEF Connect, Recover, Done, l
  <2> QED
    BY <1>1, <2>1, <2>2, <2>3, <2>4, <2>5, PlainSteps, PlainThen, QuietFails
<1>3. CASE Register(p)
  <2>1. todo[p] # <<>> /\ todo[p][1] = "register"
    BY <1>1, <1>3, AtHead DEF Register
  <2>2. "register" \notin Preparers \union {"verify", "restart", "promote", "swap"}
    BY DEF Preparers
  <2>3. QuietHost /\ UNCHANGED <<kc, accepted, marker>>
    BY <1>3, Unchanged DEF Register, files, host, history
  <2> DEFINE l == RegisterAndActivate \o <<"or", "register">>
  <2>4. Plain(l, FALSE) /\ Without(l, Openers)
    <3>1. <<"or", "register">> = <<"or">> \o <<"register">>
      OBVIOUS
    <3>2. Plain(<<"or", "register">>, FALSE) /\ Without(<<"or", "register">>, Openers)
      BY <3>1, SingleSteps, ConcatPlain, ConcatWithout DEF Plain
    <3> QED
      BY <3>2, PlainLists, ConcatPlain, ConcatWithout DEF Plain
  <2> HIDE DEF l
  <2>5. Then(p, l) \/ Then(p, <<>>) \/ Then(p, Authorization)
    BY <1>3 DEF Register, RepairAnd, Done, l
  <2> QED
    BY <1>1, <2>1, <2>2, <2>3, <2>4, <2>5, PlainSteps, PlainLists, PlainThen
<1> QED
  BY <1>2, <1>3

\* A list that ends in a verification may take its place.
LEMMA VerifyThen ==
    ASSUME SetupInv, TypeOK', NEW p \in Processes, At(p, "verify"),
           NEW l, Plain(l, FALSE), Without(l, Openers), Then(p, l),
           accepted' \/ (l # <<>> /\ l[Len(l)] = "verify"),
           QuietHost, UNCHANGED <<kc, marker>>, accepted => accepted'
    PROVE  SetupInv'
<1>1. TypeOK /\ (accepted \/ ~marker)
  BY DEF SetupInv
<1>2. todo[p] # <<>> /\ todo[p][1] = "verify"
  BY <1>1, AtHead
<1>3. /\ Guarded(l) /\ Orderly(l) /\ Closing(l, Current', Effective')
      /\ Prepared(l, Good(p)') /\ l \in Seq(Steps)
  BY DEF Plain, Without, Special, Guarded, Orderly, Closing, Prepared
<1>4. SuitsNow(l, p)
  BY <1>2, <1>3 DEF SuitsNow, Suits, Preparers
<1>5. Without(l, Fetching) /\ Without(l, Copying)
  BY DEF Plain, Without, Special
<1> QED
  BY <1>1, <1>2, <1>4, <1>5, QuietThen

\* The last step of a concatenation.
LEMMA EndsIn ==
    ASSUME NEW l \in Seq(Steps), NEW k \in Seq(Steps), k # <<>>
    PROVE  l \o k # <<>> /\ (l \o k)[Len(l \o k)] = k[Len(k)]
<1> DEFINE u == l \o k
<1>1. Len(l) \in Nat /\ Len(k) \in Nat \ {0}
  BY LenProperties, EmptySeq
<1>2. /\ u \in Seq(Steps) /\ Len(u) = Len(l) + Len(k)
      /\ \A i \in 1 .. Len(l) + Len(k) : u[i] = IF i <= Len(l) THEN l[i] ELSE k[i - Len(l)]
  BY ConcatProperties
<1> HIDE DEF u
<1>3. /\ Len(u) \in 1 .. Len(l) + Len(k) /\ ~(Len(u) <= Len(l)) /\ Len(u) - Len(l) = Len(k)
  BY <1>1, <1>2
<1>4. u[Len(u)] = k[Len(k)]
  BY <1>2, <1>3
<1>5. u # <<>>
  BY <1>1, <1>2, EmptySeq
<1> QED
  BY <1>4, <1>5 DEF u

LEMMA VerifyInv ==
    ASSUME SetupInv, TypeOK', NEW p \in Processes, Verify(p)
    PROVE  SetupInv'
<1>1. TypeOK /\ (accepted \/ ~marker) /\ At(p, "verify")
  BY DEF SetupInv, Verify
<1>2. QuietHost /\ UNCHANGED <<kc, marker>>
  BY Unchanged DEF Verify, files, host
<1> DEFINE r == RegisterAndActivate \o <<"or", "verify">>
           a == <<"init", "verify">>
<1>3. /\ Plain(a, FALSE) /\ Without(a, Openers) /\ a # <<>> /\ a[Len(a)] = "verify"
      /\ a \in Seq(Steps)
  <2>1. a = <<"init">> \o <<"verify">>
    OBVIOUS
  <2>2. Plain(a, FALSE) /\ Without(a, Openers)
    BY <2>1, SingleSteps, ConcatPlain, ConcatWithout DEF Plain
  <2> QED
    BY <2>2 DEF Plain
<1>4. Plain(r, FALSE) /\ Without(r, Openers) /\ r # <<>> /\ r[Len(r)] = "verify"
  <2> DEFINE b == <<"or", "verify">>
  <2>1. b = <<"or">> \o <<"verify">>
    OBVIOUS
  <2>2. Plain(b, FALSE) /\ Without(b, Openers)
    BY <2>1, SingleSteps, ConcatPlain, ConcatWithout DEF Plain
  <2>3. b \in Seq(Steps) /\ b # <<>> /\ b[Len(b)] = "verify"
    BY <2>2 DEF Plain
  <2>4. RegisterAndActivate \in Seq(Steps)
    BY InsertedLists
  <2> HIDE DEF b
  <2> QED
    BY <2>2, <2>3, <2>4, PlainLists, ConcatPlain, ConcatWithout, EndsIn DEF b
<1>5. ASSUME NEW kind \in {"daemon", "protocol", "register"}
      PROVE  /\ Plain(Recovery(kind) \o a, FALSE) /\ Without(Recovery(kind) \o a, Openers)
             /\ Recovery(kind) \o a # <<>>
             /\ (Recovery(kind) \o a)[Len(Recovery(kind) \o a)] = "verify"
  <2>1. Recovery(kind) \in Seq(Steps)
    <3>1. Recovery(kind) \o <<>> \in Seq(Steps)
      BY RecoveryTyped, InsertedLists
    <3>2. <<"restart">> \in Seq(Steps) /\ <<"unlink">> \o AutoSetup \in Seq(Steps)
      BY SingleSteps, PlainLists, ConcatPlain DEF Plain
    <3> QED
      BY <3>2, InsertedLists DEF Recovery
  <2> HIDE DEF a
  <2> QED
    BY <1>3, <2>1, RecoveryIsPlain, EndsIn
<1> HIDE DEF r, a
<1>6. CASE RepairAnd(p, "verify") /\ UNCHANGED <<tried, accepted>>
  <2>1. Then(p, r)
    BY <1>6 DEF RepairAnd, r
  <2> QED
    BY <1>1, <1>2, <1>4, <1>6, <2>1, VerifyThen
<1>7. CASE Granted /\ accepted' = TRUE /\ Done(p) /\ UNCHANGED <<tried, spent>>
  <2>1. Then(p, <<>>)
    BY <1>7 DEF Done
  <2> QED
    BY <1>1, <1>2, <1>7, <2>1, PlainSteps, VerifyThen
<1>8. ASSUME NEW kind \in {"daemon", "protocol", "register"},
             Recover(p, kind, a), UNCHANGED <<spent, accepted>>
      PROVE  SetupInv'
  <2>1. Then(p, Recovery(kind) \o a) \/ Fails(p)
    BY <1>8 DEF Recover
  <2> QED
    BY <1>1, <1>2, <1>5, <1>8, <2>1, VerifyThen, QuietFails
<1> QED
  BY <1>6, <1>7, <1>8 DEF Verify, a

-----------------------------------------------------------------------------
(* The steps whose lists are special.                                      *)

LEMMA BinaryInv ==
    ASSUME SetupInv, TypeOK', NEW p \in Processes, Binary(p)
    PROVE  SetupInv'
<1>1. TypeOK /\ (accepted \/ ~marker)
  BY DEF SetupInv
<1>2. todo[p] # <<>> /\ todo[p][1] = "binary"
  BY <1>1, AtHead DEF Binary
<1>3. "binary" \notin Preparers \union {"verify", "restart", "promote", "swap"}
  BY DEF Preparers
<1>4. QuietHost /\ UNCHANGED <<kc, accepted, marker>>
  BY Unchanged DEF Binary, files, host, history
<1> DEFINE l == <<"verify", "record">>
<1>5. CASE Then(p, l)
  <2>1. l \in Seq(Steps) /\ DOMAIN l = 1 .. 2 /\ l[1] = "verify" /\ l[2] = "record"
    BY DEF Steps
  <2> HIDE DEF l
  <2>2. \A i \in 1 .. 2 : i = 1 \/ i = 2
    OBVIOUS
  <2>3. /\ Without(l, Fetching) /\ Without(l, Copying) /\ Without(l, Openers)
        /\ Without(l, Uses) /\ Without(l, {"close"})
    BY <2>1, <2>2 DEF Without, Fetching, Copying, Openers, Uses
  <2>4. Guarded(l)
    BY <2>1, <2>2 DEF Guarded
  <2>5. Orderly(l) /\ Closing(l, Current', Effective') /\ Prepared(l, Good(p)')
    BY <2>3 DEF Without, Orderly, Closing, Prepared
  <2>6. SuitsNow(l, p)
    BY <1>2, <1>3, <2>1, <2>3, <2>4, <2>5 DEF SuitsNow, Suits
  <2> QED
    BY <1>1, <1>2, <1>4, <1>5, <2>3, <2>6, QuietThen
<1>6. CASE Then(p, <<>>)
  BY <1>1, <1>2, <1>3, <1>4, <1>6, PlainSteps, PlainThen
<1> QED
  BY <1>5, <1>6 DEF Binary, Done

\* A use at the head has its binary.
LEMMA HeadIsPrepared ==
    ASSUME TypeOK, NEW p \in Processes, todo[p] # <<>>, ListFits(p), todo[p][1] \in Uses, ~Bare
    PROVE  Good(p)
<1>1. Prepared(todo[p], Good(p)) /\ 1 \in DOMAIN todo[p]
  BY LenProperties, EmptySeq DEF ListFits, Fits, TypeOK
<1>2. ~PreparedAt(todo[p], 1)
  BY DEF PreparedAt
<1> QED
  BY <1>1, <1>2 DEF Prepared

LEMMA PromoteInv ==
    ASSUME SetupInv, TypeOK', NEW p \in Processes, Promote(p)
    PROVE  SetupInv'
<1>1. TypeOK /\ (accepted \/ ~marker) /\ ListFits(p)
  BY DEF SetupInv
<1>2. todo[p] # <<>> /\ todo[p][1] = "promote" /\ "promote" \in Uses
  BY <1>1, AtHead DEF Promote, Uses
<1>3. "promote" \notin Preparers \union {"verify", "restart"} \union Openers
  BY DEF Preparers, Openers
<1>4. QuietHost /\ UNCHANGED <<kc, accepted, marker, disk, unit, served, release>>
  BY Unchanged DEF Promote, files, host, locals, history
<1>5. ~Bare' => Good(p)'
  <2>1. Bare => Bare'
    BY <1>4 DEF QuietHost, SameCode, Bare
  <2>2. Good(p) => Good(p)'
    BY <1>4 DEF Good
  <2> QED
    BY <1>1, <1>2, <2>1, <2>2, HeadIsPrepared
<1>6. CASE unit /\ kc[p] # "system" /\ Then(p, PromoteBinaryTo)
  <2> DEFINE l == PromoteBinaryTo
  <2>1. /\ l \in Seq(Steps) /\ Len(l) = 3 /\ DOMAIN l = 1 .. 3
        /\ l[1] = "copy" /\ l[2] = "copied" /\ l[3] = "swap"
    BY DEF PromoteBinaryTo, Steps
  <2> HIDE DEF l
  <2>2. \A i \in 1 .. 3 : i = 1 \/ i = 2 \/ i = 3
    OBVIOUS
  <2>3. Without(l, Fetching) /\ Without(l, Openers) /\ Without(l, {"record", "close"})
    BY <2>1, <2>2 DEF Without, Fetching, Openers
  <2>4. Guarded(l) /\ Orderly(l) /\ Closing(l, Current', Effective')
    BY <2>3 DEF Without, Guarded, Orderly, Closing
  <2>5. ~Bare' => Prepared(l, Good(p)')
    BY <1>5 DEF Prepared
  <2>6. 3 \in 1 .. Len(l) /\ l[3] \in {"promote", "swap"} /\ Unbroken(l, 3, Len(l))
    BY <2>1 DEF Unbroken
  <2>7. SuitsNow(l, p)
    BY <1>2, <1>3, <2>1, <2>3, <2>4, <2>5, <2>6 DEF SuitsNow, Suits
  <2> QED
    BY <1>1, <1>2, <1>4, <1>6, <2>3, <2>7, QuietThen DEF l
<1>7. CASE ~(unit /\ kc[p] # "system") /\ Then(p, <<>>)
  <2>1. Updating(p)' => Current'
    <3>1. Updating(p)' => unit /\ ~Bare'
      BY <1>4 DEF Updating, SetupInv, Bare
    <3>2. kc[p] = "system" /\ Good(p)' => Current'
      BY <1>4 DEF Good, Current
    <3> QED
      BY <1>5, <1>7, <3>1, <3>2
  <2>2. SuitsNow(<<>>, p)
    <3>1. Plain(<<>>, FALSE) /\ Without(<<>>, Openers)
      BY PlainSteps
    <3> DEFINE l == <<>>
    <3> HIDE DEF l
    <3>2. Plain(l, FALSE) /\ Without(l, Openers)
      BY <3>1 DEF l
    <3>3. /\ Guarded(l) /\ Orderly(l) /\ Closing(l, Current', Effective')
          /\ Prepared(l, Good(p)') /\ l \in Seq(Steps)
      BY <3>2 DEF Plain, Without, Special, Guarded, Orderly, Closing, Prepared
    <3>4. SuitsNow(l, p)
      BY <1>2, <1>3, <2>1, <3>2, <3>3 DEF SuitsNow, Suits
    <3> QED
      BY <3>4 DEF l
  <2>3. Without(<<>>, Fetching) /\ Without(<<>>, Copying)
    BY DEF Without
  <2> QED
    BY <1>1, <1>2, <1>4, <1>7, <2>2, <2>3, QuietThen
<1> QED
  BY <1>6, <1>7 DEF Promote, Done

LEMMA EnsureDaemonRunningInv ==
    ASSUME SetupInv, TypeOK', NEW p \in Processes, EnsureDaemonRunning(p)
    PROVE  SetupInv'
<1>1. TypeOK /\ (accepted \/ ~marker) /\ ListFits(p)
  BY DEF SetupInv
<1>2. todo[p] # <<>> /\ todo[p][1] = "running" /\ "running" \in Uses
  BY <1>1, AtHead DEF EnsureDaemonRunning, Uses
<1>3. "running" \notin Preparers \union {"verify", "restart", "promote", "swap"} \union Openers
  BY DEF Preparers, Openers
<1>4. QuietHost /\ UNCHANGED <<kc, accepted, marker, disk>>
  BY Unchanged DEF EnsureDaemonRunning, files, host, locals, history
<1>5. CASE Then(p, <<"unlink", "start">>)
  <2> DEFINE l == <<"unlink", "start">>
  <2>1. /\ l \in Seq(Steps) /\ DOMAIN l = 1 .. 2 /\ l[1] = "unlink" /\ l[2] = "start"
    BY DEF Steps
  <2> HIDE DEF l
  <2>2. \A i \in 1 .. 2 : i = 1 \/ i = 2
    OBVIOUS
  <2>3. /\ Without(l, Fetching) /\ Without(l, Copying) /\ Without(l, Openers)
        /\ Without(l, {"record", "close"})
    BY <2>1, <2>2 DEF Without, Fetching, Copying, Openers
  <2>4. Guarded(l) /\ Orderly(l) /\ Closing(l, Current', Effective')
    BY <2>3 DEF Without, Guarded, Orderly, Closing
  <2>5. ~Bare' => Prepared(l, Good(p)')
    <3>1. Bare => Bare'
      BY <1>4 DEF QuietHost, SameCode, Bare
    <3>2. Good(p) => Good(p)'
      BY <1>4 DEF Good
    <3> QED
      BY <1>1, <1>2, <3>1, <3>2, HeadIsPrepared DEF Prepared
  <2>6. SuitsNow(l, p)
    BY <1>2, <1>3, <2>1, <2>3, <2>4, <2>5 DEF SuitsNow, Suits
  <2> QED
    BY <1>1, <1>2, <1>4, <1>5, <2>3, <2>6, QuietThen DEF l
<1>6. CASE Then(p, <<>>)
  BY <1>1, <1>2, <1>3, <1>4, <1>6, PlainSteps, PlainThen
<1> QED
  BY <1>5, <1>6 DEF EnsureDaemonRunning, Done

LEMMA CloseInv ==
    ASSUME SetupInv, TypeOK', NEW p \in Processes, Close(p)
    PROVE  SetupInv'
<1>1. TypeOK /\ (accepted \/ ~marker)
  BY DEF SetupInv
<1>2. todo[p] # <<>> /\ todo[p][1] = "close"
  BY <1>1, AtHead DEF Close
<1>3. "close" \notin Preparers \union {"verify", "restart", "promote", "swap"}
  BY DEF Preparers
<1>4. QuietHost /\ UNCHANGED <<kc, accepted, marker>>
  BY DEF Close, QuietHost, SameCode, files, host, locals
<1>5. Then(p, <<>>)
  BY DEF Close, Done
<1> QED
  BY <1>1, <1>2, <1>3, <1>4, <1>5, PlainSteps, PlainThen

-----------------------------------------------------------------------------
(* Steps that begin and end a run, and faults.                             *)

LEMMA ResetInv ==
    ASSUME SetupInv, TypeOK', NEW p \in Processes, Reset(p), QuietHost,
           UNCHANGED <<accepted, marker>>
    PROVE  SetupInv'
<1>1. TypeOK /\ (accepted \/ ~marker)
  BY DEF SetupInv
<1>2. /\ todo' = [todo EXCEPT ![p] = <<>>] /\ kc' = [kc EXCEPT ![p] = "system"]
      /\ todo'[p] = <<>>
  BY <1>1 DEF Reset, TypeOK
<1>3. \A q \in Processes \ {p} : kc'[q] = kc[q] /\ todo'[q] = todo[q]
  BY <1>1, <1>2 DEF TypeOK
<1>4. \A q \in Processes \ {p} : Rise(q)
  BY <1>3, QuietRises
<1>5. ListFits(p)'
  BY <1>2, PlainSteps, PlainFits
<1>6. \A q \in Processes : ListFits(q)'
  BY <1>3, <1>4, <1>5, OthersFit
<1>7. Supplied => Supplied'
  <2>1. ASSUME NEW S, Absent(S) PROVE Absent(S)'
    <3>1. ASSUME NEW q \in Processes, NEW i \in DOMAIN todo'[q] PROVE todo'[q][i] \notin S
      <4>1. CASE q = p
        BY <1>2, <3>1, <4>1
      <4>2. CASE q # p
        BY <1>3, <2>1, <3>1, <4>2 DEF Absent
      <4> QED
        BY <4>1, <4>2
    <3> QED
      BY <3>1 DEF Absent
  <2>2. Absent(Fetching) => Absent(Fetching)'
    BY <2>1
  <2>3. Absent(Fetching \union Copying) => Absent(Fetching \union Copying)'
    BY <2>1
  <2>4. (\A q \in Processes : kc[q] = "system") => \A q \in Processes : kc'[q] = "system"
    BY <1>1, <1>2 DEF TypeOK
  <2> QED
    BY <2>2, <2>3, <2>4 DEF Supplied, QuietHost
<1> QED
  BY <1>1, <1>6, <1>7, QuietWorld DEF SetupInv

LEMMA ExitInv ==
    ASSUME SetupInv, TypeOK', NEW p \in Processes, Exit(p)
    PROVE  SetupInv'
<1>1. QuietHost /\ UNCHANGED <<accepted, marker>> /\ Reset(p)
  BY DEF Exit, Reset, QuietHost, SameCode, files, host
<1> QED
  BY <1>1, ResetInv

LEMMA KillInv ==
    ASSUME SetupInv, TypeOK', NEW p \in Processes, Kill(p)
    PROVE  SetupInv'
<1>1. QuietHost /\ UNCHANGED <<accepted, marker>> /\ Reset(p)
  BY DEF Kill, Reset, QuietHost, SameCode, files, host
<1> QED
  BY <1>1, ResetInv

LEMMA ProgramIsPlain ==
    ASSUME NEW kind \in Kinds
    PROVE  Plain(Program(kind) \o <<"or", "exit">>, FALSE)
<1>1. \A x \in {"avail", "fresh", "init", "binary", "machine", "diagnose", "or", "exit"} :
         Plain(<<x>>, FALSE)
  <2>1. {"avail", "fresh", "init", "binary", "machine", "diagnose", "or", "exit"}
          \subseteq Steps \ (Special \union Uses)
    BY DEF Steps, Special, Fetching, Copying, Uses
  <2> QED
    BY <2>1, PlainSteps
<1>2. /\ <<"or", "exit">> = <<"or">> \o <<"exit">>
      /\ <<"avail", "fresh", "init", "binary">>
            = ((<<"avail">> \o <<"fresh">>) \o <<"init">>) \o <<"binary">>
  OBVIOUS
<1>3. Plain(<<"or", "exit">>, FALSE)
  BY <1>1, <1>2, ConcatPlain
<1>4. Plain(<<"avail", "fresh", "init", "binary">>, FALSE)
  <2> DEFINE a == <<"avail">>
             b == <<"fresh">>
             c == <<"init">>
             d == <<"binary">>
  <2>1. Plain(a, FALSE) /\ Plain(b, FALSE) /\ Plain(c, FALSE) /\ Plain(d, FALSE)
    BY <1>1
  <2> HIDE DEF a, b, c, d
  <2>2. Plain(a \o b, FALSE)
    BY <2>1, ConcatPlain
  <2>3. Plain((a \o b) \o c, FALSE)
    BY <2>1, <2>2, ConcatPlain
  <2>4. Plain(((a \o b) \o c) \o d, FALSE)
    BY <2>1, <2>3, ConcatPlain
  <2> QED
    BY <1>2, <2>4 DEF a, b, c, d
<1>5. kind \in {"command", "machine", "doctor"}
  BY SetupAssumption
<1>6. Plain(Program(kind), FALSE)
  BY <1>1, <1>4, <1>5 DEF Program
<1> HIDE DEF Program
<1> QED
  BY <1>3, <1>6, ConcatPlain

LEMMA BeginInv ==
    ASSUME SetupInv, TypeOK', NEW p \in Processes, NEW kind \in Kinds, Begin(p, kind)
    PROVE  SetupInv'
<1>1. TypeOK /\ (accepted \/ ~marker)
  BY DEF SetupInv
<1> DEFINE l == Program(kind) \o <<"or", "exit">>
<1>2. Plain(l, FALSE) /\ todo' = [todo EXCEPT ![p] = l]
  BY ProgramIsPlain DEF Begin
<1> HIDE DEF l
<1>3. todo'[p] = l /\ \A q \in Processes \ {p} : todo'[q] = todo[q]
  BY <1>1, <1>2 DEF TypeOK
<1>4. QuietHost /\ UNCHANGED <<kc, accepted, marker>>
  BY Unchanged DEF Begin, files, host, history
<1>5. \A q \in Processes \ {p} : Rise(q)
  BY <1>4, QuietRises
<1>6. ListFits(p)'
  BY <1>2, <1>3, PlainFits
<1>7. \A q \in Processes : ListFits(q)'
  BY <1>3, <1>5, <1>6, OthersFit
<1>8. Supplied => Supplied'
  <2>1. ASSUME NEW S, S \subseteq Special, Absent(S) PROVE Absent(S)'
    <3>1. ASSUME NEW q \in Processes, NEW i \in DOMAIN todo'[q] PROVE todo'[q][i] \notin S
      <4>1. CASE q = p
        BY <1>2, <1>3, <2>1, <3>1, <4>1 DEF Plain, Without
      <4>2. CASE q # p
        BY <1>3, <2>1, <3>1, <4>2 DEF Absent
      <4> QED
        BY <4>1, <4>2
    <3> QED
      BY <3>1 DEF Absent
  <2>2. Fetching \subseteq Special /\ Fetching \union Copying \subseteq Special
    BY DEF Special
  <2>3. Absent(Fetching) => Absent(Fetching)'
    BY <2>1, <2>2
  <2>4. Absent(Fetching \union Copying) => Absent(Fetching \union Copying)'
    BY <2>1, <2>2
  <2> QED
    BY <1>4, <2>3, <2>4 DEF Supplied, QuietHost
<1> QED
  BY <1>1, <1>4, <1>7, <1>8, QuietWorld DEF SetupInv

LEMMA DaemonDiesInv ==
    ASSUME SetupInv, TypeOK', NEW m \in Modes, DaemonDies(m)
    PROVE  SetupInv'
<1>1. TypeOK /\ (accepted \/ ~marker) /\ \A q \in Processes : ListFits(q)
  BY DEF SetupInv
<1>2. SameCode
  BY <1>1 DEF DaemonDies, SameCode, TypeOK
<1>3. QuietHost /\ UNCHANGED <<todo, kc, accepted, marker>>
  BY <1>2 DEF DaemonDies, QuietHost, files, locals, history
<1>4. \A q \in Processes : Rise(q) /\ todo'[q] = todo[q]
  BY <1>3, QuietRises
<1>5. \A q \in Processes : ListFits(q)'
  BY <1>1, <1>4, KeptFits
<1>6. Supplied => Supplied'
  BY <1>3 DEF Supplied, QuietHost, Absent
<1> QED
  BY <1>1, <1>3, <1>5, <1>6, QuietWorld DEF SetupInv

LEMMA UpgradeInv ==
    ASSUME SetupInv, TypeOK', Upgrade
    PROVE  SetupInv'
<1>1. TypeOK
  BY DEF SetupInv
<1>2. SameCode
  BY <1>1 DEF Upgrade, SameCode, TypeOK, Daemons
<1>3. QuietHost /\ UNCHANGED <<todo, kc>> /\ marker' = FALSE
  BY <1>2 DEF Upgrade, QuietHost, files, locals
<1>4. \A q \in Processes : todo'[q] = <<>>
  BY <1>3 DEF Upgrade
<1>5. \A q \in Processes : ListFits(q)'
  BY <1>4, PlainSteps, PlainFits
<1>6. Supplied => Supplied'
  BY <1>3 DEF Supplied, QuietHost, Absent
<1> QED
  BY <1>3, <1>5, <1>6, QuietWorld DEF SetupInv

-----------------------------------------------------------------------------
(* Steps that change the host.                                             *)

LEMMA HeadIsPresent ==
    ASSUME TypeOK, NEW p \in Processes, todo[p] # <<>>, NEW S, todo[p][1] \in S
    PROVE  ~Absent(S)
<1>1. 1 \in DOMAIN todo[p]
  BY LenProperties, EmptySeq DEF TypeOK
<1> QED
  BY <1>1 DEF Absent

\* Binaries are replaced by newer ones only.
LEMMA GrowingRises ==
    ASSUME TypeOK, NEW q \in Processes, UNCHANGED <<accepted, release>>,
           q \in served' => q \in served,
           Bare => Bare',
           ~Bare' => kc'[q] = kc[q] \/ Good(q)',
           ~Bare' => \A x \in PlaceNames : disk[x] # "old" => disk'[x] # "old",
           release = "new" /\ Current /\ Effective => Effective'
    PROVE  Rise(q)
<1>1. kc[q] \in PlaceNames /\ "system" \in PlaceNames
  BY DEF TypeOK, PlaceNames
<1>2. ~Bare' => (Good(q) => Good(q)')
  BY <1>1 DEF Good
<1>3. Updating(q)' => Updating(q) /\ release = "new" /\ ~Bare'
  BY DEF Updating, Bare
<1>4. ~Bare' => (Current => Current')
  BY <1>1 DEF Current
<1>5. Updating(q)' => (Current => Current') /\ (Current /\ Effective => Effective')
  BY <1>3, <1>4
<1> QED
  BY <1>2, <1>3, <1>5 DEF Rise, Rises

\* A list that promises nothing but what it uses.
LEMMA SuitsIf ==
    ASSUME NEW p \in Processes, NEW l \in Seq(Steps),
           Without(l, Openers), Without(l, {"record", "close"}), todo[p][1] # "verify",
           ~Bare' => Prepared(l, Good(p)'),
           ~Bare' => \/ Good(p)' \/ todo[p][1] \notin Preparers
                     \/ \E j \in 1 .. Len(l) : l[j] \in Preparers /\ Unbroken(l, j, Len(l)),
           Updating(p)' => (todo[p][1] = "restart" /\ Current' => Effective'),
           Updating(p)' => (todo[p][1] \in {"promote", "swap"} => Current')
    PROVE  SuitsNow(l, p)
<1>1. Guarded(l) /\ Orderly(l) /\ Closing(l, Current', Effective')
  BY DEF Without, Guarded, Orderly, Closing
<1> QED
  BY <1>1 DEF SuitsNow, Suits

LEMMA EmptySuits ==
    ASSUME NEW p \in Processes, todo[p][1] # "verify",
           ~Bare' => Good(p)' \/ todo[p][1] \notin Preparers,
           Updating(p)' => (todo[p][1] = "restart" /\ Current' => Effective'),
           Updating(p)' => (todo[p][1] \in {"promote", "swap"} => Current')
    PROVE  SuitsNow(<<>>, p)
<1> DEFINE l == <<>>
<1>1. l \in Seq(Steps) /\ DOMAIN l = {}
  BY InsertedLists
<1> HIDE DEF l
<1>2. Without(l, Openers) /\ Without(l, {"record", "close"}) /\ Prepared(l, Good(p)')
  BY <1>1 DEF Without, Prepared
<1>3. SuitsNow(l, p)
  BY <1>1, <1>2, SuitsIf
<1> QED
  BY <1>3 DEF l

\* Only the list of p changes, and what is its own.
LEMMA OwnStep ==
    ASSUME SetupInv, TypeOK', NEW p \in Processes,
           \/ Fails(p)
           \/ \E l : Then(p, l),
           \A q \in Processes \ {p} : Rise(q),
           ListFits(p)', accepted' \/ ~marker',
           Bare' \/ (Supplied' /\ Rising'), RunNew(daemon') \subseteq ranNew',
           served' # {} => unit'
    PROVE  SetupInv'
<1>1. TypeOK
  BY DEF SetupInv
<1>2. \A q \in Processes \ {p} : todo'[q] = todo[q]
  BY <1>1 DEF Then, Fails, TypeOK
<1>3. \A q \in Processes : ListFits(q)'
  BY <1>2, OthersFit
<1> QED
  BY <1>3 DEF SetupInv

\* A step that takes another binary for its process.
LEMMA ChoiceInv ==
    ASSUME SetupInv, TypeOK', NEW p \in Processes, todo[p] # <<>>, QuietHost,
           UNCHANGED <<accepted, marker>>, \A q \in Processes \ {p} : kc'[q] = kc[q],
           kc'[p] = kc[p] \/ Good(p)', NEW l, SuitsNow(l, p), Then(p, l), Supplied => Supplied'
    PROVE  SetupInv'
<1>1. TypeOK /\ (accepted \/ ~marker) /\ ListFits(p)
  BY DEF SetupInv
<1>2. \A q \in Processes \ {p} : Rise(q)
  BY QuietRises
<1>3. Rise(p)
  <2>1. CASE kc'[p] = kc[p]
    BY <2>1, QuietRises
  <2>2. CASE Good(p)'
    <3>1. Bare => Bare'
      BY DEF Bare, QuietHost, SameCode
    <3>2. release = "new" /\ Current /\ Effective => Effective'
      BY DEF QuietHost, SameCode, Effective, Modes
    <3>3. \A x \in PlaceNames : disk[x] # "old" => disk'[x] # "old"
      BY DEF QuietHost
    <3>4. UNCHANGED <<accepted, release>> /\ (p \in served' => p \in served)
      BY DEF QuietHost
    <3> QED
      BY <1>1, <2>2, <3>1, <3>2, <3>3, <3>4, GrowingRises
  <2> QED
    BY <2>1, <2>2
<1>4. ListFits(p)'
  BY <1>1, <1>3, ThenFits
<1> QED
  BY <1>1, <1>2, <1>4, QuietWorld, OwnStep

LEMMA AbsentDone ==
    ASSUME TypeOK, NEW p \in Processes, todo[p] # <<>>, NEW S, Absent(S), Then(p, <<>>)
    PROVE  Absent(S)'
<1>1. Without(<<>>, S)
  BY DEF Without
<1> QED
  BY <1>1, InsertedLists, AbsentThen

LEMMA SettleInv ==
    ASSUME SetupInv, TypeOK', NEW p \in Processes, Settle(p)
    PROVE  SetupInv'
<1>1. TypeOK
  BY DEF SetupInv
<1>2. todo[p] # <<>> /\ todo[p][1] = "settle"
  BY <1>1, AtHead DEF Settle
<1>3. QuietHost /\ UNCHANGED <<disk, accepted, marker>> /\ Then(p, <<>>)
  BY Unchanged DEF Settle, files, host, history, Done
<1>4. \A q \in Processes \ {p} : kc'[q] = kc[q]
  BY <1>1 DEF Settle, TypeOK
<1>5. kc'[p] = kc[p] \/ (kc'[p] = "system" /\ disk["system"] = "new")
  BY <1>1 DEF Settle, TypeOK
<1>6. kc'[p] = kc[p] \/ Good(p)'
  BY <1>3, <1>5 DEF Good
<1>7. "settle" \notin Preparers /\ "settle" \notin {"promote", "swap"}
  BY DEF Preparers
<1>8. SuitsNow(<<>>, p)
  BY <1>2, <1>7, EmptySuits
<1>9. Supplied => Supplied'
  <2>2. Absent(Fetching) => Absent(Fetching)'
    BY <1>1, <1>2, <1>3, AbsentDone
  <2>3. Absent(Fetching \union Copying) => Absent(Fetching \union Copying)'
    BY <1>1, <1>2, <1>3, AbsentDone
  <2>4. (\A q \in Processes : kc[q] = "system") => \A q \in Processes : kc'[q] = "system"
    BY <1>4, <1>5
  <2> QED
    BY <1>3, <2>2, <2>3, <2>4 DEF Supplied, QuietHost
<1> QED
  BY <1>2, <1>3, <1>4, <1>6, <1>8, <1>9, ChoiceInv

LEMMA InstallInv ==
    ASSUME SetupInv, TypeOK', NEW p \in Processes, Install(p)
    PROVE  SetupInv'
<1>1. TypeOK
  BY DEF SetupInv
<1>2. todo[p] # <<>> /\ todo[p][1] = "install" /\ "install" \notin Openers
  BY <1>1, AtHead DEF Install, Openers
<1>3. QuietHost /\ UNCHANGED <<disk, accepted, marker, release>>
  BY Unchanged DEF Install, files, host, history
<1>4. \A q \in Processes \ {p} : kc'[q] = kc[q]
  BY <1>1 DEF Install, TypeOK
<1>5. /\ DOMAIN Places = 1 .. 2 /\ Places[1] = "system" /\ Places[2] = "home"
      /\ PlaceNames = {"system", "home"} /\ Sufficient \subseteq DOMAIN Places
  BY DEF Places, PlaceNames, Sufficient
<1>6. CASE Sufficient # {}
  <2>1. kc'[p] = First(Sufficient) /\ Then(p, <<>>)
    BY <1>1, <1>6 DEF Install, TypeOK, Done
  <2>2. Min(Sufficient) \in Sufficient /\ \A i \in Sufficient : Min(Sufficient) <= i
    BY <1>5, <1>6, FirstIsAPlace
  <2>3. Good(p)'
    BY <1>3, <2>1, <2>2 DEF Good, First, Sufficient
  <2>4. SuitsNow(<<>>, p)
    BY <1>2, <2>3, EmptySuits
  <2>5. Supplied => Supplied'
    <3>2. Absent(Fetching) => Absent(Fetching)'
      BY <1>1, <1>2, <2>1, AbsentDone
    <3>3. Absent(Fetching \union Copying) => Absent(Fetching \union Copying)'
      BY <1>1, <1>2, <2>1, AbsentDone
    <3>4. disk["system"] = "new" => kc'[p] = "system"
      <4>1. ASSUME disk["system"] = "new" PROVE Min(Sufficient) = 1
        BY <1>5, <2>2, <4>1 DEF Sufficient
      <4> QED
        BY <1>5, <2>1, <4>1 DEF First
    <3> QED
      BY <1>3, <1>4, <3>2, <3>3, <3>4 DEF Supplied, QuietHost
  <2> QED
    BY <1>2, <1>3, <1>4, <2>1, <2>3, <2>4, <2>5, ChoiceInv
<1>7. CASE Sufficient = {}
  <2> DEFINE l == <<"download">>
  <2>1. Then(p, l) /\ kc' = kc
    BY <1>7 DEF Install
  <2>2. l \in Seq(Steps) /\ DOMAIN l = {1} /\ Len(l) = 1 /\ l[1] = "download"
    BY DEF Steps
  <2> HIDE DEF l
  <2>3. Without(l, Openers) /\ Without(l, {"record", "close"}) /\ Without(l, Uses)
    BY <2>2 DEF Without, Openers, Uses
  <2>4. Prepared(l, Good(p)')
    BY <2>3 DEF Without, Prepared
  <2>5. 1 \in 1 .. Len(l) /\ l[1] \in Preparers /\ Unbroken(l, 1, Len(l))
    BY <2>2 DEF Preparers, Unbroken
  <2>6. SuitsNow(l, p)
    BY <1>2, <2>2, <2>3, <2>4, <2>5, SuitsIf
  <2>7. Supplied => Supplied'
    <3>1. disk["home"] # "new" /\ disk["system"] # "new"
      BY <1>5, <1>7 DEF Sufficient
    <3> QED
      BY <1>3, <3>1 DEF Supplied
  <2> QED
    BY <1>2, <1>3, <2>1, <2>6, <2>7, ChoiceInv
<1> QED
  BY <1>6, <1>7

\* What EnsureInstalled downloads is the newest release.
LEMMA FetchesNew ==
    ASSUME SetupInv, NEW p \in Processes, todo[p] # <<>>, todo[p][1] \in Fetching
    PROVE  Bare \/ (release = "new" /\ Rising)
<1>1. ~Absent(Fetching) /\ ~Absent(Fetching \union Copying)
  BY HeadIsPresent DEF SetupInv
<1> QED
  BY <1>1 DEF SetupInv, Supplied

LEMMA DownloadInv ==
    ASSUME SetupInv, TypeOK', NEW p \in Processes, Download(p)
    PROVE  SetupInv'
<1>1. TypeOK /\ (accepted \/ ~marker) /\ ListFits(p)
  BY DEF SetupInv
<1>2. /\ todo[p] # <<>> /\ todo[p][1] = "download" /\ "download" \in Fetching
      /\ "download" \in Preparers
  BY <1>1, AtHead DEF Download, Fetching, Preparers
<1>3. UNCHANGED <<tmp, unit, release, daemon, kc, accepted, marker, ranNew, served>>
  BY DEF Download, host, locals, history
<1>4. CASE Fails(p) /\ UNCHANGED disk
  BY <1>1, <1>3, <1>4, Unchanged, QuietFails
<1>5. CASE disk' = [disk EXCEPT !["home"] = "broken"] /\ Then(p, <<"unpack">>)
  <2>1. /\ disk'["home"] = "broken" /\ disk'["system"] = disk["system"]
        /\ \A x \in PlaceNames : disk'[x] = disk[x] \/ disk'[x] = "broken"
    BY <1>1, <1>5 DEF TypeOK, PlaceNames
  <2>2. Bare => Bare'
    BY <1>3, <2>1 DEF Bare
  <2>3. \A q \in Processes : Rise(q)
    BY <1>1, <1>3, <2>1, <2>2, GrowingRises DEF Effective
  <2> DEFINE l == <<"unpack">>
  <2>4. l \in Seq(Steps) /\ DOMAIN l = {1} /\ Len(l) = 1 /\ l[1] = "unpack"
    BY DEF Steps
  <2>5. Then(p, l)
    BY <1>5
  <2> HIDE DEF l
  <2>6. Without(l, Openers) /\ Without(l, {"record", "close"}) /\ Without(l, Uses)
    BY <2>4 DEF Without, Openers, Uses
  <2>7. Prepared(l, Good(p)')
    BY <2>6 DEF Without, Prepared
  <2>8. 1 \in 1 .. Len(l) /\ l[1] \in Preparers /\ Unbroken(l, 1, Len(l))
    BY <2>4 DEF Preparers, Unbroken
  <2>9. SuitsNow(l, p)
    BY <1>2, <2>4, <2>6, <2>7, <2>8, SuitsIf
  <2>10. ListFits(p)'
    BY <1>1, <1>2, <2>3, <2>5, <2>9, ThenFits
  <2>11. Bare' \/ (Supplied' /\ Rising')
    <3>1. CASE Bare
      BY <2>2, <3>1
    <3>2. CASE release = "new" /\ Rising
      BY <1>3, <2>1, <3>2 DEF Supplied, Rising, Current, NeverDowngraded
    <3> QED
      BY <1>2, <3>1, <3>2, FetchesNew
  <2>12. RunNew(daemon') \subseteq ranNew' /\ (served' # {} => unit')
    BY <1>3 DEF SetupInv
  <2> QED
    BY <1>1, <1>3, <2>3, <2>5, <2>10, <2>11, <2>12, OwnStep
<1> QED
  BY <1>4, <1>5 DEF Download

LEMMA UnpackInv ==
    ASSUME SetupInv, TypeOK', NEW p \in Processes, Unpack(p)
    PROVE  SetupInv'
<1>1. TypeOK /\ (accepted \/ ~marker) /\ ListFits(p)
  BY DEF SetupInv
<1>2. /\ todo[p] # <<>> /\ todo[p][1] = "unpack" /\ "unpack" \in Fetching
      /\ "unpack" \in Preparers
  BY <1>1, AtHead DEF Unpack, Fetching, Preparers
<1>3. UNCHANGED <<tmp, unit, release, daemon, accepted, marker, ranNew, served>>
  BY DEF Unpack, host, history
<1>4. CASE Fails(p) /\ UNCHANGED <<disk, kc>>
  BY <1>1, <1>3, <1>4, Unchanged, QuietFails
<1> DEFINE l == PromoteBinaryTo \o <<"settle", "or">>
<1>5. CASE /\ disk' = [disk EXCEPT !["home"] = release]
           /\ kc' = [kc EXCEPT ![p] = "home"]
           /\ Then(p, l) \/ Then(p, <<>>)
  <2>1. /\ disk'["home"] = release /\ disk'["system"] = disk["system"]
        /\ \A x \in PlaceNames : disk'[x] = disk[x] \/ disk'[x] = release
    BY <1>1, <1>5 DEF TypeOK, PlaceNames
  <2>2. Bare => Bare'
    BY <1>3, <2>1 DEF Bare
  <2>3. ~Bare' => release = "new"
    BY <1>2, <2>2, FetchesNew
  <2>4. kc'[p] = "home" /\ \A q \in Processes \ {p} : kc'[q] = kc[q]
    BY <1>1, <1>5 DEF TypeOK
  <2>5. ~Bare' => Good(p)'
    BY <2>1, <2>3, <2>4 DEF Good
  <2>6. \A q \in Processes : Rise(q)
    <3>1. ~Bare' => \A x \in PlaceNames : disk[x] # "old" => disk'[x] # "old"
      BY <2>1, <2>3
    <3>2. \A q \in Processes : ~Bare' => kc'[q] = kc[q] \/ Good(q)'
      BY <2>4, <2>5
    <3> QED
      BY <1>1, <1>3, <2>2, <3>1, <3>2, GrowingRises DEF Effective
  <2>7. SuitsNow(<<>>, p)
    BY <1>2, <2>5, EmptySuits
  <2>8. SuitsNow(l, p)
    <3>1. \A i \in 1 .. 3 : i = 1 \/ i = 2 \/ i = 3
      OBVIOUS
    <3>2. Without(PromoteBinaryTo, Openers) /\ Without(PromoteBinaryTo, {"record", "close"})
      BY <3>1 DEF PromoteBinaryTo, Without, Openers
    <3>3. /\ <<"settle", "or">> \in Seq(Steps)
          /\ Without(<<"settle", "or">>, Openers) /\ Without(<<"settle", "or">>, {"record", "close"})
      BY DEF Without, Openers, Steps
    <3>4. l \in Seq(Steps) /\ Without(l, Openers) /\ Without(l, {"record", "close"})
      <4> DEFINE a == PromoteBinaryTo
                 b == <<"settle", "or">>
      <4>1. a \in Seq(Steps) /\ b \in Seq(Steps)
        BY <3>3, InsertedLists
      <4> HIDE DEF a, b
      <4>2. a \o b \in Seq(Steps)
        BY <4>1, ConcatProperties
      <4>3. Without(a \o b, Openers) /\ Without(a \o b, {"record", "close"})
        BY <3>2, <3>3, <4>1, ConcatWithout DEF a, b
      <4> QED
        BY <4>2, <4>3 DEF a, b
    <3> HIDE DEF l
    <3>5. ~Bare' => Prepared(l, Good(p)')
      BY <2>5 DEF Prepared
    <3> QED
      BY <1>2, <2>5, <3>4, <3>5, SuitsIf
  <2> HIDE DEF l
  <2>9. ListFits(p)'
    BY <1>1, <1>2, <1>5, <2>6, <2>7, <2>8, ThenFits
  <2>10. Bare' \/ (Supplied' /\ Rising')
    <3>1. CASE Bare
      BY <2>2, <3>1
    <3>2. CASE release = "new" /\ Rising
      BY <1>3, <2>1, <3>2 DEF Supplied, Rising, Current, NeverDowngraded
    <3> QED
      BY <1>2, <3>1, <3>2, FetchesNew
  <2>11. RunNew(daemon') \subseteq ranNew' /\ (served' # {} => unit')
    BY <1>3 DEF SetupInv
  <2> QED
    BY <1>1, <1>3, <1>5, <2>6, <2>9, <2>10, <2>11, OwnStep
<1> HIDE DEF l
<1>6. CASE ~(Fails(p) /\ UNCHANGED <<disk, kc>>)
  <2>1. Then(p, l) \/ Then(p, <<>>)
    BY <1>6 DEF Unpack, Done, l
  <2> QED
    BY <1>5, <1>6, <2>1 DEF Unpack
<1> QED
  BY <1>4, <1>6

\* A step that writes a binary and is done.
LEMMA WritesInv ==
    ASSUME SetupInv, TypeOK', NEW p \in Processes, todo[p] # <<>>,
           todo[p][1] \in {"copy", "copied", "swap", "sandbox"}, Then(p, <<>>),
           UNCHANGED <<release, daemon, kc, accepted, marker, ranNew, served>>, unit => unit',
           disk'["home"] = disk["home"],
           Bare => tmp' # "new" /\ disk'["system"] # "new",
           ~Bare => tmp' # "old",
           ~Bare => disk'["system"] = disk["system"] \/ disk'["system"] # "old",
           ~Bare /\ todo[p][1] = "swap" => disk'["system"] # "old",
           todo[p][1] = "sandbox" /\ disk["system"] = "new" /\ kc[p] = "system"
              => disk'["system"] = "new"
    PROVE  SetupInv'
<1>1. TypeOK /\ (accepted \/ ~marker) /\ ListFits(p) /\ (Bare \/ (Supplied /\ Rising))
  BY DEF SetupInv
<1>2. Bare => Bare'
  BY DEF Bare, PlaceNames
<1>3. ~Bare' => \A x \in PlaceNames : disk[x] # "old" => disk'[x] # "old"
  BY <1>2 DEF PlaceNames
<1>4. \A q \in Processes : Rise(q)
  BY <1>1, <1>2, <1>3, GrowingRises DEF Effective
<1>5. todo[p][1] \notin Preparers /\ todo[p][1] # "verify"
  BY DEF Preparers
<1>6. Updating(p)' => (todo[p][1] \in {"promote", "swap"} => Current')
  <2>1. Updating(p)' => ~Bare
    BY DEF Updating, Bare
  <2> QED
    BY <2>1 DEF Current
<1>7. SuitsNow(<<>>, p)
  BY <1>5, <1>6, EmptySuits
<1>8. ListFits(p)'
  BY <1>1, <1>4, <1>7, ThenFits
<1>9. Bare' \/ (Supplied' /\ Rising')
  <2>1. CASE Bare
    BY <1>2, <2>1
  <2>2. CASE ~Bare
    <3>1. Rising'
      BY <1>1, <2>2 DEF Rising, Current, NeverDowngraded
    <3>2. Absent(Fetching) => Absent(Fetching)'
      BY <1>1, AbsentDone
    <3>3. Supplied'
      <4>1. CASE release = "new"
        BY <4>1 DEF Supplied
      <4>2. CASE disk["home"] = "new" /\ Absent(Fetching)
        BY <3>2, <4>2 DEF Supplied
      <4>3. CASE /\ disk["system"] = "new" /\ Absent(Fetching \union Copying)
                 /\ \A q \in Processes : kc[q] = "system"
        <5>1. Absent(Fetching \union Copying)'
          BY <1>1, <4>3, AbsentDone
        <5>2. todo[p][1] = "sandbox"
          <6>1. todo[p][1] \notin Fetching \union Copying
            BY <1>1, <4>3, HeadIsPresent
          <6> QED
            BY <6>1 DEF Copying
        <5> QED
          BY <4>3, <5>1, <5>2 DEF Supplied
      <4> QED
        BY <1>1, <2>2, <4>1, <4>2, <4>3 DEF Supplied
    <3> QED
      BY <3>1, <3>3
  <2> QED
    BY <2>1, <2>2
<1>10. RunNew(daemon') \subseteq ranNew' /\ (served' # {} => unit')
  BY DEF SetupInv
<1> QED
  BY <1>1, <1>4, <1>8, <1>9, <1>10, OwnStep

LEMMA CopyInv ==
    ASSUME SetupInv, TypeOK', NEW p \in Processes, Copy(p)
    PROVE  SetupInv'
<1>1. TypeOK /\ (accepted \/ ~marker)
  BY DEF SetupInv
<1>2. todo[p] # <<>> /\ todo[p][1] = "copy"
  BY <1>1, AtHead DEF Copy
<1>3. UNCHANGED <<disk, unit, release, daemon, kc, accepted, marker, ranNew, served>>
  BY DEF Copy, host, history
<1>4. CASE Fails(p) /\ UNCHANGED <<tmp, out>>
  BY <1>1, <1>3, <1>4, Unchanged, QuietFails
<1>5. CASE tmp' = "broken" /\ Then(p, <<>>)
  <2>1. Bare => disk'["system"] # "new"
    BY <1>3 DEF Bare, PlaceNames
  <2> QED
    BY <1>2, <1>3, <1>5, <2>1, WritesInv
<1> QED
  BY <1>4, <1>5 DEF Copy, Done

LEMMA CopiedInv ==
    ASSUME SetupInv, TypeOK', NEW p \in Processes, Copied(p)
    PROVE  SetupInv'
<1>1. TypeOK /\ (accepted \/ ~marker) /\ ListFits(p) /\ (Bare \/ Rising)
  BY DEF SetupInv
<1>2. todo[p] # <<>> /\ todo[p][1] = "copied" /\ todo[p][1] \in Uses
  BY <1>1, AtHead DEF Copied, Uses
<1>3. UNCHANGED <<unit, release, daemon, kc, accepted, marker, ranNew, served>>
  BY DEF Copied, host, history
<1>4. CASE Fails(p) /\ UNCHANGED <<disk, tmp>>
  BY <1>1, <1>3, <1>4, Unchanged, QuietFails
<1>5. CASE /\ Then(p, <<>>)
           /\ tmp' = IF out[p] = "tmp" THEN disk[kc[p]] ELSE tmp
           /\ disk' = IF out[p] = "system" THEN [disk EXCEPT !["system"] = disk[kc[p]]]
                      ELSE disk
  <2>1. /\ tmp' = tmp \/ tmp' = disk[kc[p]]
        /\ disk'["system"] = disk["system"] \/ disk'["system"] = disk[kc[p]]
        /\ disk'["home"] = disk["home"] /\ kc[p] \in PlaceNames /\ "system" \in PlaceNames
    BY <1>1, <1>5 DEF TypeOK, PlaceNames
  <2>2. Bare => tmp' # "new" /\ disk'["system"] # "new"
    BY <2>1 DEF Bare
  <2>3. ~Bare => disk[kc[p]] # "old" /\ tmp # "old"
    BY <1>1, <1>2, HeadIsPrepared DEF Good, Rising
  <2> QED
    BY <1>2, <1>3, <1>5, <2>1, <2>2, <2>3, WritesInv
<1> QED
  BY <1>4, <1>5 DEF Copied, Done

LEMMA SwapInv ==
    ASSUME SetupInv, TypeOK', NEW p \in Processes, Swap(p)
    PROVE  SetupInv'
<1>1. TypeOK /\ (accepted \/ ~marker) /\ (Bare \/ Rising)
  BY DEF SetupInv
<1>2. todo[p] # <<>> /\ todo[p][1] = "swap"
  BY <1>1, AtHead DEF Swap
<1>3. UNCHANGED <<unit, release, daemon, kc, accepted, marker, ranNew, served>>
  BY DEF Swap, host, history
<1>4. CASE Fails(p) /\ UNCHANGED <<disk, tmp, out>>
  BY <1>1, <1>3, <1>4, Unchanged, QuietFails
<1>5. CASE disk' = [disk EXCEPT !["system"] = tmp] /\ tmp' = "none" /\ Then(p, <<>>)
  <2>1. disk'["system"] = tmp /\ disk'["home"] = disk["home"]
    BY <1>1, <1>5 DEF TypeOK, PlaceNames
  <2>2. Bare => tmp # "new"
    BY DEF Bare
  <2>3. ~Bare => tmp # "old"
    BY <1>1 DEF Rising
  <2> QED
    BY <1>2, <1>3, <1>5, <2>1, <2>2, <2>3, WritesInv
<1> QED
  BY <1>4, <1>5 DEF Swap, Done

LEMMA SandboxInv ==
    ASSUME SetupInv, TypeOK', NEW p \in Processes, Sandbox(p)
    PROVE  SetupInv'
<1>1. TypeOK /\ (accepted \/ ~marker) /\ ListFits(p) /\ (Bare \/ Rising)
  BY DEF SetupInv
<1>2. todo[p] # <<>> /\ todo[p][1] = "sandbox" /\ todo[p][1] \in Uses
  BY <1>1, AtHead DEF Sandbox, Uses
<1>3. UNCHANGED <<tmp, release, daemon, kc, accepted, marker, ranNew, served>>
  BY DEF Sandbox, locals, history
<1>4. "sandbox" \notin Preparers \union {"verify", "restart", "promote", "swap"} \union Openers
  BY DEF Preparers, Openers
<1>5. CASE (Then(p, <<>>) \/ Fails(p)) /\ UNCHANGED <<disk, unit>>
  <2>1. QuietHost
    BY <1>3, <1>5, Unchanged
  <2> QED
    BY <1>1, <1>2, <1>3, <1>4, <1>5, <2>1, PlainSteps, PlainThen, QuietFails
<1>6. CASE /\ unit' = TRUE /\ Then(p, <<>>)
           /\ disk' \in {disk, [disk EXCEPT !["system"] = disk[kc[p]]]}
  <2>1. /\ disk'["system"] = disk["system"] \/ disk'["system"] = disk[kc[p]]
        /\ disk'["home"] = disk["home"] /\ kc[p] \in PlaceNames /\ "system" \in PlaceNames
    BY <1>1, <1>6 DEF TypeOK, PlaceNames
  <2>2. Bare => tmp' # "new" /\ disk'["system"] # "new"
    BY <1>3, <2>1 DEF Bare
  <2>3. ~Bare => disk[kc[p]] # "old" /\ tmp # "old"
    BY <1>1, <1>2, HeadIsPrepared DEF Good, Rising
  <2> QED
    BY <1>2, <1>3, <1>6, <2>1, <2>2, <2>3, WritesInv
<1> QED
  BY <1>5, <1>6 DEF Sandbox, Done

\* A step that starts a daemon: systemd's from the system's place, the user's with the
\* binary of EnsureInstalled.
LEMMA StartsInv ==
    ASSUME SetupInv, TypeOK', NEW p \in Processes, todo[p] # <<>>,
           todo[p][1] \in {"restart", "start"},
           \/ Fails(p)
           \/ Then(p, <<>>) /\ (todo[p][1] = "restart" /\ Current => Effective'),
           UNCHANGED <<disk, tmp, unit, release, kc, accepted, marker, served>>,
           ranNew' = ranNew \union RunNew(daemon'),
           daemon'["system"] \in {daemon["system"], Down}
              \/ daemon'["system"].code = disk["system"],
           daemon'["user"] \in {daemon["user"], Down}
              \/ (daemon'["user"].code = disk[kc[p]] /\ (Bare \/ Good(p)))
    PROVE  SetupInv'
<1>1. TypeOK /\ (accepted \/ ~marker) /\ ListFits(p) /\ (Bare \/ (Supplied /\ Rising))
  BY DEF SetupInv
<1>2. /\ \A m \in Modes : m = "system" \/ m = "user"
      /\ "system" \in Modes /\ "user" \in Modes
      /\ kc[p] \in PlaceNames /\ "system" \in PlaceNames
  BY <1>1 DEF Modes, PlaceNames, TypeOK
<1>3. \A m \in Modes : daemon'[m] # Down => daemon'[m].code \in {"old", "new"}
  BY DEF TypeOK, Daemons, Runnable
<1>4. Bare => Bare'
  <2>1. SUFFICES ASSUME Bare PROVE Bare'
    OBVIOUS
  <2>2. \A m \in Modes : daemon'[m] # Down => daemon'[m].code # "new"
    <3>1. disk["system"] # "new" /\ disk[kc[p]] # "new"
      BY <1>2, <2>1 DEF Bare
    <3>2. \A m \in Modes : daemon[m] # Down => daemon[m].code # "new"
      BY <2>1 DEF Bare
    <3> QED
      BY <1>2, <3>1, <3>2
  <2>3. RunNew(daemon') = {}
    BY <2>2 DEF RunNew
  <2> QED
    BY <2>1, <2>2, <2>3 DEF Bare
<1>5. Current /\ Effective => Effective'
  BY <1>2, <1>3 DEF Current, Effective
<1>6. \A q \in Processes : Rise(q)
  BY <1>1, <1>4, <1>5, GrowingRises
<1>7. ListFits(p)'
  <2>1. CASE Fails(p)
    BY <1>1, <1>6, <2>1, FailedFits
  <2>2. CASE Then(p, <<>>) /\ (todo[p][1] = "restart" /\ Current => Effective')
    <3>1. todo[p][1] \notin Preparers /\ todo[p][1] # "verify"
          /\ todo[p][1] \notin {"promote", "swap"}
      BY DEF Preparers
    <3>2. Current' = Current
      BY DEF Current
    <3>3. SuitsNow(<<>>, p)
      BY <2>2, <3>1, <3>2, EmptySuits
    <3> QED
      BY <1>1, <1>6, <2>2, <3>3, ThenFits
  <2> QED
    BY <2>1, <2>2
<1>8. Bare' \/ (Supplied' /\ Rising')
  <2>1. CASE Bare
    BY <1>4, <2>1
  <2>2. CASE ~Bare
    <3>2. /\ tmp # "old" /\ ("system" \in ranNew => disk["system"] # "old")
          /\ \A m \in ranNew : daemon[m] # Down => daemon[m].code = "new"
      BY <1>1, <2>2 DEF Rising, Current, NeverDowngraded
    <3>3. "system" \in ranNew' => disk["system"] # "old"
      <4>1. \A m \in RunNew(daemon') : daemon'[m] # Down /\ daemon'[m].code = "new"
        BY DEF RunNew
      <4>2. daemon["system"] # Down /\ daemon["system"].code = "new" => "system" \in ranNew
        BY <1>2 DEF SetupInv, RunNew
      <4> QED
        BY <3>2, <4>1, <4>2
    <3>4. \A m \in ranNew' : daemon'[m] # Down => daemon'[m].code = "new"
      <4> SUFFICES ASSUME NEW m \in ranNew', daemon'[m] # Down, daemon'[m].code # "new"
                   PROVE  FALSE
        OBVIOUS
      <4>1. m \in ranNew /\ m \in Modes /\ daemon'[m].code = "old"
        BY <1>1, <1>3 DEF RunNew, TypeOK
      <4>2. CASE m = "system"
        BY <3>2, <4>1, <4>2
      <4>3. CASE m = "user"
        BY <2>2, <3>2, <4>1, <4>3 DEF Good
      <4> QED
        BY <1>2, <4>1, <4>2, <4>3
    <3>5. Rising'
      BY <3>2, <3>3, <3>4 DEF Rising, Current, NeverDowngraded
    <3>6. /\ Absent(Fetching) => Absent(Fetching)'
          /\ Absent(Fetching \union Copying) => Absent(Fetching \union Copying)'
      <4>1. CASE Fails(p)
        BY <1>1, <4>1, AbsentFails
      <4>2. CASE Then(p, <<>>)
        BY <1>1, <4>2, AbsentDone
      <4> QED
        BY <4>1, <4>2
    <3>7. Supplied'
      BY <1>1, <2>2, <3>6 DEF Supplied
    <3> QED
      BY <3>5, <3>7
  <2> QED
    BY <2>1, <2>2
<1>9. RunNew(daemon') \subseteq ranNew' /\ (served' # {} => unit')
  BY DEF SetupInv
<1>10. Fails(p) \/ \E l : Then(p, l)
  OBVIOUS
<1> QED
  BY <1>1, <1>6, <1>7, <1>8, <1>9, <1>10, OwnStep

LEMMA SystemdInv ==
    ASSUME SetupInv, TypeOK', NEW p \in Processes, todo[p] # <<>>,
           todo[p][1] \in {"restart", "start"}, SystemdRestarts(p),
           UNCHANGED <<disk, tmp, unit, release, kc, accepted, marker, served>>,
           ranNew' = ranNew \union RunNew(daemon')
    PROVE  SetupInv'
<1>1. TypeOK
  BY DEF SetupInv
<1>2. CASE disk["system"] \in Runnable
  <2>1. daemon' = [daemon EXCEPT !["system"] = Started("system", "system")] /\ Then(p, <<>>)
    BY <1>2 DEF SystemdRestarts, Done
  <2>2. /\ daemon'["system"] = Started("system", "system")
        /\ daemon'["user"] = daemon["user"]
    BY <1>1, <2>1 DEF TypeOK, Modes
  <2>3. daemon'["system"].code = disk["system"]
    BY <2>2 DEF Started
  <2>4. Current => Effective'
    BY <1>2, <2>3 DEF Current, Effective, Runnable
  <2> QED
    BY <2>1, <2>2, <2>3, <2>4, StartsInv
<1>3. CASE disk["system"] \notin Runnable
  <2>1. daemon' = [daemon EXCEPT !["system"] = Down] /\ Fails(p)
    BY <1>3 DEF SystemdRestarts
  <2>2. daemon'["system"] = Down /\ daemon'["user"] = daemon["user"]
    BY <1>1, <2>1 DEF TypeOK, Modes
  <2> QED
    BY <2>1, <2>2, StartsInv
<1> QED
  BY <1>2, <1>3

LEMMA RestartInv ==
    ASSUME SetupInv, TypeOK', NEW p \in Processes, Restart(p)
    PROVE  SetupInv'
<1>1. TypeOK /\ (accepted \/ ~marker)
  BY DEF SetupInv
<1>2. todo[p] # <<>> /\ todo[p][1] = "restart"
  BY <1>1, AtHead DEF Restart
<1>3. /\ UNCHANGED <<disk, tmp, unit, release, kc, accepted, marker, served>>
      /\ ranNew' = ranNew \union RunNew(daemon')
  BY DEF Restart, files, locals
<1>4. CASE Fails(p) /\ UNCHANGED daemon
  <2>1. ranNew' = ranNew
    BY <1>3, <1>4 DEF SetupInv
  <2> QED
    BY <1>1, <1>3, <1>4, <2>1, Unchanged, QuietFails
<1>5. CASE SystemdRestarts(p)
  BY <1>2, <1>3, <1>5, SystemdInv
<1>6. CASE ~unit /\ daemon' = [m \in Modes |-> Down] /\ Then(p, <<"install", "start">>)
  <2> DEFINE l == <<"install", "start">>
  <2>1. RunNew(daemon') = {} /\ SameCode
    BY <1>6 DEF RunNew, SameCode
  <2>2. QuietHost
    BY <1>3, <2>1 DEF QuietHost
  <2>3. ~Updating(p)'
    BY <1>3, <1>6 DEF Updating, SetupInv
  <2>4. Plain(l, FALSE) /\ Without(l, Openers) /\ Then(p, l)
    BY <1>6, PlainLists
  <2> HIDE DEF l
  <2>5. /\ l \in Seq(Steps) /\ Without(l, {"record", "close"}) /\ Prepared(l, Good(p)')
        /\ Without(l, Fetching) /\ Without(l, Copying)
    BY <2>4 DEF Plain, Without, Special, Prepared
  <2>6. "restart" \notin Preparers
    BY DEF Preparers
  <2>7. SuitsNow(l, p)
    BY <1>2, <2>3, <2>4, <2>5, <2>6, SuitsIf
  <2> QED
    BY <1>1, <1>2, <1>3, <2>2, <2>4, <2>5, <2>7, QuietThen
<1> QED
  BY <1>4, <1>5, <1>6 DEF Restart

LEMMA StartInv ==
    ASSUME SetupInv, TypeOK', NEW p \in Processes, Start(p)
    PROVE  SetupInv'
<1>1. TypeOK /\ (accepted \/ ~marker) /\ ListFits(p)
  BY DEF SetupInv
<1>2. todo[p] # <<>> /\ todo[p][1] = "start" /\ "start" \in Uses
  BY <1>1, AtHead DEF Start, Uses
<1>3. /\ UNCHANGED <<disk, tmp, unit, release, kc, accepted, marker, served>>
      /\ ranNew' = ranNew \union RunNew(daemon')
  BY DEF Start, files, locals
<1>4. "start" \notin Preparers \union {"verify", "restart", "promote", "swap"} \union Openers
  BY DEF Preparers, Openers
<1>5. CASE UNCHANGED daemon /\ (Then(p, <<>>) \/ Fails(p))
  <2>1. ranNew' = ranNew
    BY <1>3, <1>5 DEF SetupInv
  <2>2. QuietHost
    BY <1>3, <1>5, <2>1, Unchanged
  <2> QED
    BY <1>1, <1>2, <1>3, <1>4, <1>5, <2>2, PlainSteps, PlainThen, QuietFails
<1>6. CASE SystemdRestarts(p)
  BY <1>2, <1>3, <1>6, SystemdInv
<1>7. CASE /\ daemon' = [daemon EXCEPT !["user"] = Started(kc[p], "user")]
           /\ Then(p, <<>>)
  <2>1. daemon'["user"] = Started(kc[p], "user") /\ daemon'["system"] = daemon["system"]
    BY <1>1, <1>7 DEF TypeOK, Modes
  <2>2. daemon'["user"].code = disk[kc[p]]
    BY <2>1 DEF Started
  <2>3. Bare \/ Good(p)
    BY <1>1, <1>2, HeadIsPrepared
  <2> QED
    BY <1>2, <1>3, <1>7, <2>1, <2>2, <2>3, StartsInv
<1> QED
  BY <1>5, <1>6, <1>7 DEF Start, Done

\* No close is before a process that is to begin an update: the list fits as if one
\* had begun.
LEMMA UpdateInv ==
    ASSUME SetupInv, TypeOK', NEW p \in Processes, Update(p)
    PROVE  SetupInv'
<1>1. TypeOK /\ (accepted \/ ~marker) /\ ListFits(p)
  BY DEF SetupInv
<1>2. todo[p] # <<>> /\ todo[p][1] = "update" /\ "update" \in Openers
  BY <1>1, AtHead DEF Update, Openers
<1>3. /\ UNCHANGED <<disk, tmp, unit, release, daemon, kc, accepted, marker, ranNew>>
      /\ served' = IF unit THEN served \union {p} ELSE served \ {p}
  BY DEF Update, files, host, locals
<1>4. "update" \notin Preparers \union {"verify", "restart", "promote", "swap"}
  BY DEF Preparers
<1>5. /\ Bare' = Bare /\ Current' = Current /\ Effective' = Effective
      /\ Good(p)' = Good(p)
  BY <1>3 DEF Bare, Current, Effective, Good
<1>6. \A q \in Processes \ {p} : Rise(q)
  BY <1>1, <1>3, <1>5, GrowingRises
<1>7. Fits(todo[p], accepted, ~Bare, Good(p), TRUE, Current, Effective)
  <2>1. /\ accepted \/ Guarded(todo[p])
        /\ Orderly(todo[p]) /\ (~Bare => Prepared(todo[p], Good(p)))
    BY <1>1 DEF ListFits, Fits
  <2>2. Closing(todo[p], Current, Effective)
    <3>1. ASSUME NEW i \in DOMAIN todo[p] PROVE todo[p][i] # "close"
      <4>1. i \in Nat /\ i >= 1
        BY <1>1, LenProperties DEF TypeOK
      <4>2. CASE i = 1
        BY <1>2, <4>2
      <4>3. CASE i # 1
        <5>1. 1 \in 1 .. i - 1
          BY <4>1, <4>3
        <5> QED
          BY <1>2, <2>1, <5>1 DEF Orderly
      <4> QED
        BY <4>2, <4>3
    <3> QED
      BY <3>1 DEF Closing
  <2> QED
    BY <2>1, <2>2 DEF Fits
<1>8. Rises(accepted, ~Bare, Good(p), TRUE, Current, Effective,
            accepted', ~Bare', Good(p)', Updating(p)', Current', Effective')
  BY <1>3, <1>5 DEF Rises
<1>9. SuitsNow(<<>>, p)
  BY <1>2, <1>4, PlainSteps, PlainSuitsNow
<1> DEFINE l == EnsureDaemonUpToDate
<1>10. /\ l \in Seq(Steps) /\ Len(l) = 4 /\ DOMAIN l = 1 .. 4
       /\ l[1] = "install" /\ l[2] = "promote" /\ l[3] = "restart" /\ l[4] = "close"
  BY DEF EnsureDaemonUpToDate, Steps
<1> HIDE DEF l
<1>11. \A i \in 1 .. 4 : i = 1 \/ i = 2 \/ i = 3 \/ i = 4
  OBVIOUS
<1>12. Without(l, Openers) /\ Without(l, Fetching) /\ Without(l, Copying)
       /\ Without(l, {"record"})
  BY <1>10, <1>11 DEF Without, Openers, Fetching, Copying
<1>13. SuitsNow(l, p)
  <2>1. Guarded(l) /\ Orderly(l)
    BY <1>10, <1>12 DEF Without, Guarded, Orderly
  <2>2. Prepared(l, Good(p)')
    <3>1. \A i \in DOMAIN l : l[i] \in Uses => i = 2
      BY <1>10, <1>11 DEF Uses
    <3>2. 1 \in 1 .. 2 - 1 /\ l[1] \in Preparers /\ Unbroken(l, 1, 2)
      BY <1>10 DEF Preparers, Unbroken
    <3> QED
      BY <3>1, <3>2 DEF Prepared, PreparedAt
  <2>3. Closing(l, Current', Effective')
    <3>1. \A i \in DOMAIN l : l[i] = "close" => i = 4
      BY <1>10, <1>11
    <3>2. 2 \in 1 .. 3 - 1 /\ l[2] \in {"promote", "swap"} /\ Unbroken(l, 2, 3)
      BY <1>10 DEF Unbroken
    <3>3. 3 \in 1 .. 4 - 1 /\ RestartsAt(l, 3, Current') /\ Unbroken(l, 3, 4)
      BY <1>10, <3>2 DEF RestartsAt, Replaces, Unbroken
    <3> QED
      BY <3>1, <3>3 DEF Closing
  <2> QED
    BY <1>2, <1>4, <1>10, <2>1, <2>2, <2>3 DEF SuitsNow, Suits
<1>14. Then(p, l) \/ Then(p, <<>>)
  BY DEF Update, Done, l
<1>15. ListFits(p)'
  BY <1>1, <1>2, <1>7, <1>8, <1>9, <1>13, <1>14, ThenFitsIf
<1>16. Bare' \/ (Supplied' /\ Rising')
  <2>1. /\ Absent(Fetching) => Absent(Fetching)'
        /\ Absent(Fetching \union Copying) => Absent(Fetching \union Copying)'
    <3>1. CASE Then(p, <<>>)
      BY <1>1, <1>2, <3>1, AbsentDone
    <3>2. CASE Then(p, l)
      <4>1. Without(l, Fetching \union Copying)
        BY <1>12 DEF Without
      <4> QED
        BY <1>1, <1>2, <1>10, <1>12, <3>2, <4>1, AbsentThen
    <3> QED
      BY <1>14, <3>1, <3>2
  <2>2. Supplied => Supplied'
    BY <1>3, <2>1 DEF Supplied
  <2>3. Rising => Rising'
    BY <1>3 DEF Rising, Current, NeverDowngraded
  <2> QED
    BY <1>5, <2>2, <2>3 DEF SetupInv
<1>17. RunNew(daemon') \subseteq ranNew' /\ (served' # {} => unit')
  BY <1>3 DEF SetupInv
<1> QED
  BY <1>1, <1>3, <1>6, <1>14, <1>15, <1>16, <1>17, OwnStep

-----------------------------------------------------------------------------
(* The theorems.                                                           *)

LEMMA InitInv == Init => SetupInv
<1> SUFFICES ASSUME Init PROVE SetupInv
  OBVIOUS
<1>1. TypeOK
  BY InitTyped
<1>2. /\ accepted = FALSE /\ marker = FALSE /\ served = {} /\ ranNew = RunNew(daemon)
      /\ tmp = "none" /\ release \in {"old", "new"}
      /\ \A p \in Processes : todo[p] = <<>> /\ kc[p] = "system"
  BY DEF Init, Runnable
<1>3. ASSUME NEW p \in Processes PROVE ListFits(p)
  <2> DEFINE l == todo[p]
  <2>1. l = <<>> /\ Plain(<<>>, FALSE)
    BY <1>2, PlainSteps
  <2> HIDE DEF l
  <2>2. Guarded(l) /\ Orderly(l) /\ Closing(l, Current, Effective) /\ Prepared(l, Good(p))
    BY <2>1 DEF Plain, Without, Special, Guarded, Orderly, Closing, Prepared
  <2> QED
    BY <2>2 DEF ListFits, Fits, l
<1>4. \A S : Absent(S)
  BY <1>2 DEF Absent
<1>5. \A m \in Modes : daemon[m] # Down =>
         /\ daemon[m].code = disk[daemon[m].at] /\ daemon[m].at \in PlaceNames
         /\ m = "system" => daemon[m].at = "system"
  <2>1. PICK h \in Installations : disk = h.disk /\ daemon = h.up
    BY DEF Init
  <2>2. \A m \in Modes : daemon[m] # Down => daemon[m].at \in PlaceNames
    BY <1>1 DEF TypeOK, Daemons
  <2> QED
    BY <2>1, <2>2, SetupAssumption
<1>6. \A m \in RunNew(daemon) : m \in Modes /\ daemon[m] # Down /\ daemon[m].code = "new"
  BY DEF RunNew
<1>7. Bare \/ (Supplied /\ Rising)
  <2>1. Rising
    <3>1. "system" \in ranNew => Current
      BY <1>2, <1>5, <1>6 DEF Current
    <3>2. NeverDowngraded
      BY <1>2, <1>6 DEF NeverDowngraded
    <3> QED
      BY <1>2, <3>1, <3>2 DEF Rising
  <2>2. CASE release = "new"
    BY <2>1, <2>2 DEF Supplied
  <2>3. CASE disk["home"] = "new"
    BY <1>4, <2>1, <2>3 DEF Supplied
  <2>4. CASE disk["system"] = "new"
    BY <1>2, <1>4, <2>1, <2>4 DEF Supplied
  <2>5. CASE release = "old" /\ disk["home"] # "new" /\ disk["system"] # "new"
    <3>1. \A x \in PlaceNames : disk[x] # "new"
      BY <2>5 DEF PlaceNames
    <3>2. \A m \in Modes : daemon[m] # Down => daemon[m].code # "new"
      BY <1>5, <3>1
    <3>3. ranNew = {}
      BY <1>2, <1>6, <3>2
    <3> QED
      BY <1>2, <2>5, <3>1, <3>2, <3>3 DEF Bare
  <2> QED
    BY <1>2, <2>2, <2>3, <2>4, <2>5
<1> QED
  BY <1>1, <1>2, <1>3, <1>7 DEF SetupInv

LEMMA StepInv ==
    ASSUME SetupInv, NEW p \in Processes, Step(p)
    PROVE  SetupInv'
<1>1. TypeOK'
  BY StepTyped DEF SetupInv
<1> QED
  BY <1>1, PlainStepInv, AskStepInv, VerifyInv, BinaryInv, PromoteInv, EnsureDaemonRunningInv,
     CloseInv, ExitInv, SettleInv, InstallInv, DownloadInv, UnpackInv, CopyInv, CopiedInv,
     SwapInv, SandboxInv, RestartInv, StartInv, UpdateInv DEF Step

LEMMA StutterInv ==
    ASSUME SetupInv, UNCHANGED vars
    PROVE  SetupInv'
<1>1. TypeOK /\ (accepted \/ ~marker) /\ \A q \in Processes : ListFits(q)
  BY DEF SetupInv
<1>2. TypeOK'
  BY <1>1 DEF TypeOK, vars, files, host, locals, history, counters
<1>3. QuietHost /\ UNCHANGED <<todo, kc, accepted, marker>>
  BY Unchanged DEF vars, files, host, locals, history, counters
<1>4. \A q \in Processes : Rise(q) /\ todo'[q] = todo[q]
  BY <1>3, QuietRises
<1>5. \A q \in Processes : ListFits(q)'
  BY <1>1, <1>2, <1>4, KeptFits
<1>6. Supplied => Supplied'
  BY <1>3 DEF Supplied, QuietHost, Absent
<1> QED
  BY <1>1, <1>2, <1>3, <1>5, <1>6, QuietWorld DEF SetupInv

\* What every list of steps relies on, and what there is on the host for it, survive
\* every step of setup.go and recovery.go, in every interleaving, and every fault.
THEOREM SetupInvariant == Spec => []SetupInv
<1>1. SetupInv /\ [Next]_vars => SetupInv'
  <2> SUFFICES ASSUME SetupInv, [Next]_vars PROVE SetupInv'
    OBVIOUS
  <2>1. TypeOK
    BY DEF SetupInv
  <2>2. ASSUME NEW p \in Processes, Step(p) PROVE SetupInv'
    BY <2>2, StepInv
  <2>3. ASSUME NEW p \in Processes, Kill(p) PROVE SetupInv'
    BY <2>1, <2>3, KillTyped, KillInv
  <2>4. ASSUME NEW p \in Processes, NEW kind \in Kinds, Begin(p, kind) PROVE SetupInv'
    BY <2>1, <2>4, BeginTyped, BeginInv
  <2>5. ASSUME NEW m \in Modes, DaemonDies(m) PROVE SetupInv'
    BY <2>1, <2>5, DaemonDiesTyped, DaemonDiesInv
  <2>6. CASE Upgrade
    BY <2>1, <2>6, UpgradeTyped, UpgradeInv
  <2>7. CASE UNCHANGED vars
    BY <2>7, StutterInv
  <2> QED
    BY <2>2, <2>3, <2>4, <2>5, <2>6, <2>7 DEF Next
<1> QED
  BY <1>1, InitInv, PTL DEF Spec

\* root.go:376-391, 467-481: the marker names a build only if a daemon has accepted it,
\* whatever recovery, other processes, kills and upgrades did in between.
THEOREM MarkerIsGranted == Spec => []MarkerWasGranted
<1>1. SetupInv => MarkerWasGranted
  BY DEF SetupInv, MarkerWasGranted
<1> QED
  BY <1>1, SetupInvariant, PTL

\* setup.go:278-316: no daemon that has run the required version is followed by an older
\* one, however many processes download, promote and restart at once.
THEOREM DaemonsOnlyRise == Spec => []NeverDowngraded
<1>1. SetupInv => NeverDowngraded
  <2> SUFFICES ASSUME SetupInv PROVE NeverDowngraded
    OBVIOUS
  <2>1. CASE Bare
    BY <2>1 DEF Bare, NeverDowngraded
  <2>2. CASE Rising
    BY <2>2 DEF Rising
  <2> QED
    BY <2>1, <2>2 DEF SetupInv
<1> QED
  BY <1>1, SetupInvariant, PTL

\* setup.go:210-236: an update that began on a host with a system service, and whose
\* required version has been published, leaves the service on that version.
THEOREM UpdatesAreEffective == Spec => []UpdateTakesEffect
<1>1. SetupInv => UpdateTakesEffect
  <2> SUFFICES ASSUME SetupInv, NEW p \in Processes, At(p, "close"), p \in served,
                      release = "new"
               PROVE  Effective
    BY DEF UpdateTakesEffect, Effective
  <2>1. TypeOK /\ ListFits(p)
    BY DEF SetupInv
  <2>2. todo[p] # <<>> /\ todo[p][1] = "close"
    BY <2>1, AtHead
  <2>3. 1 \in DOMAIN todo[p]
    BY <2>1, <2>2, LenProperties, EmptySeq DEF TypeOK
  <2>4. Closing(todo[p], Current, Effective)
    BY <2>1 DEF ListFits, Fits, Updating
  <2>5. ~ \E j \in 1 .. 1 - 1 : TRUE
    OBVIOUS
  <2> QED
    BY <2>2, <2>3, <2>4, <2>5 DEF Closing
<1> QED
  BY <1>1, SetupInvariant, PTL
=============================================================================
