-------------------------- MODULE AtomRoutingProofs --------------------------
(***************************************************************************)
(* Theorems about AtomRouting and AtomFeeds, for all Atoms and specs: what *)
(* is published.  AtomRequestsProofs has those about requests.             *)
(***************************************************************************)
EXTENDS AtomRouting, TLAPS, SequenceTheorems, FiniteSetTheorems, WellFoundedInduction

-----------------------------------------------------------------------------
(* Numbers *)

\* A set of naturals that is not empty has a least element, and Min is it.
LEMMA LeastNatural ==
    ASSUME NEW T \in SUBSET Nat, T # {}
    PROVE  Min(T) \in T /\ \A y \in T : Min(T) <= y
<1> DEFINE R == {p \in Nat \X Nat : p[1] < p[2]}
<1>1. IsWellFoundedOn(R, Nat)
  BY NatLessThanWellFounded DEF OpToRel
<1>2. PICK x \in T : \A y \in T : ~ (<<y, x>> \in R)
  <2> HIDE DEF R
  <2> QED
    BY <1>1, WFMin
<1>3. ASSUME NEW y \in T PROVE x <= y
  <2>1. x \in Nat /\ y \in Nat /\ (y < x => <<y, x>> \in R)
    OBVIOUS
  <2> QED
    BY <1>2, <2>1
<1> QED
  BY <1>2, <1>3 DEF Min

\* The greatest element of an interval.
LEMMA GreatestOf ==
    ASSUME NEW n \in Nat, NEW T \in SUBSET (1 .. n), n \in T
    PROVE  Max(T) = n
<1>1. \A y \in T : n >= y
  OBVIOUS
<1>2. \A x \in T : (\A y \in T : x >= y) => x = n
  OBVIOUS
<1> QED
  BY <1>1, <1>2 DEF Max

LEMMA MaxOfTwo ==
    ASSUME NEW m \in Nat, NEW n \in Nat
    PROVE  Max({m, n}) = IF m >= n THEN m ELSE n
<1> DEFINE k == IF m >= n THEN m ELSE n
<1>1. k \in {m, n} /\ \A y \in {m, n} : k >= y
  OBVIOUS
<1>2. \A x \in {m, n} : (\A y \in {m, n} : x >= y) => x = k
  OBVIOUS
<1> HIDE DEF k
<1>3. Max({m, n}) = k
  BY <1>1, <1>2 DEF Max
<1> QED
  BY <1>3 DEF k

-----------------------------------------------------------------------------
(* Folds *)

\* The recursive function by which FoldLeft is defined.
FoldSets(path, seq, n, iter) ==
    iter = [S \in SUBSET (1 .. n) |->
              IF S = {} THEN path ELSE Rewrite(iter[S \ {Max(S)}], seq[Max(S)])]

\* It exists: a greatest index more doubles the sets and is taken off first.
LEMMA FoldExists ==
    ASSUME NEW path, NEW seq, NEW n \in Nat
    PROVE  \E iter : FoldSets(path, seq, n, iter)
<1> DEFINE T == {k \in Nat : ~ \E iter : FoldSets(path, seq, k, iter)}
           k == Min(T)
<1> SUFFICES ASSUME T # {} PROVE FALSE
  OBVIOUS
<1>1. k \in T /\ \A j \in T : k <= j
  BY LeastNatural
<1>2. CASE k = 0
  <2> DEFINE iter == [S \in SUBSET (1 .. 0) |-> path]
  <2>1. SUBSET (1 .. 0) = {{}}
    OBVIOUS
  <2>2. FoldSets(path, seq, 0, iter)
    BY <2>1 DEF FoldSets
  <2> QED
    BY <1>1, <1>2, <2>2
<1>3. CASE k # 0
  <2>0. k \in Nat /\ k - 1 \in Nat /\ k - 1 \notin T
    <3>1. k \in Nat /\ k - 1 \in Nat /\ ~ k <= k - 1
      BY <1>1, <1>3
    <3> QED
      BY <1>1, <3>1
  <2>1. PICK before : FoldSets(path, seq, k - 1, before)
    BY <2>0
  <2> DEFINE up(S)  == Rewrite(before[S \ {k}], seq[k])
             iter == [S \in SUBSET (1 .. k) |-> IF k \in S THEN up(S) ELSE before[S]]
  <2> HIDE DEF T, k
  <2>2. ASSUME NEW S \in SUBSET (1 .. k)
        PROVE  iter[S] = IF S = {} THEN path ELSE Rewrite(iter[S \ {Max(S)}], seq[Max(S)])
    <3>1. CASE k \in S
      <4>1. Max(S) = k
        BY <2>0, <3>1, GreatestOf
      <4>2. iter[S \ {k}] = before[S \ {k}]
        OBVIOUS
      <4> QED
        BY <3>1, <4>1, <4>2
    <3>2. CASE k \notin S
      <4>1. S \in SUBSET (1 .. (k - 1))
        BY <2>0, <3>2
      <4>2. before[S] = IF S = {} THEN path ELSE Rewrite(before[S \ {Max(S)}], seq[Max(S)])
        BY <2>1, <4>1 DEF FoldSets
      <4>3. iter[S \ {Max(S)}] = before[S \ {Max(S)}] /\ iter[S] = before[S]
        BY <3>2
      <4> QED
        BY <4>2, <4>3
    <3> QED
      BY <3>1, <3>2
  <2>3. FoldSets(path, seq, k, iter)
    <3>1. iter = [S \in SUBSET (1 .. k) |-> iter[S]]
      OBVIOUS
    <3> QED
      BY <2>2, <3>1 DEF FoldSets
  <2> QED
    BY <1>1, <2>3 DEF T
<1> QED
  BY <1>2, <1>3

\* What middlewares make of a path, one after the other.
Rewritten(path, seq) == FoldLeft(Rewrite, path, seq)

Steps(path, seq, n, r) ==
    /\ r[0] = path
    /\ \A i \in 1 .. n : r[i] = Rewrite(r[i - 1], seq[i])
    /\ Rewritten(path, seq) = r[n]

\* The fold of Rewrite over a sequence goes through it step by step.
LEMMA FoldSteps ==
    ASSUME NEW path, NEW seq, NEW n \in Nat, DOMAIN seq = 1 .. n
    PROVE  \E r : Steps(path, seq, n, r)
<1> DEFINE it == CHOOSE iter : FoldSets(path, seq, n, iter)
           r == [i \in 0 .. n |-> it[1 .. i]]
<1>1. FoldSets(path, seq, n, it)
  BY FoldExists
<1>2. Rewritten(path, seq) = it[1 .. n]
  BY DEF Rewritten, FoldLeft, MapThenFoldSet, FoldSets
<1>3. \A S \in SUBSET (1 .. n) :
         it[S] = IF S = {} THEN path ELSE Rewrite(it[S \ {Max(S)}], seq[Max(S)])
  BY <1>1 DEF FoldSets
<1> HIDE DEF it
<1>4. r[0] = path
  <2>1. 1 .. 0 = {} /\ {} \in SUBSET (1 .. n)
    OBVIOUS
  <2>2. it[{}] = path
    BY <1>3, <2>1
  <2> QED
    BY <2>1, <2>2
<1>5. ASSUME NEW i \in 1 .. n
      PROVE  r[i] = Rewrite(r[i - 1], seq[i])
  <2>0. i \in Nat /\ i >= 1
    OBVIOUS
  <2>1. i \in Nat /\ i \in 1 .. i /\ 1 .. i # {}
    <3>1. i \in 1 .. i
      BY <2>0
    <3> QED
      BY <2>0, <3>1
  <2>2. Max(1 .. i) = i
    BY <2>1, GreatestOf
  <2>3. 1 .. i \in SUBSET (1 .. n) /\ (1 .. i) \ {i} = 1 .. (i - 1)
    OBVIOUS
  <2>4. it[1 .. i] = Rewrite(it[(1 .. i) \ {Max(1 .. i)}], seq[Max(1 .. i)])
    BY <1>3, <2>1, <2>3
  <2>5. it[1 .. i] = Rewrite(it[1 .. (i - 1)], seq[i])
    BY <2>2, <2>3, <2>4
  <2>6. r[i] = it[1 .. i] /\ r[i - 1] = it[1 .. (i - 1)]
    OBVIOUS
  <2> QED
    BY <2>5, <2>6
<1>6. r[n] = it[1 .. n]
  OBVIOUS
<1> HIDE DEF r
<1>7. Steps(path, seq, n, r)
  BY <1>2, <1>4, <1>5, <1>6 DEF Steps
<1> QED
  BY <1>7

-----------------------------------------------------------------------------
(* Sequences of sequences *)

Flattens(seqs, n, flat) ==
    flat = [i \in 1 .. n |-> IF i = 1 THEN seqs[i] ELSE flat[i - 1] \o seqs[i]]

LEMMA FlatExists ==
    ASSUME NEW seqs, NEW n \in Nat
    PROVE  \E flat : Flattens(seqs, n, flat)
<1> DEFINE T == {k \in Nat : ~ \E flat : Flattens(seqs, k, flat)}
           k == Min(T)
<1> SUFFICES ASSUME T # {} PROVE FALSE
  OBVIOUS
<1>1. k \in T /\ \A j \in T : k <= j
  BY LeastNatural
<1>2. CASE k = 0
  <2>1. Flattens(seqs, 0, <<>>)
    BY DEF Flattens
  <2> QED
    BY <1>1, <1>2, <2>1
<1>3. CASE k # 0
  <2>0. k \in Nat /\ k - 1 \in Nat /\ k - 1 \notin T
    <3>1. k \in Nat /\ k - 1 \in Nat /\ ~ k <= k - 1
      BY <1>1, <1>3
    <3> QED
      BY <1>1, <3>1
  <2>1. PICK before : Flattens(seqs, k - 1, before)
    BY <2>0
  <2> DEFINE last == IF k = 1 THEN seqs[k] ELSE before[k - 1] \o seqs[k]
             flat == [i \in 1 .. k |-> IF i = k THEN last ELSE before[i]]
  <2> HIDE DEF T, k
  <2>2. ASSUME NEW i \in 1 .. k
        PROVE  flat[i] = IF i = 1 THEN seqs[i] ELSE flat[i - 1] \o seqs[i]
    <3>1. CASE i = k
      <4>1. i # 1 => i - 1 \in 1 .. k /\ i - 1 # k
        BY <2>0
      <4> QED
        BY <3>1, <4>1
    <3>2. CASE i # k
      <4>1. i \in 1 .. (k - 1) /\ (i # 1 => i - 1 \in 1 .. k /\ i - 1 # k)
        BY <2>0, <3>2
      <4>2. before[i] = IF i = 1 THEN seqs[i] ELSE before[i - 1] \o seqs[i]
        BY <2>1, <4>1 DEF Flattens
      <4> QED
        BY <3>2, <4>1, <4>2
    <3> QED
      BY <3>1, <3>2
  <2>3. Flattens(seqs, k, flat)
    <3>1. flat = [i \in 1 .. k |-> flat[i]]
      OBVIOUS
    <3> QED
      BY <2>2, <3>1 DEF Flattens
  <2> QED
    BY <1>1, <2>3 DEF T
<1> QED
  BY <1>2, <1>3

\* Flattening sequences over a set gives one over that set, with everything in it.
LEMMA FlattenProperties ==
    ASSUME NEW S, NEW n \in Nat, NEW seqs \in [1 .. n -> Seq(S)]
    PROVE  /\ FlattenSeq(seqs) \in Seq(S)
           /\ Range(FlattenSeq(seqs)) = UNION {Range(seqs[i]) : i \in 1 .. n}
<1>0. Len(seqs) = n /\ seqs \in Seq(Seq(S))
  <2>1. seqs \in Seq(Seq(S))
    OBVIOUS
  <2> QED
    BY <2>1
<1>1. CASE n = 0
  <2>1. seqs = <<>> /\ FlattenSeq(seqs) = <<>>
    BY <1>0, <1>1 DEF FlattenSeq
  <2>2. 1 .. n = {} /\ Range(<<>>) = {}
    BY <1>1 DEF Range
  <2>3. <<>> \in Seq(S)
    OBVIOUS
  <2> QED
    BY <2>1, <2>2, <2>3
<1>2. CASE n # 0
  <2> DEFINE flat == CHOOSE flat : Flattens(seqs, n, flat)
             All(i) == UNION {Range(seqs[j]) : j \in 1 .. i}
             T == {i \in 1 .. n : ~ (flat[i] \in Seq(S) /\ Range(flat[i]) = All(i))}
  <2>1. Flattens(seqs, n, flat)
    BY FlatExists
  <2>2. FlattenSeq(seqs) = flat[n]
    BY <1>0, <1>2 DEF FlattenSeq, Flattens
  <2>3. \A i \in 1 .. n : flat[i] = IF i = 1 THEN seqs[i] ELSE flat[i - 1] \o seqs[i]
    BY <2>1 DEF Flattens
  <2> HIDE DEF flat
  <2>4. ASSUME T # {} PROVE FALSE
    <3> DEFINE k == Min(T)
    <3>1. k \in T /\ \A j \in T : k <= j
      <4>1. T \in SUBSET Nat
        OBVIOUS
      <4> HIDE DEF T
      <4> QED
        BY <2>4, <4>1, LeastNatural
    <3>2. k \in 1 .. n /\ ~ (flat[k] \in Seq(S) /\ Range(flat[k]) = All(k))
      BY <3>1
    <3> HIDE DEF k
    <3>3. CASE k = 1
      <4>1. All(1) = Range(seqs[1])
        <5>1. 1 .. 1 = {1}
          OBVIOUS
        <5> QED
          BY <5>1
      <4> QED
        BY <2>3, <3>2, <3>3, <4>1
    <3>4. CASE k # 1
      <4>1. k - 1 \in 1 .. n /\ ~ k <= k - 1
        BY <3>2, <3>4
      <4>2. flat[k - 1] \in Seq(S) /\ Range(flat[k - 1]) = All(k - 1)
        BY <3>1, <4>1
      <4>3. flat[k] = flat[k - 1] \o seqs[k] /\ seqs[k] \in Seq(S)
        BY <2>3, <3>2, <3>4
      <4>4. All(k) = All(k - 1) \cup Range(seqs[k])
        <5>1. 1 .. k = (1 .. (k - 1)) \cup {k}
          BY <3>2
        <5> QED
          BY <5>1
      <4>5. flat[k] \in Seq(S) /\ Range(flat[k]) = Range(flat[k - 1]) \cup Range(seqs[k])
        <5>1. flat[k - 1] \o seqs[k] \in Seq(S)
          BY <4>2, <4>3
        <5>2. \A s, t \in Seq(S) : Range(s \o t) = Range(s) \cup Range(t)
          BY RangeConcatenation
        <5> QED
          BY <4>2, <4>3, <5>1, <5>2
      <4> QED
        BY <3>2, <4>2, <4>4, <4>5
    <3> QED
      BY <3>3, <3>4
  <2>5. n \in 1 .. n /\ n \notin T
    <3>1. n \in 1 .. n
      BY <1>2
    <3>2. n \notin T
      <4> HIDE DEF T
      <4> QED
        BY <2>4
    <3> QED
      BY <3>1, <3>2
  <2> QED
    BY <2>2, <2>5
<1> QED
  BY <1>1, <1>2

-----------------------------------------------------------------------------
(* Ranks *)

Rank(S, key, x) == Cardinality({y \in S : key[y] < key[x]})

\* Things in the order of their keys: each has a place of its own and every place is taken.
LEMMA Ranks ==
    ASSUME NEW S, IsFiniteSet(S), NEW key, \A x \in S : key[x] \in Nat,
           \A x, y \in S : key[x] = key[y] => x = y
    PROVE  /\ Cardinality(S) \in Nat
           /\ \A x \in S : Rank(S, key, x) \in 0 .. (Cardinality(S) - 1)
           /\ \A x, y \in S : Rank(S, key, x) = Rank(S, key, y) => x = y
           /\ \A i \in 0 .. (Cardinality(S) - 1) : \E x \in S : Rank(S, key, x) = i
<1> DEFINE Below(x) == {y \in S : key[y] < key[x]}
           rank(x) == Cardinality(Below(x))
           n == Cardinality(S)
<1>a. \A x \in S : Rank(S, key, x) = rank(x)
  BY DEF Rank
<1>0. n \in Nat
  BY FS_CardinalityType
<1>1. ASSUME NEW x \in S
      PROVE  /\ IsFiniteSet(Below(x)) /\ rank(x) \in Nat
             /\ rank(x) < n
  <2>1. Below(x) \in SUBSET S /\ x \notin Below(x) /\ Below(x) # S
    OBVIOUS
  <2>2. IsFiniteSet(Below(x)) /\ rank(x) <= n /\ rank(x) # n
    <3> HIDE DEF Below
    <3> QED
      BY <2>1, FS_Subset
  <2>3. rank(x) \in Nat
    BY <2>2, FS_CardinalityType
  <2> QED
    BY <1>0, <2>2, <2>3
<1>2. ASSUME NEW x \in S, NEW y \in S, key[x] < key[y]
      PROVE  rank(x) < rank(y)
  <2>1. Below(x) \in SUBSET Below(y) /\ x \in Below(y) /\ x \notin Below(x)
    BY <1>2
  <2>2. rank(x) <= rank(y) /\ rank(x) # rank(y)
    <3>1. IsFiniteSet(Below(y))
      BY <1>1
    <3> HIDE DEF Below
    <3> QED
      BY <2>1, <3>1, FS_Subset
  <2>3. rank(x) \in Nat /\ rank(y) \in Nat
    BY <1>1
  <2> HIDE DEF rank
  <2> QED
    BY <2>2, <2>3
<1> HIDE DEF rank
<1>3. ASSUME NEW x \in S, NEW y \in S, rank(x) = rank(y)
      PROVE  x = y
  <2>1. rank(x) \in Nat /\ rank(y) \in Nat /\ key[x] \in Nat /\ key[y] \in Nat
    BY <1>1
  <2>2. ~ key[x] < key[y] /\ ~ key[y] < key[x]
    BY <1>2, <1>3, <2>1
  <2> QED
    BY <2>1, <2>2
<1>4. ASSUME NEW i \in 0 .. (n - 1) PROVE \E x \in S : rank(x) = i
  <2> DEFINE rk == [x \in S |-> rank(x)]
             T == 0 .. (n - 1)
  <2> HIDE DEF n
  <2>1. rk \in Injection(S, T)
    <3>1. rk \in [S -> T]
      <4>1. \A x \in S : rank(x) \in Nat /\ rank(x) < n
        BY <1>1 DEF n
      <4>2. \A x \in S : rank(x) \in T
        BY <1>0, <4>1
      <4> QED
        BY <4>2
    <3> QED
      BY <1>3, <3>1 DEF Injection, IsInjective
  <2>2. IsFiniteSet(T) /\ Cardinality(T) = n
    BY <1>0, FS_Interval
  <2>3. rk \in Surjection(S, T)
    <3> HIDE DEF rk, T
    <3> QED
      BY <2>1, <2>2, FS_Injection DEF n
  <2> QED
    BY <2>3 DEF Surjection
<1>5. \A x \in S : rank(x) \in 0 .. (n - 1)
  <2> SUFFICES ASSUME NEW x \in S PROVE rank(x) \in 0 .. (n - 1)
    OBVIOUS
  <2>1. rank(x) \in Nat /\ rank(x) < n
    BY <1>1
  <2> HIDE DEF n
  <2> QED
    BY <1>0, <2>1
<1> QED
  BY <1>a, <1>0, <1>3, <1>4, <1>5
-----------------------------------------------------------------------------
(* Specs *)

Admitted == {s \in UNION {Specs[a] : a \in Atoms} : validateDatasetFeeds(s)}

AdmittedConfigs == {MapAtomV3ToAtomGeneratorConfig(s) : s \in Admitted}

(***************************************************************************)
(* Every config that pods run, or that is on its way to them, was made of  *)
(* a spec that was admitted.                                               *)
(***************************************************************************)
ConfigsInv ==
    /\ DOMAIN atoms = Atoms /\ \A a \in Atoms : atoms[a] \in Admitted \cup {NoObj}
    /\ DOMAIN kids = Atoms
    /\ \A a \in Atoms : /\ DOMAIN kids[a] = {"config", "service", "strip", "downloads", "routes"}
                        /\ kids[a].config \in AdmittedConfigs \cup {NoObj}
    /\ DOMAIN pods = Atoms /\ \A a \in Atoms : pods[a] \subseteq AdmittedConfigs
    /\ DOMAIN rec = {"pc", "name", "spec", "pend"}
    /\ rec.pc # "idle" => rec.name \in Atoms /\ rec.spec \in Admitted

-----------------------------------------------------------------------------
(* Where configs come from *)

\* A write leaves a child's config alone or replaces it by that of the call's spec.
LEMMA WriteOK ==
    ASSUME ConfigsInv, rec.pc # "idle",
           NEW child \in {"config", "service", "strip", "downloads", "routes"}, NEW content,
           child = "config" => content \in AdmittedConfigs,
           NEW next, DOMAIN next = {"pc", "name", "spec", "pend"},
           next.pc # "idle" => next.name = rec.name /\ next.spec = rec.spec,
           Write(child, content, next)
    PROVE  ConfigsInv'
<1>1. rec.name \in Atoms /\ rec.spec \in Admitted /\ DOMAIN kids = Atoms
  BY DEF ConfigsInv
<1>2. kids' = [kids EXCEPT ![rec.name][child] = content] /\ rec' = next /\ UNCHANGED <<atoms, pods>>
  BY DEF Write
<1>3. DOMAIN kids' = Atoms
  BY <1>1, <1>2
<1>4. ASSUME NEW a \in Atoms
      PROVE  /\ DOMAIN kids'[a] = {"config", "service", "strip", "downloads", "routes"}
             /\ kids'[a].config \in AdmittedConfigs \cup {NoObj}
  <2>1. CASE a = rec.name
    <3>1. kids'[a] = [kids[a] EXCEPT ![child] = content]
      BY <1>1, <1>2, <2>1
    <3>2. DOMAIN kids[a] = {"config", "service", "strip", "downloads", "routes"}
          /\ kids[a].config \in AdmittedConfigs \cup {NoObj}
      BY DEF ConfigsInv
    <3> QED
      BY <3>1, <3>2
  <2>2. CASE a # rec.name
    <3>1. kids'[a] = kids[a]
      BY <1>1, <1>2, <2>2
    <3> QED
      BY <3>1 DEF ConfigsInv
  <2> QED
    BY <2>1, <2>2
<1> QED
  BY <1>1, <1>2, <1>3, <1>4 DEF ConfigsInv

LEMMA ConfigsInit == Init => ConfigsInv
<1> SUFFICES ASSUME Init PROVE ConfigsInv
  OBVIOUS
<1>1. rec.pc = "idle" /\ DOMAIN rec = {"pc", "name", "spec", "pend"}
  BY DEF Init, Idle
<1>2. \A a \in Atoms : /\ DOMAIN kids[a] = {"config", "service", "strip", "downloads", "routes"}
                       /\ kids[a].config = NoObj
  BY DEF Init, NoKids
<1> QED
  BY <1>1, <1>2 DEF Init, ConfigsInv

LEMMA ConfigsNext == ConfigsInv /\ [Next]_vars => ConfigsInv'
<1> SUFFICES ASSUME ConfigsInv, [Next]_vars
             PROVE  ConfigsInv'
  OBVIOUS
<1>0. /\ DOMAIN rec = {"pc", "name", "spec", "pend"}
      /\ \A s \in Admitted : MapAtomV3ToAtomGeneratorConfig(s) \in AdmittedConfigs
  BY DEF ConfigsInv, AdmittedConfigs
<1>1. ASSUME NEW a \in Atoms, NEW s \in Specs[a], Apply(a, s)
      PROVE  ConfigsInv'
  <2>1. s \in Admitted
    BY <1>1 DEF Apply, Admitted
  <2> QED
    BY <1>1, <2>1 DEF Apply, ConfigsInv
<1>2. ASSUME NEW a \in Atoms, Reconcile(a)
      PROVE  ConfigsInv'
  <2>1. /\ DOMAIN rec' = {"pc", "name", "spec", "pend"}
        /\ rec'.name = a /\ rec'.spec = atoms[a]
    BY <1>2 DEF Reconcile
  <2>2. atoms[a] \in Admitted
    BY <1>2 DEF Reconcile, ConfigsInv
  <2> QED
    BY <1>2, <2>1, <2>2 DEF Reconcile, ConfigsInv
<1>3. ASSUME NEW a \in Atoms, StartPod(a)
      PROVE  ConfigsInv'
  <2>1. kids[a].config \in AdmittedConfigs
    BY <1>3 DEF StartPod, ConfigsInv
  <2>2. DOMAIN pods' = Atoms /\ \A b \in Atoms : pods'[b] \subseteq pods[b] \cup {kids[a].config}
    BY <1>3 DEF StartPod, ConfigsInv
  <2>3. \A b \in Atoms : pods'[b] \subseteq AdmittedConfigs
    BY <2>1, <2>2 DEF ConfigsInv
  <2> QED
    BY <1>3, <2>2, <2>3 DEF StartPod, ConfigsInv
<1>4. ASSUME NEW a \in Atoms, StopPod(a)
      PROVE  ConfigsInv'
  <2>1. DOMAIN pods' = Atoms /\ \A b \in Atoms : pods'[b] \subseteq pods[b]
    BY <1>4 DEF StopPod, ConfigsInv
  <2>2. \A b \in Atoms : pods'[b] \subseteq AdmittedConfigs
    BY <2>1 DEF ConfigsInv
  <2> QED
    BY <1>4, <2>1, <2>2 DEF StopPod, ConfigsInv
<1>5. CASE WriteDeployment
  <2>1. rec.spec \in Admitted
    BY <1>5 DEF WriteDeployment, ConfigsInv
  <2> QED
    BY <1>0, <1>5, <2>1, WriteOK DEF WriteDeployment, Goto
<1>6. CASE WriteService
  BY <1>0, <1>6, WriteOK DEF WriteService, Goto
<1>7. CASE WriteStripPrefix
  BY <1>0, <1>7, WriteOK DEF WriteStripPrefix
<1>8. CASE WriteDownloads
  <2>1. PICK prefix \in rec.pend : \E content :
           Write("downloads", content, [rec EXCEPT !.pend = @ \ {prefix}])
    BY <1>8 DEF WriteDownloads
  <2> QED
    BY <1>0, <1>8, <2>1, WriteOK DEF WriteDownloads
<1>9. CASE WriteIngressRoute
  <2>1. DOMAIN Idle = {"pc", "name", "spec", "pend"} /\ Idle.pc = "idle"
    BY DEF Idle
  <2> QED
    BY <1>9, <2>1, WriteOK DEF WriteIngressRoute
<1>10. CASE Stop
  <2>1. DOMAIN rec' = {"pc", "name", "spec", "pend"} /\ rec'.pc = "idle"
    BY <1>10 DEF Stop, Idle
  <2> QED
    BY <1>10, <2>1 DEF Stop, ConfigsInv
<1>11. CASE UNCHANGED vars
  BY <1>11 DEF vars, ConfigsInv
<1> QED
  BY <1>1, <1>2, <1>3, <1>4, <1>5, <1>6, <1>7, <1>8, <1>9, <1>10, <1>11 DEF Next

LEMMA ConfigsAdmitted == Spec => []ConfigsInv
  BY ConfigsInit, ConfigsNext, PTL DEF Spec

-----------------------------------------------------------------------------
(* Ids *)

LEMMA SeqOfMore ==
    ASSUME NEW S, NEW T, NEW q \in Seq(S), S \subseteq T
    PROVE  q \in Seq(T)
OBVIOUS

\* Names differ if the files called after them do.
LEMMA FilesDiffer ==
    ASSUME NEW u, "path" \in DOMAIN u, u.path \in Seq(Range(u.path)),
           NEW m, m \in Seq(Range(m)), NEW n, n \in Seq(Range(n)),
           JoinPath(u, <<FeedXML(m)>>) = JoinPath(u, <<FeedXML(n)>>)
    PROVE  m = n
<1>1. u.path \o <<FeedXML(m)>> = u.path \o <<FeedXML(n)>>
  <2>1. /\ JoinPath(u, <<FeedXML(m)>>).path = u.path \o <<FeedXML(m)>>
        /\ JoinPath(u, <<FeedXML(n)>>).path = u.path \o <<FeedXML(n)>>
    BY DEF JoinPath
  <2> QED
    BY <2>1
<1> DEFINE S == Range(u.path) \cup {FeedXML(m), FeedXML(n)}
<1>2. u.path \in Seq(S)
  BY SeqOfMore
<1>3. FeedXML(m) = FeedXML(n)
  <2>1. FeedXML(m) \in S /\ FeedXML(n) \in S
    OBVIOUS
  <2> HIDE DEF S
  <2>2. /\ Append(u.path, FeedXML(m)) = u.path \o <<FeedXML(m)>>
        /\ Append(u.path, FeedXML(n)) = u.path \o <<FeedXML(n)>>
    BY <1>2, <2>1, AppendIsConcat
  <2> QED
    BY <1>1, <1>2, <2>1, <2>2, AppendInjective
<1> DEFINE T == Range(m) \cup Range(n) \cup {".xml"}
<1>4. m \in Seq(T) /\ n \in Seq(T)
  BY SeqOfMore
<1>5. ".xml" \in T
  OBVIOUS
<1> HIDE DEF T
<1> QED
  BY <1>3, <1>4, <1>5, AppendInjective DEF FeedXML

\* The items of a concatenation.
LEMMA ConcatAt ==
    ASSUME NEW S, NEW s1 \in Seq(S), NEW s2 \in Seq(S)
    PROVE  \A i \in 1 .. Len(s1) + Len(s2) :
               (s1 \o s2)[i] = IF i <= Len(s1) THEN s1[i] ELSE s2[i - Len(s1)]
OBVIOUS

\* What follows a single item is moved by one.
LEMMA Prefixed ==
    ASSUME NEW S, NEW s1 \in Seq(S), NEW s2 \in Seq(S), Len(s1) = 1
    PROVE  /\ s1 \o s2 \in Seq(S) /\ Len(s1 \o s2) = Len(s2) + 1
           /\ (s1 \o s2)[1] = s1[1]
           /\ \A i \in 1 .. Len(s2) : (s1 \o s2)[i + 1] = s2[i]
<1> DEFINE all == s1 \o s2
           m == Len(s1)
           n == Len(s2)
<1>1. all \in Seq(S) /\ Len(all) = m + n
  BY ConcatProperties
<1>2. \A i \in 1 .. m + n : all[i] = IF i <= m THEN s1[i] ELSE s2[i - m]
  BY ConcatAt
<1>3. m = 1 /\ n \in Nat
  OBVIOUS
<1> HIDE DEF all, m, n
<1>4. all[1] = s1[1]
  BY <1>2, <1>3
<1>5. ASSUME NEW i \in 1 .. n PROVE all[i + 1] = s2[i]
  <2>1. i + 1 \in 1 .. m + n /\ ~ i + 1 <= m /\ (i + 1) - m = i
    BY <1>3
  <2> QED
    BY <1>2, <2>1
<1>6. Len(all) = n + 1
  BY <1>1, <1>3
<1> QED
  BY <1>1, <1>4, <1>5, <1>6 DEF all, n

\* The parts of a config.
LEMMA ConfigParts ==
    ASSUME NEW s \in Admitted
    PROVE  LET config == MapAtomV3ToAtomGeneratorConfig(s)
           IN  /\ DOMAIN config = 1 .. (Len(s.feeds) + 1)
               /\ config[1] = ServiceFeed(s)
               /\ \A i \in 1 .. Len(s.feeds) : config[i + 1] = DatasetFeed(s, s.feeds[i])
<1> DEFINE bodies == [f \in DOMAIN s.feeds |-> DatasetFeed(s, s.feeds[f])]
           first == <<ServiceFeed(s)>>
           S == {DatasetFeed(s, s.feeds[f]) : f \in DOMAIN s.feeds} \cup {ServiceFeed(s)}
<1>1. Len(s.feeds) \in Nat /\ DOMAIN s.feeds = 1 .. Len(s.feeds)
  BY SequencesAssumption DEF Admitted, IsURL, URL, IsSeq
<1>2. bodies \in [1 .. Len(s.feeds) -> S]
  BY <1>1
<1>3. bodies \in Seq(S) /\ Len(bodies) = Len(s.feeds)
      /\ \A i \in 1 .. Len(s.feeds) : bodies[i] = DatasetFeed(s, s.feeds[i])
  BY <1>1, <1>2
<1>4. first \in Seq(S) /\ Len(first) = 1 /\ first[1] = ServiceFeed(s)
  OBVIOUS
<1>5. MapAtomV3ToAtomGeneratorConfig(s) = first \o bodies
  BY DEF MapAtomV3ToAtomGeneratorConfig
<1> HIDE DEF bodies, first, S
<1>6. /\ first \o bodies \in Seq(S) /\ Len(first \o bodies) = Len(s.feeds) + 1
      /\ (first \o bodies)[1] = ServiceFeed(s)
      /\ \A i \in 1 .. Len(s.feeds) : (first \o bodies)[i + 1] = DatasetFeed(s, s.feeds[i])
  BY <1>3, <1>4, Prefixed
<1> QED
  BY <1>1, <1>5, <1>6

LEMMA EntryIds ==
    ASSUME NEW s, NEW feed
    PROVE  /\ DOMAIN getDatasetEntries(s, feed) = DOMAIN feed.entries
           /\ \A j \in DOMAIN feed.entries :
                 getDatasetEntries(s, feed)[j].id = JoinPath(s.base, <<FeedXML(feed.entries[j].name)>>)
BY DEF getDatasetEntries

LEMMA ServiceEntryIds ==
    ASSUME NEW s
    PROVE  /\ DOMAIN getServiceEntries(s) = DOMAIN s.feeds
           /\ \A j \in DOMAIN s.feeds :
                 getServiceEntries(s)[j].id = JoinPath(s.base, <<FeedXML(s.feeds[j].name)>>)
BY DEF getServiceEntries, FeedURL

LEMMA FeedParts ==
    ASSUME NEW s, NEW feed
    PROVE  /\ DatasetFeed(s, feed).id = JoinPath(s.base, <<FeedXML(feed.name)>>)
           /\ DatasetFeed(s, feed).entries = getDatasetEntries(s, feed)
BY DEF DatasetFeed, FeedURL

\* Things that are given the ids of files have ids of their own if their names differ.
LEMMA IdsOfNames ==
    ASSUME NEW u, "path" \in DOMAIN u, u.path \in Seq(Range(u.path)),
           NEW named, Distinct(named), \A n \in Range(named) : n.name \in Seq(Range(n.name)),
           NEW things, DOMAIN things = DOMAIN named,
           \A j \in DOMAIN named : things[j].id = JoinPath(u, <<FeedXML(named[j].name)>>)
    PROVE  DifferentIds(things)
<1> SUFFICES ASSUME NEW j \in DOMAIN named, NEW k \in DOMAIN named,
                    things[j].id = things[k].id
             PROVE  j = k
  BY DEF DifferentIds
<1>1. JoinPath(u, <<FeedXML(named[j].name)>>) = JoinPath(u, <<FeedXML(named[k].name)>>)
  OBVIOUS
<1>2. named[j].name \in Seq(Range(named[j].name)) /\ named[k].name \in Seq(Range(named[k].name))
  BY DEF Range
<1>3. named[j].name = named[k].name
  BY <1>1, <1>2, FilesDiffer
<1> QED
  BY <1>3 DEF Distinct

\* The ids that the mapper makes of technical names (mapper.go:71, 93, 257) differ because
\* validateDatasetFeeds admits no two feeds, and no two entries of a feed, of one name.
THEOREM AdmittedIdsDiffer == Spec => []IdsDiffer
<1>1. ASSUME NEW s \in Admitted,
             NEW config, config = MapAtomV3ToAtomGeneratorConfig(s)
      PROVE  /\ (\A i \in 2 .. Len(config) : config[i].id # config[1].id) => DifferentIds(config)
             /\ \A feed \in Range(config) : DifferentIds(feed.entries)
  <2>1. /\ "path" \in DOMAIN s.base /\ s.base.path \in Seq(Range(s.base.path))
        /\ Len(s.feeds) \in Nat /\ DOMAIN s.feeds = 1 .. Len(s.feeds)
        /\ \A f \in Range(s.feeds) :
              /\ f.name \in Seq(Range(f.name))
              /\ \A e \in Range(f.entries) : e.name \in Seq(Range(e.name))
        /\ validateDatasetFeeds(s)
    <3>1. PICK a \in Atoms : s \in Specs[a]
      BY DEF Admitted
    <3>2. IsURL(s.base) /\ IsSeq(s.feeds) /\ validateDatasetFeeds(s)
      BY <3>1, SequencesAssumption DEF Admitted
    <3>3. "path" \in DOMAIN s.base /\ s.base.path \in Seq(Range(s.base.path))
      BY <3>2 DEF IsURL, URL, IsSeq
    <3>4. ASSUME NEW f \in Range(s.feeds)
          PROVE  f.name \in Seq(Range(f.name)) /\ \A e \in Range(f.entries) : e.name \in Seq(Range(e.name))
      BY <3>1, SequencesAssumption DEF IsSeq
    <3> QED
      BY <3>2, <3>3, <3>4 DEF IsSeq
  <2>2. /\ DOMAIN config = 1 .. (Len(s.feeds) + 1)
        /\ config[1] = ServiceFeed(s)
        /\ \A i \in 1 .. Len(s.feeds) : config[i + 1] = DatasetFeed(s, s.feeds[i])
    BY <1>1, ConfigParts
  <2>3. \A i \in DOMAIN s.feeds : s.feeds[i] \in Range(s.feeds)
    BY DEF Range
  <2>4. \A i \in 1 .. Len(s.feeds) : /\ config[i + 1].id = JoinPath(s.base, <<FeedXML(s.feeds[i].name)>>)
                                     /\ config[i + 1].entries = getDatasetEntries(s, s.feeds[i])
    <3> SUFFICES ASSUME NEW i \in 1 .. Len(s.feeds)
                 PROVE  /\ config[i + 1].id = JoinPath(s.base, <<FeedXML(s.feeds[i].name)>>)
                        /\ config[i + 1].entries = getDatasetEntries(s, s.feeds[i])
      OBVIOUS
    <3>1. config[i + 1] = DatasetFeed(s, s.feeds[i])
      BY <2>2
    <3> QED
      BY <3>1, FeedParts
  <2>5. Distinct(s.feeds) /\ \A f \in Range(s.feeds) : Distinct(f.entries)
    BY <2>1 DEF validateDatasetFeeds
  <2>6. ASSUME \A i \in 2 .. Len(config) : config[i].id # config[1].id
        PROVE  DifferentIds(config)
    <3> DEFINE bodies == [i \in DOMAIN s.feeds |-> config[i + 1]]
    <3>0. DOMAIN bodies = DOMAIN s.feeds /\ \A i \in DOMAIN s.feeds : bodies[i] = config[i + 1]
      OBVIOUS
    <3>1. Len(config) = Len(s.feeds) + 1
      BY <2>1, <2>2
    <3>2. DifferentIds(bodies)
      <4>1. \A i \in DOMAIN s.feeds : bodies[i].id = JoinPath(s.base, <<FeedXML(s.feeds[i].name)>>)
        BY <2>1, <2>4
      <4> HIDE DEF bodies
      <4>2. \A n \in Range(s.feeds) : n.name \in Seq(Range(n.name))
        BY <2>1
      <4> QED
        <5>1. DOMAIN bodies = DOMAIN s.feeds
          BY <3>0
        <5>2. "path" \in DOMAIN s.base /\ s.base.path \in Seq(Range(s.base.path)) /\ Distinct(s.feeds)
          BY <2>1, <2>5
        <5> QED
          BY <4>1, <4>2, <5>1, <5>2, IdsOfNames
    <3> HIDE DEF bodies
    <3> SUFFICES ASSUME NEW i \in DOMAIN config, NEW j \in DOMAIN config,
                        config[i].id = config[j].id
                 PROVE  i = j
      BY DEF DifferentIds
    <3>3. CASE i = 1 \/ j = 1
      BY <2>1, <2>2, <2>6, <3>1, <3>3
    <3>4. CASE i # 1 /\ j # 1
      <4>1. /\ i - 1 \in DOMAIN s.feeds /\ (i - 1) + 1 = i
            /\ j - 1 \in DOMAIN s.feeds /\ (j - 1) + 1 = j
        BY <2>1, <2>2, <3>4
      <4>2. bodies[i - 1] = config[i] /\ bodies[j - 1] = config[j]
        BY <3>0, <4>1
      <4>3. i - 1 = j - 1
        BY <3>0, <3>2, <4>1, <4>2 DEF DifferentIds
      <4> QED
        BY <4>1, <4>3
    <3> QED
      BY <3>3, <3>4
  <2>7. DifferentIds(config[1].entries)
    <3>1. config[1].entries = getServiceEntries(s)
      BY <2>2 DEF ServiceFeed
    <3>2. /\ DOMAIN getServiceEntries(s) = DOMAIN s.feeds
          /\ \A j \in DOMAIN s.feeds :
                getServiceEntries(s)[j].id = JoinPath(s.base, <<FeedXML(s.feeds[j].name)>>)
      BY ServiceEntryIds
    <3> HIDE DEF getServiceEntries
    <3>3. \A n \in Range(s.feeds) : n.name \in Seq(Range(n.name))
      BY <2>1
    <3>4. DifferentIds(getServiceEntries(s))
      BY <2>1, <2>5, <3>2, <3>3, IdsOfNames
    <3> QED
      BY <3>1, <3>4
  <2>8. ASSUME NEW i \in DOMAIN s.feeds PROVE DifferentIds(config[i + 1].entries)
    <3>1. config[i + 1].entries = getDatasetEntries(s, s.feeds[i])
      BY <2>1, <2>4
    <3>2. /\ Distinct(s.feeds[i].entries)
          /\ \A n \in Range(s.feeds[i].entries) : n.name \in Seq(Range(n.name))
      BY <2>1, <2>3, <2>5
    <3>3. /\ DOMAIN getDatasetEntries(s, s.feeds[i]) = DOMAIN s.feeds[i].entries
          /\ \A j \in DOMAIN s.feeds[i].entries :
                getDatasetEntries(s, s.feeds[i])[j].id
                  = JoinPath(s.base, <<FeedXML(s.feeds[i].entries[j].name)>>)
      BY EntryIds
    <3>4. DifferentIds(getDatasetEntries(s, s.feeds[i]))
      BY <2>1, <3>2, <3>3, IdsOfNames
    <3> QED
      BY <3>1, <3>4
  <2>9. ASSUME NEW f \in Range(config) PROVE DifferentIds(f.entries)
    <3>1. PICK i \in DOMAIN config : f = config[i]
      BY <2>9 DEF Range
    <3>2. CASE i = 1
      BY <2>7, <3>1, <3>2
    <3>3. CASE i # 1
      <4>1. i - 1 \in DOMAIN s.feeds /\ (i - 1) + 1 = i
        BY <2>1, <2>2, <3>3
      <4> QED
        BY <2>8, <3>1, <4>1
    <3> QED
      BY <3>2, <3>3
  <2> QED
    BY <2>6, <2>9
<1>2. ConfigsInv => IdsDiffer
  <2> SUFFICES ASSUME ConfigsInv, NEW config \in Running
               PROVE  /\ (\A i \in 2 .. Len(config) : config[i].id # config[1].id) => DifferentIds(config)
                      /\ \A feed \in Range(config) : DifferentIds(feed.entries)
    BY DEF IdsDiffer
  <2>1. config \in AdmittedConfigs
    BY DEF Running, ConfigsInv
  <2> QED
    BY <1>1, <2>1 DEF AdmittedConfigs
<1> QED
  BY <1>2, ConfigsAdmitted, PTL
-----------------------------------------------------------------------------
(* Categories *)

\* A sequence without repetition has as many elements as places.
LEMMA EachOnce ==
    ASSUME NEW n \in Nat, NEW q, DOMAIN q = 1 .. n, q = [i \in 1 .. n |-> q[i]],
           \A i, j \in 1 .. n : q[i] = q[j] => i = j
    PROVE  Cardinality(Range(q)) = n
<1>1. q \in Surjection(1 .. n, Range(q))
  BY DEF Surjection, Range
<1>2. q \in Bijection(1 .. n, Range(q))
  BY <1>1 DEF Surjection, Bijection, Injection, IsInjective
<1> QED
  BY <1>2, FS_CountingElements DEF ExistsBijection

\* Categories has the srs of each entry, and has it once.
LEMMA CategoriesOf ==
    ASSUME NEW feed, IsSeq(feed.entries)
    PROVE  /\ Range(Categories(feed)) = {feed.entries[e].srs : e \in DOMAIN feed.entries}
           /\ Cardinality(Range(Categories(feed))) = Len(Categories(feed))
<1> DEFINE n == Len(feed.entries)
           srs(e) == feed.entries[e].srs
           firsts == {e \in 1 .. n : \A d \in 1 .. (e - 1) : srs(d) # srs(e)}
           before(x) == Cardinality({d \in firsts : d < x})
           nth(i) == CHOOSE e \in firsts : before(e) = i - 1
           k == Cardinality(firsts)
           q == [i \in 1 .. k |-> srs(nth(i))]
           key == [e \in firsts |-> e]
<1>1. n \in Nat /\ DOMAIN feed.entries = 1 .. n
  BY DEF IsSeq
<1>2. Categories(feed) = q
  BY <1>1 DEF Categories
<1>3. firsts \subseteq 1 .. n /\ IsFiniteSet(firsts)
  <2>1. firsts \in SUBSET (1 .. n)
    OBVIOUS
  <2>2. IsFiniteSet(1 .. n)
    BY <1>1, FS_Interval
  <2> HIDE DEF firsts
  <2> QED
    BY <2>1, <2>2, FS_Subset
<1>4. /\ k \in Nat
      /\ \A x \in firsts : before(x) \in 0 .. (k - 1)
      /\ \A x, y \in firsts : before(x) = before(y) => x = y
      /\ \A i \in 0 .. (k - 1) : \E x \in firsts : before(x) = i
  <2>1. ASSUME NEW x \in firsts PROVE before(x) = Rank(firsts, key, x)
    <3>1. {d \in firsts : d < x} = {y \in firsts : key[y] < key[x]}
      <4> HIDE DEF firsts
      <4> QED
        OBVIOUS
    <3> HIDE DEF firsts, key
    <3> QED
      BY <3>1 DEF Rank
  <2>2. (\A x \in firsts : key[x] \in Nat) /\ (\A x, y \in firsts : key[x] = key[y] => x = y)
    <3> HIDE DEF firsts
    <3> QED
      BY <1>1, <1>3
  <2> HIDE DEF firsts, key, before, nth, q
  <2>3. /\ Cardinality(firsts) \in Nat
        /\ \A x \in firsts : Rank(firsts, key, x) \in 0 .. (Cardinality(firsts) - 1)
        /\ \A x, y \in firsts : Rank(firsts, key, x) = Rank(firsts, key, y) => x = y
        /\ \A i \in 0 .. (Cardinality(firsts) - 1) : \E x \in firsts : Rank(firsts, key, x) = i
    <3>1. IsFiniteSet(firsts)
      BY <1>3
    <3> HIDE DEF k, n, srs
    <3> QED
      BY <2>2, <3>1, Ranks
  <2> QED
    BY <2>1, <2>3
<1>5. ASSUME NEW i \in 1 .. k PROVE nth(i) \in firsts /\ before(nth(i)) = i - 1
  <2> HIDE DEF firsts, before, k
  <2>1. i - 1 \in 0 .. (k - 1)
    BY <1>4
  <2>2. \E x \in firsts : before(x) = i - 1
    BY <1>4, <2>1
  <2> QED
    BY <2>2
<1>6. ASSUME NEW e \in firsts, NEW d \in firsts, srs(e) = srs(d) PROVE e = d
  <2>1. e \in 1 .. n /\ d \in 1 .. n /\ n \in Nat
    BY <1>1
  <2>2. ~ d \in 1 .. (e - 1) /\ ~ e \in 1 .. (d - 1)
    BY <1>6
  <2> HIDE DEF firsts, n
  <2> QED
    BY <2>1, <2>2
<1>7. ASSUME NEW e \in 1 .. n PROVE \E d \in firsts : srs(d) = srs(e)
  <2> DEFINE T == {d \in 1 .. n : srs(d) = srs(e)}
             m == Min(T)
  <2>1. T \in SUBSET Nat /\ T # {}
    BY <1>1
  <2>2. m \in T /\ \A y \in T : m <= y
    <3> HIDE DEF T
    <3> QED
      BY <2>1, LeastNatural
  <2> HIDE DEF m
  <2>3. \A d \in 1 .. (m - 1) : d \in 1 .. n /\ ~ m <= d
    BY <1>1, <2>2
  <2>4. \A d \in 1 .. (m - 1) : srs(d) # srs(m)
    BY <2>2, <2>3
  <2> QED
    BY <2>2, <2>4
<1> HIDE DEF firsts, k, before
<1>8. \A i \in 1 .. k : q[i] = srs(nth(i))
  OBVIOUS
<1>9. ASSUME NEW i \in 1 .. k, NEW j \in 1 .. k, q[i] = q[j] PROVE i = j
  <2>1. nth(i) = nth(j)
    <3>1. nth(i) \in firsts /\ nth(j) \in firsts
      BY <1>5
    <3>2. srs(nth(i)) = srs(nth(j))
      BY <1>8, <1>9
    <3> HIDE DEF nth
    <3> QED
      BY <1>6, <3>1, <3>2
  <2>2. before(nth(i)) = i - 1 /\ before(nth(j)) = j - 1
    BY <1>5
  <2> HIDE DEF nth
  <2> QED
    BY <1>4, <2>1, <2>2
<1>10. ASSUME NEW e \in 1 .. n PROVE \E i \in 1 .. k : q[i] = srs(e)
  <2>1. PICK d \in firsts : srs(d) = srs(e)
    BY <1>7
  <2>2. before(d) \in 0 .. (k - 1)
    BY <1>4
  <2>3. PICK i \in 1 .. k : i = before(d) + 1
    BY <1>4, <2>2
  <2>4. before(d) = i - 1
    BY <2>2, <2>3
  <2>5. nth(i) \in firsts /\ before(nth(i)) = before(d)
    BY <1>5, <2>4
  <2>6. nth(i) = d
    <3> HIDE DEF nth
    <3> QED
      BY <1>4, <2>5
  <2> QED
    BY <1>8, <2>1, <2>6
<1>11. ASSUME NEW i \in 1 .. k PROVE \E e \in 1 .. n : q[i] = srs(e)
  <2>1. nth(i) \in 1 .. n
    BY <1>3, <1>5
  <2> QED
    BY <1>8, <2>1
<1>12. DOMAIN q = 1 .. k /\ Len(q) = k /\ q = [i \in 1 .. k |-> q[i]]
  <2>1. DOMAIN q = 1 .. k /\ q = [i \in 1 .. k |-> q[i]]
    OBVIOUS
  <2> QED
    BY <1>4, <2>1
<1> HIDE DEF q
<1>13. Cardinality(Range(q)) = k
  BY <1>4, <1>9, <1>12, EachOnce
<1>14. Range(q) = {srs(e) : e \in 1 .. n}
  <2>1. Range(q) = {q[i] : i \in 1 .. k}
    BY <1>12 DEF Range
  <2> QED
    BY <1>10, <1>11, <2>1
<1> QED
  BY <1>1, <1>2, <1>12, <1>13, <1>14

\* What getServiceEntries (mapper.go:62) says of a dataset feed, its id and the categories
\* gathered of its entries, is what getDatasetEntries (mapper.go:245) publishes there.
THEOREM EntriesDescribe == Spec => []EntriesDescribeFeeds
<1>1. ASSUME NEW s \in Admitted,
             NEW config, config = MapAtomV3ToAtomGeneratorConfig(s)
      PROVE  /\ Len(config[1].entries) = Len(config) - 1
             /\ \A i \in 1 .. (Len(config) - 1) :
                   LET entry == config[1].entries[i]
                       feed  == config[i + 1]
                   IN  /\ entry.id = feed.id
                       /\ Range(entry.categories) = UNION {Range(e.categories) : e \in Range(feed.entries)}
                       /\ Cardinality(Range(entry.categories)) = Len(entry.categories)
  <2>1. /\ Len(s.feeds) \in Nat /\ DOMAIN s.feeds = 1 .. Len(s.feeds)
        /\ \A f \in Range(s.feeds) : IsSeq(f.entries)
    BY SequencesAssumption DEF Admitted, IsSeq
  <2>2. /\ DOMAIN config = 1 .. (Len(s.feeds) + 1)
        /\ config[1] = ServiceFeed(s)
        /\ \A i \in 1 .. Len(s.feeds) : config[i + 1] = DatasetFeed(s, s.feeds[i])
    BY <1>1, ConfigParts
  <2>3. Len(config) = Len(s.feeds) + 1 /\ Len(config) - 1 = Len(s.feeds)
    BY <2>1, <2>2
  <2>4. config[1].entries = getServiceEntries(s)
    BY <2>2 DEF ServiceFeed
  <2>5. Len(getServiceEntries(s)) = Len(s.feeds)
    BY <2>1 DEF getServiceEntries
  <2>6. ASSUME NEW i \in 1 .. Len(s.feeds)
        PROVE  /\ getServiceEntries(s)[i].id = DatasetFeed(s, s.feeds[i]).id
               /\ getServiceEntries(s)[i].categories = Categories(s.feeds[i])
    BY <2>1 DEF getServiceEntries, DatasetFeed
  <2>7. ASSUME NEW feed, IsSeq(feed.entries)
        PROVE  UNION {Range(e.categories) : e \in Range(DatasetFeed(s, feed).entries)}
                  = {feed.entries[e].srs : e \in DOMAIN feed.entries}
    <3> DEFINE entries == getDatasetEntries(s, feed)
    <3>1. DatasetFeed(s, feed).entries = entries
      BY FeedParts
    <3>2. DOMAIN entries = DOMAIN feed.entries
          /\ \A e \in DOMAIN feed.entries : entries[e].categories = <<feed.entries[e].srs>>
      BY DEF getDatasetEntries
    <3> HIDE DEF entries
    <3>3. \A x : Range(<<x>>) = {x}
      <4> SUFFICES ASSUME NEW x PROVE Range(<<x>>) = {x}
        OBVIOUS
      <4>1. DOMAIN <<x>> = {1} /\ <<x>>[1] = x
        OBVIOUS
      <4> QED
        BY <4>1 DEF Range
    <3>4. \A e \in DOMAIN entries : Range(entries[e].categories) = {feed.entries[e].srs}
      BY <3>2, <3>3
    <3> QED
      BY <3>1, <3>2, <3>4 DEF Range
  <2> SUFFICES ASSUME NEW i \in 1 .. Len(s.feeds)
               PROVE  LET entry == config[1].entries[i]
                          feed  == config[i + 1]
                      IN  /\ entry.id = feed.id
                          /\ Range(entry.categories) = UNION {Range(e.categories) : e \in Range(feed.entries)}
                          /\ Cardinality(Range(entry.categories)) = Len(entry.categories)
    BY <2>3, <2>4, <2>5
  <2>8. s.feeds[i] \in Range(s.feeds)
    BY <2>1 DEF Range
  <2>9. IsSeq(s.feeds[i].entries)
    BY <2>1, <2>8
  <2>10. /\ config[1].entries[i].id = config[i + 1].id
         /\ config[1].entries[i].categories = Categories(s.feeds[i])
         /\ config[i + 1].entries = DatasetFeed(s, s.feeds[i]).entries
    BY <2>2, <2>4, <2>6
  <2>11. /\ Range(Categories(s.feeds[i])) = {s.feeds[i].entries[e].srs : e \in DOMAIN s.feeds[i].entries}
         /\ Cardinality(Range(Categories(s.feeds[i]))) = Len(Categories(s.feeds[i]))
    BY <2>9, CategoriesOf
  <2>12. UNION {Range(e.categories) : e \in Range(config[i + 1].entries)} = Range(Categories(s.feeds[i]))
    BY <2>7, <2>9, <2>10, <2>11
  <2> QED
    BY <2>10, <2>11, <2>12
<1>2. ConfigsInv => EntriesDescribeFeeds
  <2> SUFFICES ASSUME ConfigsInv, NEW config \in Running
               PROVE  /\ Len(config[1].entries) = Len(config) - 1
                      /\ \A i \in 1 .. (Len(config) - 1) :
                            LET entry == config[1].entries[i]
                                feed  == config[i + 1]
                            IN  /\ entry.id = feed.id
                                /\ Range(entry.categories) = UNION {Range(e.categories) : e \in Range(feed.entries)}
                                /\ Cardinality(Range(entry.categories)) = Len(entry.categories)
    BY DEF EntriesDescribeFeeds
  <2>1. config \in AdmittedConfigs
    BY DEF Running, ConfigsInv
  <2> QED
    BY <1>1, <2>1 DEF AdmittedConfigs
<1> QED
  BY <1>2, ConfigsAdmitted, PTL
-----------------------------------------------------------------------------
(* Download links *)

\* The links of all entries of all feeds.
LinksIn(s) == UNION {UNION {Range(e.links) : e \in Range(f.entries)} : f \in Range(s.feeds)}

LEMMA LinksFlat ==
    ASSUME NEW a \in Atoms, NEW s \in Specs[a]
    PROVE  /\ GetDownloadLinks(s) \in Seq(LinksIn(s))
           /\ Range(GetDownloadLinks(s)) = LinksIn(s)
<1> DEFINE InFeed(f) == UNION {Range(e.links) : e \in Range(f.entries)}
           flat(f) == FlattenSeq([e \in DOMAIN f.entries |-> f.entries[e].links])
           S == LinksIn(s)
<1>1. Len(s.feeds) \in Nat /\ DOMAIN s.feeds = 1 .. Len(s.feeds)
  <2>1. IsSeq(s.feeds)
    BY SequencesAssumption
  <2> QED
    BY <2>1 DEF IsSeq
<1>2. ASSUME NEW i \in DOMAIN s.feeds
      PROVE  flat(s.feeds[i]) \in Seq(S) /\ Range(flat(s.feeds[i])) = InFeed(s.feeds[i])
  <2> DEFINE f == s.feeds[i]
             n == Len(f.entries)
             lists == [e \in DOMAIN f.entries |-> f.entries[e].links]
  <2>0. f \in Range(s.feeds)
    BY DEF Range
  <2> HIDE DEF f
  <2>1. IsSeq(f.entries) /\ \A e \in Range(f.entries) : IsSeq(e.links)
    BY <2>0, SequencesAssumption
  <2>2. n \in Nat /\ DOMAIN f.entries = 1 .. n
    BY <2>1 DEF IsSeq
  <2>3. \A e \in 1 .. n : f.entries[e] \in Range(f.entries)
    BY <2>2 DEF Range
  <2>4. lists = [e \in 1 .. n |-> lists[e]] /\ \A e \in 1 .. n : lists[e] = f.entries[e].links
    BY <2>2
  <2>5. ASSUME NEW e \in 1 .. n PROVE lists[e] \in Seq(InFeed(f))
    <3>1. lists[e] \in Seq(Range(lists[e])) /\ lists[e] = f.entries[e].links
      BY <2>1, <2>3, <2>4 DEF IsSeq
    <3>2. Range(lists[e]) \subseteq InFeed(f)
      BY <2>3, <3>1
    <3> QED
      BY <3>1, <3>2, SeqOfMore
  <2>6. InFeed(f) = UNION {Range(lists[e]) : e \in 1 .. n}
    <3>1. \A e \in 1 .. n : f.entries[e] \in Range(f.entries) /\ lists[e] = f.entries[e].links
      BY <2>3, <2>4
    <3>2. \A x \in Range(f.entries) : \E e \in 1 .. n : x = f.entries[e] /\ lists[e] = x.links
      BY <2>2, <3>1 DEF Range
    <3> HIDE DEF lists, f, n
    <3>3. InFeed(f) \subseteq UNION {Range(lists[e]) : e \in 1 .. n}
      BY <3>2
    <3>4. UNION {Range(lists[e]) : e \in 1 .. n} \subseteq InFeed(f)
      BY <3>1
    <3> QED
      BY <3>3, <3>4
  <2>7. InFeed(f) \subseteq S
    BY <2>0 DEF LinksIn
  <2> HIDE DEF lists, n, InFeed, S
  <2>8. FlattenSeq(lists) \in Seq(InFeed(f)) /\ Range(FlattenSeq(lists)) = InFeed(f)
    <3>1. lists \in [1 .. n -> Seq(InFeed(f))]
      BY <2>4, <2>5
    <3> QED
      BY <2>2, <2>6, <3>1, FlattenProperties
  <2>9. FlattenSeq(lists) \in Seq(S)
    BY <2>7, <2>8, SeqOfMore
  <2> QED
    BY <2>8, <2>9 DEF lists, f
<1> DEFINE seqs == [i \in DOMAIN s.feeds |-> flat(s.feeds[i])]
<1>3. /\ seqs = [i \in 1 .. Len(s.feeds) |-> seqs[i]]
      /\ \A i \in 1 .. Len(s.feeds) : seqs[i] = flat(s.feeds[i])
  BY <1>1
<1>4. \A i \in 1 .. Len(s.feeds) : seqs[i] \in Seq(S) /\ Range(seqs[i]) = InFeed(s.feeds[i])
  BY <1>1, <1>2, <1>3
<1>5. GetDownloadLinks(s) = FlattenSeq(seqs)
  BY DEF GetDownloadLinks
<1>6. S = UNION {InFeed(s.feeds[i]) : i \in 1 .. Len(s.feeds)}
  BY <1>1 DEF Range, LinksIn
<1>7. UNION {Range(seqs[i]) : i \in 1 .. Len(s.feeds)} = S
  BY <1>4, <1>6
<1> DEFINE k == Len(s.feeds)
<1>8. FlattenSeq(seqs) \in Seq(S) /\ Range(FlattenSeq(seqs)) = UNION {Range(seqs[i]) : i \in 1 .. Len(s.feeds)}
  <2>1. k \in Nat /\ seqs \in [1 .. k -> Seq(S)]
    BY <1>1, <1>2
  <2> HIDE DEF seqs, S, k
  <2>2. FlattenSeq(seqs) \in Seq(S) /\ Range(FlattenSeq(seqs)) = UNION {Range(seqs[i]) : i \in 1 .. k}
    BY <2>1, FlattenProperties
  <2> QED
    BY <2>2 DEF k
<1> HIDE DEF seqs, S
<1> QED
  BY <1>5, <1>7, <1>8 DEF S

-----------------------------------------------------------------------------
(* Relations of downloads *)

\* The links of an entry that name no relation share one: it is section if there are
\* several of them.
LEMMA RelsOfEntry ==
    ASSUME NEW s, NEW feed, NEW j \in DOMAIN feed.entries,
           IsSeq(feed.entries[j].links),
           \A i \in DOMAIN feed.entries[j].links :
              feed.entries[j].links[i].rel \notin {"alternate", "section"}
    PROVE  LET e == getDatasetEntries(s, feed)[j]
           IN  /\ RelCount(e, "alternate") <= 1
               /\ RelCount(e, "section") # 1
               /\ RelCount(e, "alternate") = 0 \/ RelCount(e, "section") = 0
<1> DEFINE links == feed.entries[j].links
           c == getEmptyRelCount(feed.entries[j])
           e == getDatasetEntries(s, feed)[j]
           N == {i \in DOMAIN links : links[i].rel = None}
           With(rel) == {i \in DOMAIN links : e.links[i].rel = rel}
<1>1. /\ DOMAIN e.links = DOMAIN links
      /\ \A i \in DOMAIN links : e.links[i].rel = getDownloadLinkRel(links[i], c)
  BY DEF getDatasetEntries
<1>2. c = Cardinality(N) /\ c \in Nat
  <2>1. DOMAIN links = 1 .. Len(links) /\ Len(links) \in Nat
    BY DEF IsSeq
  <2>2. IsFiniteSet(DOMAIN links)
    BY <2>1, FS_Interval
  <2>3. N \in SUBSET DOMAIN links
    OBVIOUS
  <2>4. c = Cardinality(N)
    BY DEF getEmptyRelCount
  <2> HIDE DEF N, c
  <2>5. IsFiniteSet(N)
    BY <2>2, <2>3, FS_Subset
  <2> QED
    BY <2>4, <2>5, FS_CardinalityType
<1>3. \A rel : RelCount(e, rel) = Cardinality(With(rel))
  BY <1>1 DEF RelCount
<1>4. Cardinality({}) = 0
  BY FS_EmptySet
<1> HIDE DEF c, e
<1>5. \A i \in DOMAIN links :
         e.links[i].rel = IF links[i].rel # None THEN links[i].rel
                          ELSE IF c > 1 THEN "section" ELSE "alternate"
  <2>1. \A link : getDownloadLinkRel(link, c) = IF link.rel # None THEN link.rel
                                                ELSE IF c > 1 THEN "section" ELSE "alternate"
    BY <1>2 DEF getDownloadLinkRel
  <2> QED
    BY <1>1, <2>1
<1>6. With("alternate") = (IF c > 1 THEN {} ELSE N) /\ With("section") = (IF c > 1 THEN N ELSE {})
  BY <1>5
<1> HIDE DEF N, With
<1> QED
  <2>1. /\ RelCount(e, "alternate") = IF c > 1 THEN 0 ELSE c
        /\ RelCount(e, "section") = IF c > 1 THEN c ELSE 0
    BY <1>2, <1>3, <1>4, <1>6
  <2> HIDE DEF e
  <2>2. /\ RelCount(e, "alternate") <= 1
        /\ RelCount(e, "section") # 1
        /\ RelCount(e, "alternate") = 0 \/ RelCount(e, "section") = 0
    BY <1>2, <2>1
  <2> QED
    BY <2>2 DEF e

\* getDownloadLinkRel (mapper.go:295) makes the links of an entry one alternate or several
\* sections, where no user has named these relations.
THEOREM PartsOrWholes == ASSUME OtherRels PROVE Spec => []PartsOrWhole
<1>1. ASSUME NEW s \in Admitted,
             NEW config, config = MapAtomV3ToAtomGeneratorConfig(s),
             NEW i \in 2 .. Len(config), NEW e \in Range(config[i].entries)
      PROVE  /\ RelCount(e, "alternate") <= 1
             /\ RelCount(e, "section") # 1
             /\ RelCount(e, "alternate") = 0 \/ RelCount(e, "section") = 0
  <2>1. PICK a \in Atoms : s \in Specs[a]
    BY DEF Admitted
  <2>2. Len(s.feeds) \in Nat /\ DOMAIN s.feeds = 1 .. Len(s.feeds)
    <3>1. IsSeq(s.feeds)
      BY <2>1, SequencesAssumption
    <3> QED
      BY <3>1 DEF IsSeq
  <2>3. /\ DOMAIN config = 1 .. (Len(s.feeds) + 1)
        /\ \A k \in 1 .. Len(s.feeds) : config[k + 1] = DatasetFeed(s, s.feeds[k])
    BY <1>1, ConfigParts
  <2>4. PICK k \in 1 .. Len(s.feeds) : k + 1 = i
    BY <2>2, <2>3
  <2> DEFINE feed == s.feeds[k]
  <2>5. feed \in Range(s.feeds)
    BY <2>2 DEF Range
  <2>6. config[i].entries = getDatasetEntries(s, feed)
    BY <2>3, <2>4, FeedParts
  <2> HIDE DEF feed
  <2>7. DOMAIN getDatasetEntries(s, feed) = DOMAIN feed.entries
    BY EntryIds
  <2>8. PICK j \in DOMAIN feed.entries : e = getDatasetEntries(s, feed)[j]
    BY <2>6, <2>7 DEF Range
  <2>9. feed.entries[j] \in Range(feed.entries)
    BY DEF Range
  <2>10. IsSeq(feed.entries[j].links)
    BY <2>1, <2>5, <2>9, SequencesAssumption
  <2>11. ASSUME NEW m \in DOMAIN feed.entries[j].links
         PROVE  feed.entries[j].links[m].rel \notin {"alternate", "section"}
    <3>1. feed.entries[j].links[m] \in Range(feed.entries[j].links)
      BY DEF Range
    <3>2. feed.entries[j].links[m] \in LinksIn(s)
      BY <2>5, <2>9, <3>1 DEF LinksIn
    <3>3. feed.entries[j].links[m] \in Range(GetDownloadLinks(s))
      BY <2>1, <3>2, LinksFlat
    <3>4. s \in UNION {Specs[b] : b \in Atoms}
      BY <2>1
    <3> QED
      BY <3>3, <3>4 DEF OtherRels
  <2> QED
    BY <2>8, <2>10, <2>11, RelsOfEntry
<1>2. ConfigsInv => PartsOrWhole
  <2> SUFFICES ASSUME ConfigsInv, NEW config \in Running,
                      NEW i \in 2 .. Len(config), NEW e \in Range(config[i].entries)
               PROVE  /\ RelCount(e, "alternate") <= 1
                      /\ RelCount(e, "section") # 1
                      /\ RelCount(e, "alternate") = 0 \/ RelCount(e, "section") = 0
    BY DEF PartsOrWhole
  <2>1. config \in AdmittedConfigs
    BY DEF Running, ConfigsInv
  <2> QED
    BY <1>1, <2>1 DEF AdmittedConfigs
<1> QED
  BY <1>2, ConfigsAdmitted, PTL
=============================================================================
