------------------------ MODULE AtomRefinementProofs ------------------------
(***************************************************************************)
(* The reconciler implements AtomService, for all specs, OwnerInfos and    *)
(* bounds, and so keeps what AtomService promises.                         *)
(***************************************************************************)
EXTENDS AtomRefinement, AtomControllerProofs

-----------------------------------------------------------------------------
(* What is seen *)

\* A version differs from NoObj if the Atom does.
LEMMA VersionOK ==
    ASSUME NEW a \in Atoms \cup {NoObj}
    PROVE  /\ (Version(a) = NoObj) <=> (a = NoObj)
           /\ a # NoObj => /\ Version(a) = [uid |-> a.uid, spec |-> a.spec]
                           /\ Version(a).uid = a.uid /\ Version(a).spec = a.spec
                           /\ a.spec \in Specs
<1>1. a # NoObj => a.uid \in Nat /\ a.spec \in Specs
  BY BoundsAssumption DEF Atoms
<1>2. a # NoObj => [uid |-> a.uid, spec |-> a.spec] # NoObj
  <2> SUFFICES ASSUME a # NoObj PROVE [uid |-> a.uid, spec |-> a.spec] # NoObj
    OBVIOUS
  <2>1. [uid |-> a.uid, spec |-> a.spec] \in [uid : Nat, spec : Specs]
    BY <1>1
  <2> QED
    BY <2>1, VersionAssumption
<1> QED
  BY <1>1, <1>2 DEF Version

\* The Atoms that are stored, seen and worked on.
LEMMA AtomsOK ==
    ASSUME TypeOK
    PROVE  /\ api[AtomId] \in Atoms \cup {NoObj} /\ cache[AtomId] \in Atoms \cup {NoObj}
           /\ pipe[AtomId] \in Seq(Versions(AtomId)) /\ AtomId \in Ids
           /\ rec.pc # "idle" => rec.atom \in Atoms /\ rec.atom \in Atoms \cup {NoObj}
                                 /\ rec.atom # NoObj
BY VersionsOf, KeysAreKids DEF TypeOK, ApiOK, CacheOK, PipeOK, RecOK, Recs

LEMMA SeenOK ==
    ASSUME TypeOK, Tracks
    PROVE  /\ Len(Seen) = Len(pipe[AtomId]) + 1
           /\ Seen[1] = Version(cache[AtomId])
           /\ Promise!Stored = Version(api[AtomId])
<1> DEFINE n == Len(pipe[AtomId])
<1>1. n \in Nat /\ pipe[AtomId] \in Seq(Versions(AtomId)) /\ (n = 0 => pipe[AtomId] = <<>>)
      /\ (pipe[AtomId] = <<>> => n = 0)
  BY AtomsOK
<1>2. Len(Seen) = n + 1 /\ DOMAIN Seen = 1 .. (n + 1)
  BY <1>1 DEF Seen
<1>3. /\ Seen[1] = Version(cache[AtomId])
      /\ n > 0 => Seen[n + 1] = Version(pipe[AtomId][n])
  BY <1>1 DEF Seen
<1>4. n = 0 => cache[AtomId] = api[AtomId]
  BY <1>1, AtomsOK DEF Tracks
<1>5. n > 0 => pipe[AtomId][n] = api[AtomId]
  BY <1>1, AtomsOK DEF Tracks
<1> HIDE DEF n
<1>6. Seen[n + 1] = Version(api[AtomId])
  BY <1>1, <1>3, <1>4, <1>5
<1> QED
  BY <1>2, <1>3, <1>6 DEF Promise!Stored, n

LEMMA SeenSame ==
    ASSUME pipe'[AtomId] = pipe[AtomId], cache'[AtomId] = cache[AtomId]
    PROVE  Seen' = Seen
BY DEF Seen

\* A write of the Atom submits a version,
LEMMA SeenWrite ==
    ASSUME TypeOK, NEW v \in Versions(AtomId), Write(AtomId, v), UNCHANGED cache
    PROVE  Promise!Submit(Version(v)) /\ UNCHANGED api[IngressRoute]
<1> DEFINE P == pipe[AtomId]
           n == Len(P)
<1>1. P \in Seq(Versions(AtomId)) /\ n \in Nat
  BY AtomsOK
<1>2. pipe'[AtomId] = Append(P, v) /\ api'[IngressRoute] = api[IngressRoute]
  BY AtomsOK, KindsDiffer, KeysAreKids DEF Write, TypeOK, PipeOK, ApiOK, IsMap, FixedKeys
<1>3. /\ Len(pipe'[AtomId]) = n + 1
      /\ \A i \in 1 .. n : pipe'[AtomId][i] = P[i]
      /\ pipe'[AtomId][n + 1] = v
  BY <1>1, <1>2
<1>4. Seen = [i \in 1 .. (n + 1) |-> Version(IF i = 1 THEN cache[AtomId] ELSE P[i - 1])]
  BY DEF Seen
<1>5. Seen' = [i \in 1 .. (n + 2) |->
                  Version(IF i = 1 THEN cache[AtomId] ELSE pipe'[AtomId][i - 1])]
  BY <1>1, <1>3 DEF Seen
<1> HIDE DEF n, P
<1>6. Seen \in Seq({Seen[i] : i \in 1 .. (n + 1)}) /\ Len(Seen) = n + 1
  <2>1. n + 1 \in Nat /\ DOMAIN Seen = 1 .. (n + 1)
    BY <1>1, <1>4
  <2>2. Seen = [i \in 1 .. (n + 1) |-> Seen[i]]
    BY <1>4
  <2> DEFINE S == {Seen[i] : i \in 1 .. (n + 1)}
  <2>3. Seen \in [1 .. (n + 1) -> S]
    BY <2>2
  <2> HIDE DEF S
  <2>4. Seen \in Seq(S)
    BY <2>1, <2>3
  <2>5. Len(Seen) = n + 1
    BY <2>1, <2>4
  <2> QED
    BY <2>4, <2>5 DEF S
<1>7. Append(Seen, Version(v)) = [i \in 1 .. (n + 2) |-> IF i <= n + 1 THEN Seen[i] ELSE Version(v)]
  BY <1>1, <1>6, <1>4
<1>8. \A i \in 1 .. (n + 2) : Seen'[i] = IF i <= n + 1 THEN Seen[i] ELSE Version(v)
  <2> SUFFICES ASSUME NEW i \in 1 .. (n + 2)
               PROVE  Seen'[i] = IF i <= n + 1 THEN Seen[i] ELSE Version(v)
    OBVIOUS
  <2>1. CASE i = 1
    BY <1>1, <1>4, <1>5, <2>1
  <2>2. CASE i \in 2 .. (n + 1)
    <3>1. i - 1 \in 1 .. n /\ i # 1 /\ i \in 1 .. (n + 1) /\ i <= n + 1
      BY <1>1, <2>2
    <3>2. Seen'[i] = Version(pipe'[AtomId][i - 1]) /\ Seen[i] = Version(P[i - 1])
      BY <1>4, <1>5, <3>1
    <3> QED
      BY <1>3, <3>1, <3>2
  <2>3. CASE i = n + 2
    <3>1. i - 1 = n + 1 /\ i # 1 /\ ~ (i <= n + 1)
      BY <1>1, <2>3
    <3>2. Seen'[i] = Version(pipe'[AtomId][i - 1])
      BY <1>5, <3>1
    <3> QED
      BY <1>3, <3>1, <3>2
  <2> QED
    BY <1>1, <2>1, <2>2, <2>3
<1> QED
  BY <1>2, <1>5, <1>7, <1>8 DEF Promise!Submit

\* and writes of other objects leave what is seen alone.
LEMMA SeenKidWrite ==
    ASSUME TypeOK, NEW k \in Ids, k # AtomId, NEW v, Write(k, v), UNCHANGED cache
    PROVE  /\ Seen' = Seen
           /\ api'[IngressRoute] = IF k = IngressRoute THEN v ELSE api[IngressRoute]
<1>1. pipe'[AtomId] = pipe[AtomId]
  BY AtomsOK DEF Write, TypeOK, PipeOK, IsMap
<1>2. api'[IngressRoute] = IF k = IngressRoute THEN v ELSE api[IngressRoute]
  BY KeysAreKids DEF Write, TypeOK, ApiOK, IsMap, FixedKeys
<1> QED
  BY <1>1, <1>2, SeenSame

LEMMA SeenDeliver ==
    ASSUME TypeOK, Deliver(AtomId)
    PROVE  Promise!See
<1> DEFINE P == pipe[AtomId]
           n == Len(P)
<1>1. P \in Seq(Versions(AtomId)) /\ n \in Nat /\ P # << >>
  BY AtomsOK DEF Deliver
<1>2. /\ n >= 1 /\ Head(P) = P[1] /\ Len(Tail(P)) = n - 1
      /\ \A i \in 1 .. (n - 1) : Tail(P)[i] = P[i + 1]
  BY <1>1
<1>3. pipe'[AtomId] = Tail(P) /\ cache'[AtomId] = P[1]
  BY <1>2, AtomsOK DEF Deliver, TypeOK, PipeOK, CacheOK, IsMap
<1>4. Seen = [i \in 1 .. (n + 1) |-> Version(IF i = 1 THEN cache[AtomId] ELSE P[i - 1])]
  BY DEF Seen
<1>5. Seen' = [i \in 1 .. n |-> Version(IF i = 1 THEN P[1] ELSE Tail(P)[i - 1])]
  BY <1>1, <1>2, <1>3 DEF Seen
<1> HIDE DEF n, P
<1>6. Len(Seen) = n + 1 /\ Tail(Seen) = [i \in 1 .. n |-> Seen[i + 1]]
  BY <1>1, <1>4
<1>7. \A i \in 1 .. n : Seen'[i] = Seen[i + 1]
  <2> SUFFICES ASSUME NEW i \in 1 .. n PROVE Seen'[i] = Seen[i + 1]
    OBVIOUS
  <2>0. i + 1 \in 1 .. (n + 1) /\ i + 1 # 1 /\ (i + 1) - 1 = i
    BY <1>1
  <2>1. Seen[i + 1] = Version(P[i])
    BY <1>4, <2>0
  <2>2. CASE i = 1
    BY <1>5, <2>1, <2>2
  <2>3. CASE i \in 2 .. n
    <3>1. i - 1 \in 1 .. (n - 1) /\ i # 1 /\ (i - 1) + 1 = i
      BY <1>1, <2>3
    <3>2. Tail(P)[i - 1] = P[i]
      BY <1>2, <3>1
    <3> QED
      BY <1>5, <2>1, <3>1, <3>2
  <2> QED
    BY <1>1, <2>2, <2>3
<1>8. UNCHANGED <<nextUid, Working, api[IngressRoute], ~ Untouched>>
  BY DEF Deliver, Working, Version, Untouched
<1> QED
  BY <1>1, <1>2, <1>5, <1>6, <1>7, <1>8 DEF Promise!See

LEMMA SeenRestart ==
    ASSUME TypeOK, Tracks, Restart
    PROVE  Promise!Restart
<1>1. pipe'[AtomId] = << >> /\ cache'[AtomId] = api[AtomId]
  BY AtomsOK DEF Restart
<1>2. Seen' = [i \in 1 .. 1 |-> Version(api[AtomId])]
  BY <1>1 DEF Seen
<1>3. Seen' = <<Promise!Stored>>
  BY <1>2, SeenOK
<1>4. Working' = NoObj
  BY DEF Restart, Idle, Working
<1>5. budget'.tampers = budget.tampers /\ UNCHANGED <<nextUid, api[IngressRoute]>>
  BY SpendOK DEF Restart, TypeOK
<1> QED
  BY <1>3, <1>4, <1>5 DEF Promise!Restart, Untouched

-----------------------------------------------------------------------------
(* Steps *)

Keeps == UNCHANGED <<Seen, nextUid, Working, api[IngressRoute], ~ Untouched>>

\* Spending of anything but "tampers" touches nothing, and neither does spending nothing.
LEMMA SpendTouch ==
    ASSUME TypeOK
    PROVE  /\ \A what \in {"edits", "touches", "faults", "crashes"} :
                 Spend(what) => UNCHANGED (~ Untouched)
           /\ UNCHANGED budget => UNCHANGED (~ Untouched)
           /\ Spend("tampers") => (~ Untouched)'
<1>1. budget \in Budgets /\ MaxTampers \in Int
  BY BoundsAssumption DEF TypeOK, EnvOK
<1>2. ASSUME NEW what \in {"edits", "touches", "faults", "crashes"}, Spend(what)
      PROVE  UNCHANGED (~ Untouched)
  BY <1>2, SpendOK DEF TypeOK, Untouched
<1>3. ASSUME Spend("tampers")
      PROVE  (~ Untouched)'
  <2>1. budget'.tampers < budget.tampers /\ budget'.tampers \in Int
        /\ budget.tampers <= MaxTampers /\ budget.tampers \in Int
    BY <1>1, <1>3, SpendOK DEF TypeOK, Budgets
  <2> QED
    BY <1>1, <2>1 DEF Untouched
<1> QED
  BY <1>2, <1>3 DEF Untouched

\* A stage of a call writes no Atom, and publishes if it is about the IngressRoute.
LEMMA StageRefines ==
    ASSUME TypeOK, rec.pc # "idle", NEW k \in Kids, NEW content, NEW then,
           CreateOrUpdate(k, content, then), UNCHANGED <<cache, nextUid>>,
           then.pc # "idle", then.atom = rec.atom,
           k = IngressRoute => content = mutateIngressRoute(spec)
    PROVE  Promise!Next \/ Keeps
<1> DEFINE new == [owner |-> rec.atom.uid, content |-> content]
<1>1. rec' = then \/ rec' = Goto("fail")
  BY DEF CreateOrUpdate
<1>2. UNCHANGED Working /\ Working = Version(rec.atom)
  BY <1>1 DEF Working, Goto, TypeOK, RecOK, Recs
<1>3. UNCHANGED (~ Untouched)
  BY SpendTouch DEF CreateOrUpdate
<1>4. NoWrite \/ Write(k, new)
  BY DEF CreateOrUpdate, Put
<1>5. CASE NoWrite
  BY <1>2, <1>3, <1>5, SeenSame DEF Keeps, NoWrite
<1>6. CASE Write(k, new)
  <2>1. k \in Ids /\ k # AtomId
    BY KindsDiffer, KeysAreKids
  <2>2. UNCHANGED Seen /\ api'[IngressRoute] = IF k = IngressRoute THEN new ELSE api[IngressRoute]
    BY <1>6, <2>1, SeenKidWrite
  <2>3. CASE k # IngressRoute
    BY <1>2, <1>3, <2>2, <2>3 DEF Keeps
  <2>4. CASE k = IngressRoute
    <3>1. Working # NoObj /\ Working.uid = rec.atom.uid /\ Working.spec = spec
      BY <1>2, AtomsOK, VersionOK DEF spec
    <3>2. content = Promise!Shows(Working.spec)
      BY <2>4, <3>1 DEF Promise!Shows, mutateIngressRoute
    <3>3. api'[IngressRoute] = [owner |-> Working.uid, content |-> Promise!Shows(Working.spec)]
      BY <2>2, <2>4, <3>1, <3>2
    <3>4. Promise!Publish
      BY <1>2, <1>3, <2>2, <3>1, <3>3 DEF Promise!Publish
    <3> QED
      BY <3>4 DEF Promise!Next
  <2> QED
    BY <2>3, <2>4
<1> QED
  BY <1>4, <1>5, <1>6

\* A call ends, with or without a status.
LEMMA EndRefines ==
    ASSUME TypeOK, Tracks, rec.pc # "idle", rec' = Idle, UNCHANGED <<cache, nextUid>>,
           NEW s \in Statuses, UpdateStatus(s)
    PROVE  Promise!Next
<1> DEFINE new == [cache[AtomId] EXCEPT !.status = s]
<1>1. Working # NoObj /\ Working' = NoObj
  BY AtomsOK, VersionOK DEF Working, Idle
<1>2. UNCHANGED (~ Untouched)
  BY SpendTouch DEF UpdateStatus
<1>3. CASE NoWrite
  <2>1. Promise!End
    BY <1>1, <1>2, <1>3, SeenSame DEF Promise!End, NoWrite
  <2> QED
    BY <2>1 DEF Promise!Next
<1>4. CASE cache[AtomId] # NoObj /\ pipe[AtomId] = << >> /\ Write(AtomId, new)
  <2>1. cache[AtomId] = api[AtomId] /\ cache[AtomId] \in Atoms
    BY <1>4, AtomsOK DEF Tracks
  <2>2. new \in Atoms /\ new.uid = cache[AtomId].uid /\ new.spec = cache[AtomId].spec
    BY <2>1 DEF Atoms
  <2>3. new \in Versions(AtomId) /\ new # NoObj
    BY <2>2, VersionsOf, NoObjAssumption
  <2>4. Version(new) = Promise!Stored
    BY <1>4, <2>1, <2>2, <2>3, SeenOK DEF Version
  <2>5. Promise!Submit(Promise!Stored) /\ UNCHANGED api[IngressRoute]
    BY <1>4, <2>3, <2>4, SeenWrite
  <2>6. Promise!End
    BY <1>1, <1>2, <2>5 DEF Promise!End
  <2> QED
    BY <2>6 DEF Promise!Next
<1> QED
  BY <1>3, <1>4 DEF UpdateStatus

\* A write of the Atom by others is one of the user's.
LEMMA UserRefines ==
    ASSUME TypeOK, Tracks, UNCHANGED <<cache, rec>>, NEW v \in Versions(AtomId),
           Write(AtomId, v), UNCHANGED (~ Untouched),
           \/ Live /\ v = NoObj /\ UNCHANGED nextUid
           \/ /\ Live /\ v # NoObj /\ UNCHANGED nextUid
              /\ v.uid = api[AtomId].uid /\ URLsKept(api[AtomId].spec, v.spec)
           \/ ~ Live /\ v # NoObj /\ v.uid = nextUid /\ nextUid' = nextUid + 1
    PROVE  Promise!Next
<1>1. Promise!Submit(Version(v)) /\ UNCHANGED <<Working, api[IngressRoute]>>
  BY SeenWrite DEF Working, Version
<1>2. /\ v # NoObj => v \in Atoms
      /\ v \in Atoms \cup {NoObj}
  BY VersionsOf
<1>3. /\ v # NoObj => Version(v) = [uid |-> v.uid, spec |-> v.spec] /\ v.spec \in Specs
      /\ v = NoObj => Version(v) = NoObj
  BY <1>2, VersionOK
<1>4. /\ Live => /\ Promise!Stored # NoObj
                 /\ Promise!Stored.uid = api[AtomId].uid
                 /\ Promise!Stored.spec = api[AtomId].spec
      /\ ~ Live => Promise!Stored = NoObj
  BY SeenOK, AtomsOK, VersionOK DEF Live
<1>5. CASE Live /\ v = NoObj /\ UNCHANGED nextUid
  <2>1. Promise!Delete
    BY <1>1, <1>3, <1>4, <1>5 DEF Promise!Delete
  <2> QED
    BY <2>1 DEF Promise!Next
<1>6. CASE /\ Live /\ v # NoObj /\ UNCHANGED nextUid
           /\ v.uid = api[AtomId].uid /\ URLsKept(api[AtomId].spec, v.spec)
  <2>1. Promise!URLsKept(Promise!Stored.spec, v.spec)
    BY <1>4, <1>6 DEF URLsKept, Promise!URLsKept
  <2>2. Promise!Update(v.spec)
    BY <1>1, <1>3, <1>4, <1>6, <2>1 DEF Promise!Update
  <2> QED
    BY <1>3, <1>6, <2>2 DEF Promise!Next
<1>7. CASE ~ Live /\ v # NoObj /\ v.uid = nextUid /\ nextUid' = nextUid + 1
  <2>1. Promise!Create(v.spec)
    BY <1>1, <1>3, <1>4, <1>7 DEF Promise!Create
  <2> QED
    BY <1>3, <1>7, <2>1 DEF Promise!Next
<1> QED
  BY <1>5, <1>6, <1>7

\* A write of another object by others leaves Atoms and calls alone.
LEMMA KidRefines ==
    ASSUME TypeOK, UNCHANGED <<cache, rec, nextUid>>, NEW k \in Ids, k # AtomId, NEW v, Write(k, v)
    PROVE  /\ UNCHANGED <<Seen, Working, nextUid>>
           /\ api'[IngressRoute] = IF k = IngressRoute THEN v ELSE api[IngressRoute]
BY SeenKidWrite DEF Working, Version

LEMMA Refines == ASSUME TypeOK, Tracks, [Next]_vars PROVE Promise!Next \/ Keeps
<1>a. NoWrite /\ UNCHANGED <<cache, nextUid, Working, ~ Untouched>> => Keeps
  BY SeenSame DEF NoWrite, Keeps
<1>b. UNCHANGED rec => UNCHANGED Working
  BY DEF Working, Version
<1>1. CASE UNCHANGED vars
  BY <1>1, <1>a, <1>b, SpendTouch DEF vars, NoWrite
<1>2. CASE FetchAtom
  <2>1. NoWrite /\ UNCHANGED <<cache, nextUid, ~ Untouched>> /\ Working = NoObj
    BY <1>2, SpendTouch DEF FetchAtom, Working
  <2>2. Seen' = Seen
    BY <2>1, SeenSame DEF NoWrite
  <2>3. CASE cache[AtomId] = NoObj
    <3>1. Working' = NoObj
      BY <1>2, <2>3 DEF FetchAtom, Working, Idle
    <3> QED
      BY <2>1, <3>1, <1>a
  <2>4. CASE cache[AtomId] # NoObj
    <3>1. rec' = [Idle EXCEPT !.pc = "owner", !.atom = cache[AtomId]]
      BY <1>2, <2>4 DEF FetchAtom
    <3>2. Working' = Version(cache[AtomId])
      BY <3>1 DEF Working, Idle, Version
    <3>3. Seen[1] = Version(cache[AtomId]) /\ Seen[1] # NoObj
      BY <2>4, SeenOK, AtomsOK, VersionOK
    <3>4. Promise!Begin
      BY <2>1, <2>2, <3>2, <3>3 DEF Promise!Begin, NoWrite
    <3> QED
      BY <3>4 DEF Promise!Next
  <2> QED
    BY <2>3, <2>4
<1>c. ASSUME rec.pc # "idle", rec' = Idle, NoWrite, UNCHANGED <<cache, nextUid, ~ Untouched>>
      PROVE  Promise!Next
  <2>1. Working # NoObj /\ Working' = NoObj /\ Seen' = Seen
    BY <1>c, AtomsOK, VersionOK, SeenSame DEF Working, Idle, NoWrite
  <2>2. Promise!End
    BY <1>c, <2>1 DEF Promise!End, NoWrite
  <2> QED
    BY <2>2 DEF Promise!Next
<1>3. CASE FetchOwnerInfo
  <2>1. NoWrite /\ UNCHANGED <<cache, nextUid, ~ Untouched>> /\ rec.pc = "owner"
    BY <1>3, SpendTouch DEF FetchOwnerInfo
  <2>2. CASE cache[OwnerId] = NoObj
    BY <1>3, <2>1, <2>2, <1>c DEF FetchOwnerInfo
  <2>3. CASE cache[OwnerId] # NoObj
    <3>1. UNCHANGED Working
      BY <1>3, <2>1, <2>3 DEF FetchOwnerInfo, Working, TypeOK, RecOK, Recs, Version
    <3> QED
      BY <2>1, <3>1, <1>a
  <2> QED
    BY <2>2, <2>3
<1>4. CASE CheckTTL
  <2>1. UNCHANGED <<cache, nextUid, ~ Untouched>> /\ rec.pc = "ttl"
    BY <1>4, SpendTouch DEF CheckTTL
  <2>2. CASE rec' = [rec EXCEPT !.pc = "config"] /\ NoWrite
    <3>1. UNCHANGED Working
      BY <2>1, <2>2 DEF Working, TypeOK, RecOK, Recs, Version
    <3> QED
      BY <2>1, <2>2, <3>1, <1>a
  <2>3. CASE rec' = Idle /\ NoWrite
    BY <2>1, <2>3, <1>c
  <2>4. CASE rec' = Idle /\ Write(AtomId, NoObj)
    <3>1. Promise!Submit(NoObj) /\ UNCHANGED api[IngressRoute]
      <4>1. Version(NoObj) = NoObj
        BY DEF Version
      <4> QED
        BY <2>1, <2>4, <4>1, VersionsOf, SeenWrite
    <3>2. Working # NoObj /\ Working' = NoObj
      BY <2>1, <2>4, AtomsOK, VersionOK DEF Working, Idle
    <3>3. Promise!End
      BY <2>1, <3>1, <3>2 DEF Promise!End
    <3> QED
      BY <3>3 DEF Promise!Next
  <2> QED
    BY <1>4, <2>2, <2>3, <2>4 DEF CheckTTL
<1>d. ASSUME rec.pc # "idle"
      PROVE  /\ \A pc \in PCs : Goto(pc).atom = rec.atom /\ Goto(pc).pc = pc
             /\ \A pend : AfterDownload(pend).atom = rec.atom /\ AfterDownload(pend).pc # "idle"
  BY DEF Goto, AfterDownload, TypeOK, RecOK, Recs
<1>e. /\ Deployment \in Kids /\ Service \in Kids /\ StripPrefix \in Kids /\ Headers \in Kids
      /\ IngressRoute \in Kids /\ PDB \in Kids
      /\ IngressRoute \notin {Deployment, Service, StripPrefix, Headers, PDB}
      /\ IngressRoute \notin ConfigKeys /\ IngressRoute \notin DownloadKeys
  BY KindsDiffer, KeysAreKids DEF FixedKeys
<1>5. CASE MutateConfigMap
  <2>1. UNCHANGED <<cache, nextUid>> /\ rec.pc = "config"
    BY <1>5 DEF MutateConfigMap
  <2>2. CASE rec' = Goto("fail") /\ NoWrite /\ UNCHANGED budget
    <3>1. UNCHANGED Working
      BY <2>1, <2>2, <1>d DEF Working, Version, PCs
    <3> QED
      BY <2>1, <2>2, <3>1, <1>a, SpendTouch
  <2>3. ASSUME NEW d, d = ConfigData(spec, rec.owner),
               CreateOrUpdate(ConfigMap(d), d, Goto("deployment"))
        PROVE  Promise!Next \/ Keeps
    <3>1. ConfigMap(d) \in Kids /\ ConfigMap(d) \in ConfigKeys
      BY <2>1, <2>3, LocalsOK, KeysAreKids DEF TypeOK, ConfigKeys
    <3> QED
      BY <2>1, <2>3, <3>1, <1>d, <1>e, StageRefines DEF PCs
  <2> QED
    BY <1>5, <2>2, <2>3 DEF MutateConfigMap
<1>6. CASE MutateDeployment
  BY <1>6, <1>d, <1>e, StageRefines DEF MutateDeployment, PCs
<1>7. CASE MutateService
  BY <1>7, <1>d, <1>e, StageRefines DEF MutateService, PCs
<1>8. CASE MutateStripPrefix
  BY <1>8, <1>d, <1>e, StageRefines DEF MutateStripPrefix, PCs
<1>9. CASE MutateHeaders
  BY <1>9, <1>d, <1>e, StageRefines DEF MutateHeaders, PCs
<1>10. CASE MutateDownloadLink
  <2>1. PICK i \in rec.pend :
           CreateOrUpdate(Downloads(i), mutateDownloadLinkMiddleware(spec, i),
                          AfterDownload(rec.pend \ {i}))
    BY <1>10 DEF MutateDownloadLink
  <2>2. UNCHANGED <<cache, nextUid>> /\ rec.pc = "downloads"
    BY <1>10 DEF MutateDownloadLink
  <2>3. Downloads(i) \in Kids /\ Downloads(i) \in DownloadKeys
    <3>1. i \in Indices(spec) /\ spec \in Specs
      BY <2>1, <2>2, LocalsOK DEF TypeOK, RecOK, spec
    <3> QED
      BY <3>1, KeysAreKids DEF DownloadKeys
  <2> QED
    BY <2>1, <2>2, <2>3, <1>d, <1>e, StageRefines
<1>11. CASE MutateIngressRoute
  BY <1>11, <1>d, <1>e, StageRefines DEF MutateIngressRoute, PCs
<1>12. CASE MutatePodDisruptionBudget
  BY <1>12, <1>d, <1>e, StageRefines DEF MutatePodDisruptionBudget, PCs
<1>13. CASE Finish
  BY <1>13, EndRefines DEF Finish, Statuses
<1>14. CASE Fail
  BY <1>14, EndRefines DEF Fail, Statuses
<1>15. ASSUME NEW id \in Ids, Deliver(id)
       PROVE  Promise!Next \/ Keeps
  <2>1. CASE id = AtomId
    BY <1>15, <2>1, SeenDeliver DEF Promise!Next
  <2>2. CASE id # AtomId
    <3>1. pipe'[AtomId] = pipe[AtomId] /\ cache'[AtomId] = cache[AtomId]
      BY <1>15, <2>2, AtomsOK DEF Deliver, TypeOK, PipeOK, CacheOK, IsMap
    <3>2. UNCHANGED <<api, rec, nextUid, budget>>
      BY <1>15 DEF Deliver
    <3> QED
      BY <3>1, <3>2, <1>b, SeenSame, SpendTouch DEF Keeps
  <2> QED
    BY <2>1, <2>2
<1>16. CASE Resync
  BY <1>16, <1>a, <1>b, SpendTouch DEF Resync, NoWrite
<1>17. CASE Restart
  BY <1>17, SeenRestart DEF Promise!Next
<1>18. ASSUME NEW s \in Specs, CreateAtom(s)
       PROVE  Promise!Next
  <2> DEFINE new == [uid |-> nextUid, spec |-> s, created |-> now, status |-> "None"]
  <2>1. new \in Atoms /\ new.uid = nextUid
    <3>1. nextUid \in 1 .. MaxUid /\ now \in 0 .. Horizon
      BY <1>18, BoundsAssumption DEF CreateAtom, EnvOK, TypeOK
    <3> QED
      BY <3>1 DEF Atoms, Statuses
  <2>2. new \in Versions(AtomId) /\ new # NoObj
    BY <2>1, VersionsOf, NoObjAssumption
  <2>3. /\ ~ Live /\ Write(AtomId, new) /\ nextUid' = nextUid + 1
        /\ UNCHANGED <<cache, rec>> /\ UNCHANGED (~ Untouched)
    BY <1>18, SpendTouch DEF CreateAtom, Live
  <2> HIDE DEF new
  <2> QED
    BY <2>1, <2>2, <2>3, UserRefines
<1>19. ASSUME NEW s \in Specs, UpdateAtom(s)
       PROVE  Promise!Next
  <2> DEFINE new == [api[AtomId] EXCEPT !.spec = s]
  <2>0. Live /\ api[AtomId] \in Atoms
    BY <1>19, AtomsOK DEF UpdateAtom, Live
  <2>1. new \in Atoms /\ new.uid = api[AtomId].uid /\ new.spec = s
    BY <2>0 DEF Atoms
  <2>2. new \in Versions(AtomId) /\ new # NoObj
    BY <2>1, VersionsOf, NoObjAssumption
  <2>3. /\ Write(AtomId, new) /\ URLsKept(api[AtomId].spec, s)
        /\ UNCHANGED <<cache, rec, nextUid>> /\ UNCHANGED (~ Untouched)
    BY <1>19, SpendTouch DEF UpdateAtom
  <2> HIDE DEF new
  <2> QED
    BY <2>0, <2>1, <2>2, <2>3, UserRefines
<1>20. CASE DeleteAtom
  BY <1>20, SpendTouch, VersionsOf, UserRefines DEF DeleteAtom, Live
<1>21. ASSUME NEW o \in Owners \cup {NoObj}, SetOwnerInfo(o)
       PROVE  Keeps
  <2>1. UNCHANGED <<Seen, Working, nextUid, api[IngressRoute]>>
    BY <1>21, KindsDiffer, KeysAreKids, <1>e, KidRefines DEF SetOwnerInfo
  <2> QED
    BY <1>21, <2>1, SpendTouch DEF SetOwnerInfo, Keeps
<1>22. ASSUME NEW k \in Kids, Drift(k) \/ Remove(k)
       PROVE  Promise!Next
  <2>1. PICK v : /\ Write(k, v) /\ v \in {NoObj, [api[k] EXCEPT !.content = Foreign]}
                 /\ api[k] # NoObj /\ Spend("tampers") /\ UNCHANGED <<cache, rec, nextUid>>
    BY <1>22 DEF Drift, Remove
  <2>2. /\ UNCHANGED <<Seen, Working, nextUid>>
        /\ api'[IngressRoute] = IF k = IngressRoute THEN v ELSE api[IngressRoute]
    BY <2>1, KindsDiffer, KeysAreKids, KidRefines
  <2>3. (~ Untouched)' = TRUE
    BY <2>1, SpendTouch
  <2>4. Promise!Tamper
    BY <2>1, <2>2, <2>3 DEF Promise!Tamper
  <2> QED
    BY <2>4 DEF Promise!Next
<1>23. ASSUME NEW id \in {AtomId, Deployment}, WriteStatus(id)
       PROVE  Promise!Next \/ Keeps
  <2>1. /\ api[id] # NoObj /\ UNCHANGED <<api, cache, rec, nextUid>> /\ UNCHANGED (~ Untouched)
        /\ Touch(id) /\ id \in Ids
    BY <1>23, SpendTouch, KeysAreKids, <1>e DEF WriteStatus, Touch
  <2>2. Write(id, api[id])
    BY <2>1 DEF Touch, Write, TypeOK, ApiOK, IsMap
  <2>3. CASE id = AtomId
    <3>1. api[AtomId] \in Versions(AtomId) /\ URLsKept(api[AtomId].spec, api[AtomId].spec)
      BY KeysAreKids DEF TypeOK, ApiOK, URLsKept
    <3> QED
      BY <2>1, <2>2, <2>3, <3>1, UserRefines DEF Live
  <2>4. CASE id # AtomId
    <3>1. UNCHANGED <<Seen, Working, nextUid>>
      BY <2>1, <2>2, <2>4, KidRefines
    <3> QED
      BY <2>1, <3>1 DEF Keeps
  <2> QED
    BY <2>3, <2>4
<1>24. ASSUME NEW k \in Kids, Collect(k)
       PROVE  Promise!Next \/ Keeps
  <2>1. /\ UNCHANGED <<Seen, Working, nextUid>> /\ UNCHANGED (~ Untouched)
        /\ api'[IngressRoute] = IF k = IngressRoute THEN NoObj ELSE api[IngressRoute]
    BY <1>24, KindsDiffer, KeysAreKids, KidRefines, SpendTouch DEF Collect
  <2>2. CASE k # IngressRoute
    BY <2>1, <2>2 DEF Keeps
  <2>3. CASE k = IngressRoute
    <3>1. Promise!Stored # NoObj => Live /\ Promise!Stored.uid = api[AtomId].uid
      BY SeenOK, AtomsOK, VersionOK DEF Live
    <3>2. Promise!Withdraw
      BY <1>24, <2>1, <2>3, <3>1 DEF Collect, Promise!Withdraw, Live
    <3> QED
      BY <3>2 DEF Promise!Next
  <2> QED
    BY <2>2, <2>3
<1>25. CASE Tick
  BY <1>25, <1>a, <1>b, SpendTouch DEF Tick, NoWrite
<1> QED
  BY <1>1, <1>2, <1>3, <1>4, <1>5, <1>6, <1>7, <1>8, <1>9, <1>10, <1>11, <1>12, <1>13, <1>14,
     <1>15, <1>16, <1>17, <1>18, <1>19, <1>20, <1>21, <1>22, <1>23, <1>24, <1>25
     DEF Next, Reconcile, Users, Others

-----------------------------------------------------------------------------
(* Theorems *)

LEMMA Invariant == Spec => []IInv
BY IInvInit, IInvNext, PTL DEF Spec

\* Every step of Reconcile, with the cache behind, calls that fail, conflicts, restarts and
\* the garbage collector, is a step that AtomService allows, or changes nothing it speaks of.
THEOREM ImplementsPromise == Spec => Implements
<1>1. Init => Promise!Init
  <2> SUFFICES ASSUME Init PROVE Promise!Init
    OBVIOUS
  <2>1. /\ api[AtomId] = NoObj /\ api[IngressRoute] = NoObj
        /\ cache[AtomId] = NoObj /\ pipe[AtomId] = << >>
        /\ rec = Idle /\ nextUid = 1 /\ budget.tampers = MaxTampers
    BY KindsDiffer, KeysAreKids DEF Init, FixedKeys
  <2>2. Seen = [i \in 1 .. 1 |-> Version(NoObj)] /\ Version(NoObj) = NoObj
    BY <2>1 DEF Seen, Version
  <2>3. Seen = <<NoObj>>
    BY <2>2
  <2>4. Working = NoObj /\ (~ Untouched) = FALSE
    BY <2>1 DEF Working, Idle, Untouched
  <2> QED
    BY <2>1, <2>3, <2>4 DEF Promise!Init
<1>2. IInv /\ [Next]_vars => [Promise!Next]_Promise!vars
  <2> SUFFICES ASSUME IInv, [Next]_vars PROVE [Promise!Next]_Promise!vars
    OBVIOUS
  <2>1. Promise!Next \/ Keeps
    BY Refines DEF IInv, UidInv
  <2> QED
    BY <2>1 DEF Keeps, Promise!vars
<1> QED
  BY <1>1, <1>2, Invariant, PTL DEF Spec, Implements, Promise!Spec

PromiseProofs == INSTANCE AtomServiceProofs
                     WITH versions <- Seen, working <- Working, route <- api[IngressRoute],
                          touched <- ~ Untouched

LEMMA SamePromise == Promise!Spec => PromiseProofs!Spec
<1>1. Promise!Init => PromiseProofs!Init
  BY DEF Promise!Init, PromiseProofs!Init
<1>2. [Promise!Next]_Promise!vars => [PromiseProofs!Next]_PromiseProofs!vars
  BY DEF Promise!Next, PromiseProofs!Next, Promise!vars, PromiseProofs!vars, Promise!Stored,
         PromiseProofs!Stored, Promise!Submit, PromiseProofs!Submit, Promise!Shows,
         PromiseProofs!Shows, Promise!URLsKept, PromiseProofs!URLsKept, Promise!Create,
         PromiseProofs!Create, Promise!Update, PromiseProofs!Update, Promise!Delete,
         PromiseProofs!Delete, Promise!Tamper, PromiseProofs!Tamper, Promise!See,
         PromiseProofs!See, Promise!Begin, PromiseProofs!Begin, Promise!Publish,
         PromiseProofs!Publish, Promise!End, PromiseProofs!End, Promise!Restart,
         PromiseProofs!Restart, Promise!Withdraw, PromiseProofs!Withdraw
<1> QED
  BY <1>1, <1>2, PTL DEF Promise!Spec, PromiseProofs!Spec

\* Although Reconcile works on stale Atoms, fails and restarts, clients of the live Atom
\* reach no URL that its stored spec does not ask for (ingressroute.go:30).
THEOREM OnlyStoredPublished == Spec => []PublishesStored
<1>1. PromiseProofs!PublishesStored => PublishesStored
  BY DEF PublishesStored, Promise!PublishesStored, PromiseProofs!PublishesStored,
         Promise!Stored, PromiseProofs!Stored
<1> QED
  BY <1>1, SamePromise, PromiseProofs!ServicePublishesStored, ImplementsPromise, PTL
     DEF Implements

\* No step takes a URL of the live Atom's IngressRoute away, or publishes for an earlier
\* incarnation: the conflicts that updates of stale objects run into keep an old call from
\* undoing what a later one has done (atom_controller.go:235).
THEOREM PublishedStays == Spec => URLsStayPublished
<1>1. PromiseProofs!ServiceAssumption
  BY VersionAssumption DEF PromiseProofs!ServiceAssumption, PromiseProofs!Shows, mutateIngressRoute
<1>2. PromiseProofs!Spec => PromiseProofs!URLsStayPublished
  BY <1>1, PromiseProofs!ServiceURLsStayPublished
<1>3. [PromiseProofs!URLsStay]_PromiseProofs!vars => [Promise!URLsStay]_Promise!vars
  BY DEF PromiseProofs!URLsStay, Promise!URLsStay, PromiseProofs!vars, Promise!vars,
         PromiseProofs!Stored, Promise!Stored
<1> QED
  BY <1>2, <1>3, SamePromise, ImplementsPromise, PTL
     DEF Implements, URLsStayPublished, Promise!URLsStayPublished,
         PromiseProofs!URLsStayPublished
=============================================================================
