------------------------ MODULE AtomControllerProofs ------------------------
(***************************************************************************)
(* Theorems about AtomController, for all specs, OwnerInfos and bounds.    *)
(***************************************************************************)
EXTENDS AtomController, TLAPS, SequenceTheorems

-----------------------------------------------------------------------------
(* Names *)

\* Every object Reconcile creates has one of the names in Kids.
LEMMA KeysAreKids ==
    /\ FixedKeys \subseteq Kids
    /\ \A s \in Specs, o \in Owners : ConfigMap(ConfigData(s, o)) \in Kids
    /\ \A s \in Specs : \A i \in Indices(s) : Downloads(i) \in Kids
    /\ Kids \subseteq Ids /\ AtomId \in Ids /\ OwnerId \in Ids
BY DEF Kids, Ids, ConfigKeys, DownloadKeys

\* Names of different kinds differ.
LEMMA KindsDiffer ==
    /\ AtomId \notin Kids /\ OwnerId \notin Kids /\ AtomId # OwnerId
    /\ \A k \in ConfigKeys : k[1] = "ConfigMap"
    /\ \A k \in DownloadKeys : k[1] = "Downloads"
    /\ \A k \in FixedKeys : k \notin ConfigKeys /\ k \notin DownloadKeys
    /\ \A k \in ConfigKeys : k \notin DownloadKeys
    /\ Deployment # Service /\ Deployment # StripPrefix /\ Deployment # Headers
    /\ Deployment # IngressRoute /\ Deployment # PDB
    /\ StripPrefix # IngressRoute
    /\ \A k \in {Service, Headers, PDB} : k \notin {Deployment, StripPrefix, IngressRoute}
BY DEF Kids, ConfigKeys, DownloadKeys, FixedKeys, ConfigMap, Downloads, AtomId, OwnerId,
       Deployment, Service, StripPrefix, Headers, IngressRoute, PDB

\* The versions of each kind of object.
LEMMA VersionsOf ==
    /\ Versions(AtomId) = {NoObj} \cup Atoms
    /\ Versions(OwnerId) = {NoObj} \cup Owners
    /\ \A k \in Kids : Versions(k) = {NoObj} \cup Kid(k)
BY KindsDiffer DEF Versions

\* The mutate functions give every object a content of its kind.
LEMMA ContentsOf ==
    ASSUME NEW s \in Specs, NEW o \in Owners
    PROVE  /\ ConfigData(s, o) \in Contents(ConfigMap(ConfigData(s, o)))
           /\ mutateDeployment(ConfigData(s, o)) \in Contents(Deployment)
           /\ mutateStripPrefixMiddleware(s) \in Contents(StripPrefix)
           /\ \A i \in Indices(s) : mutateDownloadLinkMiddleware(s, i) \in Contents(Downloads(i))
           /\ mutateIngressRoute(s) \in Contents(IngressRoute)
           /\ mutateService \in Contents(Service)
           /\ mutateHeadersMiddleware \in Contents(Headers)
           /\ mutatePodDisruptionBudget \in Contents(PDB)
<1>1. ConfigData(s, o) \in Contents(ConfigMap(ConfigData(s, o)))
  <2> DEFINE k == ConfigMap(ConfigData(s, o))
  <2>1. k \in ConfigKeys /\ k[2] = ConfigData(s, o)
    BY DEF ConfigKeys, ConfigMap
  <2>2. k \notin FixedKeys /\ k \notin DownloadKeys
    BY <2>1, KindsDiffer
  <2>3. k \notin {Deployment, StripPrefix, IngressRoute, Service, Headers, PDB}
    BY <2>2 DEF FixedKeys
  <2> HIDE DEF k
  <2> QED
    BY <2>1, <2>2, <2>3 DEF Contents, k
<1>2. mutateDeployment(ConfigData(s, o)) \in Contents(Deployment)
  BY KindsDiffer DEF Contents, FixedKeys, mutateDeployment
<1>3. mutateStripPrefixMiddleware(s) \in Contents(StripPrefix)
  BY KindsDiffer DEF Contents, FixedKeys
<1>4. ASSUME NEW i \in Indices(s)
      PROVE  mutateDownloadLinkMiddleware(s, i) \in Contents(Downloads(i))
  <2>1. Downloads(i) \in DownloadKeys
    BY DEF DownloadKeys
  <2>2. /\ Downloads(i) \notin ConfigKeys
        /\ Downloads(i) \notin {Deployment, StripPrefix, IngressRoute, Service, Headers, PDB}
        /\ Downloads(i)[2] = i
    BY <2>1, KindsDiffer DEF FixedKeys, Downloads
  <2>3. i < Len(s.groups)
    BY SpecsAssumption DEF Indices
  <2>4. mutateDownloadLinkMiddleware(s, i) \in
           {mutateDownloadLinkMiddleware(u, i) : u \in {t \in Specs : i < Len(t.groups)}}
    BY <2>3
  <2> QED
    BY <2>1, <2>2, <2>4 DEF Contents
<1>5. mutateIngressRoute(s) \in Contents(IngressRoute)
  BY KindsDiffer DEF Contents, FixedKeys
<1>6. /\ mutateService \in Contents(Service)
      /\ mutateHeadersMiddleware \in Contents(Headers)
      /\ mutatePodDisruptionBudget \in Contents(PDB)
  <2>1. /\ Service \notin ConfigKeys /\ Service \notin DownloadKeys
        /\ Headers \notin ConfigKeys /\ Headers \notin DownloadKeys
        /\ PDB \notin ConfigKeys /\ PDB \notin DownloadKeys
    BY KindsDiffer DEF FixedKeys
  <2>2. /\ Service \notin {Deployment, StripPrefix, IngressRoute, Headers, PDB}
        /\ Headers \notin {Deployment, StripPrefix, IngressRoute, Service, PDB}
        /\ PDB \notin {Deployment, StripPrefix, IngressRoute, Service, Headers}
    BY DEF Deployment, StripPrefix, IngressRoute, Service, Headers, PDB
  <2> QED
    BY <2>1, <2>2 DEF Contents
<1> QED
  BY <1>1, <1>2, <1>3, <1>4, <1>5, <1>6

-----------------------------------------------------------------------------
(* Type correctness *)

\* A write stores a version of the right kind and sends it on its way.
LEMMA WriteOK ==
    ASSUME ApiOK, PipeOK, NEW id \in Ids, NEW v \in Versions(id), Write(id, v)
    PROVE  ApiOK' /\ PipeOK'
<1>1. /\ api' = [api EXCEPT ![id] = v]
      /\ pipe' = [pipe EXCEPT ![id] = Append(@, v)]
  BY DEF Write
<1>2. ApiOK'
  BY <1>1 DEF ApiOK, IsMap
<1>3. \A i \in Ids : pipe'[i] \in Seq(Versions(i))
  BY <1>1 DEF PipeOK, IsMap
<1> QED
  BY <1>1, <1>2, <1>3 DEF PipeOK, IsMap

\* Without a write both stay as they are.
LEMMA NoWriteOK ==
    ASSUME ApiOK, PipeOK, NoWrite
    PROVE  ApiOK' /\ PipeOK'
BY DEF ApiOK, PipeOK, NoWrite, IsMap

\* Spending leaves a budget.
LEMMA SpendOK ==
    ASSUME EnvOK, NEW what \in {"edits", "tampers", "touches", "faults", "crashes"}, Spend(what)
    PROVE  /\ budget' \in Budgets
           /\ what # "tampers" => budget'.tampers = budget.tampers
           /\ budget'.tampers <= budget.tampers
           /\ what = "tampers" => budget'.tampers < budget.tampers
BY BoundsAssumption DEF EnvOK, Budgets, Spend

\* Whatever CreateOrUpdate meets, the store stays well typed, and Reconcile either
\* goes on or fails.
LEMMA CreateOrUpdateOK ==
    ASSUME TypeOK, rec.pc # "idle", NEW k \in Kids, NEW content \in Contents(k), NEW then,
           CreateOrUpdate(k, content, then)
    PROVE  /\ ApiOK' /\ PipeOK' /\ budget' \in Budgets
           /\ rec' = then \/ rec' = Goto("fail")
<1> DEFINE new == [owner |-> rec.atom.uid, content |-> content]
<1>1. ApiOK /\ PipeOK /\ EnvOK /\ budget \in Budgets
  BY DEF TypeOK, EnvOK
<1>2. new \in Versions(k) /\ k \in Ids
  <2>1. rec.atom \in Atoms
    BY DEF TypeOK, RecOK, Recs
  <2> QED
    BY <2>1, VersionsOf, KeysAreKids DEF Kid, Atoms
<1>3. Put(k, new) => ApiOK' /\ PipeOK'
  BY <1>1, <1>2, WriteOK, NoWriteOK DEF Put
<1>4. NoWrite => ApiOK' /\ PipeOK'
  BY <1>1, NoWriteOK
<1>5. Spend("faults") => budget' \in Budgets
  BY <1>1, SpendOK
<1>6. ApiOK' /\ PipeOK'
  BY <1>3, <1>4 DEF CreateOrUpdate
<1>7. budget' \in Budgets
  BY <1>1, <1>5 DEF CreateOrUpdate
<1>8. rec' = then \/ rec' = Goto("fail")
  BY DEF CreateOrUpdate
<1> QED
  BY <1>6, <1>7, <1>8

\* The same of the write of the status.
LEMMA UpdateStatusOK ==
    ASSUME TypeOK, NEW s \in Statuses, UpdateStatus(s)
    PROVE  ApiOK' /\ PipeOK' /\ budget' \in Budgets
<1> DEFINE new == [cache[AtomId] EXCEPT !.status = s]
<1>1. ApiOK /\ PipeOK /\ EnvOK /\ budget \in Budgets
  BY DEF TypeOK, EnvOK
<1>2. cache[AtomId] # NoObj => new \in Versions(AtomId)
  BY VersionsOf, KeysAreKids DEF TypeOK, CacheOK, Atoms
<1>3. cache[AtomId] # NoObj /\ Write(AtomId, new) => ApiOK' /\ PipeOK'
  BY <1>1, <1>2, WriteOK, KeysAreKids
<1>4. ApiOK' /\ PipeOK'
  BY <1>1, <1>3, NoWriteOK DEF UpdateStatus
<1>5. budget' \in Budgets
  BY <1>1, SpendOK DEF UpdateStatus
<1> QED
  BY <1>4, <1>5

\* Reconcile's locals survive a jump, and returning clears them.
LEMMA GotoOK ==
    ASSUME RecOK, rec.pc \notin {"idle", "owner"}, NEW pc \in PCs \ {"downloads"}, rec' = Goto(pc)
    PROVE  RecOK'
BY DEF RecOK, Recs, Goto

LEMMA IdleOK ==
    ASSUME rec' = Idle
    PROVE  RecOK'
BY DEF RecOK, Recs, Idle, PCs

LEMMA AfterDownloadOK ==
    ASSUME RecOK, rec.pc \notin {"idle", "owner"}, NEW pend \in SUBSET Indices(rec.atom.spec),
           rec' = AfterDownload(pend)
    PROVE  RecOK'
<1>1. rec.atom \in Atoms /\ rec.atom.spec \in Specs
  BY DEF RecOK, Recs, Atoms
<1>2. pend \in SUBSET Nat
  BY <1>1, SpecsAssumption DEF Indices
<1> QED
  BY <1>2 DEF RecOK, Recs, AfterDownload, PCs

\* The spec and the OwnerInfo that the stages of Reconcile work from.
LEMMA LocalsOK ==
    ASSUME RecOK, rec.pc \notin {"idle", "owner"}
    PROVE  rec.atom \in Atoms /\ spec \in Specs /\ rec.owner \in Owners
BY DEF RecOK, Recs, Atoms, spec

LEMMA TypeInit == Init => TypeOK
<1> SUFFICES ASSUME Init PROVE TypeOK
  OBVIOUS
<1>1. PICK o \in Owners \cup {NoObj} : api = [id \in Ids |-> IF id = OwnerId THEN o ELSE NoObj]
  BY DEF Init
<1>2. NoObj \in Versions(AtomId) /\ o \in Versions(OwnerId) /\ \A k \in Kids : NoObj \in Versions(k)
  BY VersionsOf
<1>3. ApiOK /\ CacheOK
  BY <1>1, <1>2, KindsDiffer DEF Init, ApiOK, CacheOK, IsMap, Ids
<1>4. PipeOK
  BY DEF Init, PipeOK, IsMap
<1>5. RecOK
  BY DEF Init, RecOK, Recs, Idle, PCs
<1>6. EnvOK
  <2>1. /\ MaxUid \in Nat /\ MaxEdits \in Nat /\ MaxTampers \in Nat /\ MaxTouches \in Nat
        /\ MaxFaults \in Nat /\ MaxCrashes \in Nat /\ Horizon \in Nat
    BY BoundsAssumption
  <2>2. budget \in Budgets
    BY <2>1 DEF Init, Budgets
  <2>3. now \in 0 .. Horizon /\ nextUid \in 1 .. (MaxUid + 1)
    BY <2>1 DEF Init
  <2>4. queued \in BOOLEAN
    BY DEF Init
  <2> QED
    BY <2>2, <2>3, <2>4 DEF EnvOK
<1> QED
  BY <1>3, <1>4, <1>5, <1>6 DEF TypeOK

\* A stage of createOrUpdateAllForAtom keeps the types.
LEMMA StageOK ==
    ASSUME TypeOK, rec.pc \notin {"idle", "owner"}, NEW k \in Kids, NEW content \in Contents(k),
           NEW pc \in PCs \ {"downloads"},
           CreateOrUpdate(k, content, Goto(pc)), UNCHANGED <<cache, queued, now, nextUid>>
    PROVE  TypeOK'
<1>1. ApiOK' /\ PipeOK' /\ budget' \in Budgets
  BY CreateOrUpdateOK
<1>2. rec' = Goto(pc) \/ rec' = Goto("fail")
  BY CreateOrUpdateOK
<1>3. RecOK'
  BY <1>2, GotoOK DEF TypeOK, PCs
<1> QED
  BY <1>1, <1>3 DEF TypeOK, CacheOK, EnvOK, IsMap

LEMMA TypeNext == TypeOK /\ [Next]_vars => TypeOK'
<1> SUFFICES ASSUME TypeOK, [Next]_vars
             PROVE  TypeOK'
  OBVIOUS
<1> USE DEF TypeOK
<1>1. CASE UNCHANGED vars
  BY <1>1 DEF vars, ApiOK, CacheOK, PipeOK, RecOK, EnvOK, IsMap
<1>2. CASE FetchAtom
  <2>1. cache[AtomId] \in {NoObj} \cup Atoms
    BY VersionsOf, KeysAreKids DEF CacheOK
  <2>2. RecOK'
    BY <1>2, <2>1 DEF FetchAtom, RecOK, Recs, Idle, PCs
  <2> QED
    BY <1>2, <2>2, NoWriteOK DEF FetchAtom, CacheOK, EnvOK, IsMap
<1>3. CASE FetchOwnerInfo
  <2>1. cache[OwnerId] \in {NoObj} \cup Owners
    BY VersionsOf, KeysAreKids DEF CacheOK
  <2>2. RecOK'
    BY <1>3, <2>1 DEF FetchOwnerInfo, RecOK, Recs, Idle, PCs
  <2> QED
    BY <1>3, <2>2, NoWriteOK DEF FetchOwnerInfo, CacheOK, EnvOK, IsMap
<1>4. CASE CheckTTL
  <2>1. RecOK'
    <3>1. rec' = Goto("config") \/ rec' = Idle
      BY <1>4 DEF CheckTTL, Goto
    <3> QED
      BY <1>4, <3>1, GotoOK, IdleOK DEF CheckTTL, PCs
  <2>2. ApiOK' /\ PipeOK'
    <3>1. NoObj \in Versions(AtomId) /\ AtomId \in Ids
      BY VersionsOf, KeysAreKids
    <3> QED
      BY <1>4, <3>1, WriteOK, NoWriteOK DEF CheckTTL
  <2>3. budget' \in Budgets /\ queued' \in BOOLEAN
    BY <1>4, SpendOK DEF CheckTTL, EnvOK
  <2> QED
    BY <1>4, <2>1, <2>2, <2>3 DEF CheckTTL, CacheOK, EnvOK, IsMap
<1>5. CASE MutateConfigMap
  <2> DEFINE d == ConfigData(spec, rec.owner)
  <2>1. spec \in Specs /\ rec.owner \in Owners
    BY <1>5, LocalsOK DEF MutateConfigMap
  <2>2. CASE CreateOrUpdate(ConfigMap(d), d, Goto("deployment"))
    <3>1. ConfigMap(d) \in Kids /\ d \in Contents(ConfigMap(d))
      BY <2>1, KeysAreKids, ContentsOf
    <3> QED
      BY <1>5, <2>2, <3>1, StageOK DEF MutateConfigMap, PCs
  <2>3. CASE rec' = Goto("fail") /\ NoWrite /\ UNCHANGED budget
    BY <1>5, <2>3, GotoOK, NoWriteOK DEF MutateConfigMap, PCs, CacheOK, EnvOK, IsMap
  <2> QED
    BY <1>5, <2>2, <2>3 DEF MutateConfigMap
<1>6. CASE MutateDeployment
  <2>1. /\ Deployment \in Kids
        /\ mutateDeployment(ConfigData(spec, rec.owner)) \in Contents(Deployment)
    BY <1>6, LocalsOK, KeysAreKids, ContentsOf DEF MutateDeployment, FixedKeys
  <2> QED
    BY <1>6, <2>1, StageOK DEF MutateDeployment, PCs
<1>7. CASE MutateService
  <2>1. Service \in Kids /\ mutateService \in Contents(Service)
    BY <1>7, LocalsOK, KeysAreKids, ContentsOf DEF MutateService, FixedKeys
  <2> QED
    BY <1>7, <2>1, StageOK DEF MutateService, PCs
<1>8. CASE MutateStripPrefix
  <2>1. StripPrefix \in Kids /\ mutateStripPrefixMiddleware(spec) \in Contents(StripPrefix)
    BY <1>8, LocalsOK, KeysAreKids, ContentsOf DEF MutateStripPrefix, FixedKeys
  <2> QED
    BY <1>8, <2>1, StageOK DEF MutateStripPrefix, PCs
<1>9. CASE MutateHeaders
  <2>1. Headers \in Kids /\ mutateHeadersMiddleware \in Contents(Headers)
    BY <1>9, LocalsOK, KeysAreKids, ContentsOf DEF MutateHeaders, FixedKeys
  <2>2. /\ ApiOK' /\ PipeOK' /\ budget' \in Budgets
        /\ rec' = AfterDownload(Indices(spec)) \/ rec' = Goto("fail")
    BY <1>9, <2>1, CreateOrUpdateOK DEF MutateHeaders
  <2>3. RecOK'
    BY <1>9, <2>2, AfterDownloadOK, GotoOK DEF MutateHeaders, spec, PCs
  <2> QED
    BY <1>9, <2>2, <2>3 DEF MutateHeaders, CacheOK, EnvOK, IsMap
<1>10. CASE MutateDownloadLink
  <2>1. PICK i \in rec.pend :
           CreateOrUpdate(Downloads(i), mutateDownloadLinkMiddleware(spec, i),
                          AfterDownload(rec.pend \ {i}))
    BY <1>10 DEF MutateDownloadLink
  <2>2. /\ rec.pend \subseteq Indices(spec) /\ spec \in Specs /\ rec.owner \in Owners
        /\ rec.pc = "downloads"
    BY <1>10, LocalsOK DEF MutateDownloadLink, RecOK, spec
  <2>3. /\ Downloads(i) \in Kids
        /\ mutateDownloadLinkMiddleware(spec, i) \in Contents(Downloads(i))
    BY <2>2, KeysAreKids, ContentsOf
  <2>4. /\ ApiOK' /\ PipeOK' /\ budget' \in Budgets
        /\ rec' = AfterDownload(rec.pend \ {i}) \/ rec' = Goto("fail")
    BY <2>1, <2>2, <2>3, CreateOrUpdateOK
  <2>5. RecOK'
    BY <2>2, <2>4, AfterDownloadOK, GotoOK DEF spec, PCs
  <2> QED
    BY <1>10, <2>4, <2>5 DEF MutateDownloadLink, CacheOK, EnvOK, IsMap
<1>11. CASE MutateIngressRoute
  <2>1. IngressRoute \in Kids /\ mutateIngressRoute(spec) \in Contents(IngressRoute)
    BY <1>11, LocalsOK, KeysAreKids, ContentsOf DEF MutateIngressRoute, FixedKeys
  <2> QED
    BY <1>11, <2>1, StageOK DEF MutateIngressRoute, PCs
<1>12. CASE MutatePodDisruptionBudget
  <2>1. PDB \in Kids /\ mutatePodDisruptionBudget \in Contents(PDB)
    BY <1>12, LocalsOK, KeysAreKids, ContentsOf DEF MutatePodDisruptionBudget, FixedKeys
  <2> QED
    BY <1>12, <2>1, StageOK DEF MutatePodDisruptionBudget, PCs
<1>13. CASE Finish
  <2>1. ApiOK' /\ PipeOK' /\ budget' \in Budgets
    BY <1>13, UpdateStatusOK DEF Finish, Statuses
  <2> QED
    BY <1>13, <2>1, IdleOK DEF Finish, CacheOK, EnvOK, IsMap
<1>14. CASE Fail
  <2>1. ApiOK' /\ PipeOK' /\ budget' \in Budgets
    BY <1>14, UpdateStatusOK DEF Fail, Statuses
  <2> QED
    BY <1>14, <2>1, IdleOK DEF Fail, CacheOK, EnvOK, IsMap
<1>15. ASSUME NEW id \in Ids, Deliver(id)
       PROVE  TypeOK'
  <2>1. pipe[id] \in Seq(Versions(id)) /\ pipe[id] # <<>>
    BY <1>15 DEF Deliver, PipeOK
  <2>2. Head(pipe[id]) \in Versions(id) /\ Tail(pipe[id]) \in Seq(Versions(id))
    BY <2>1
  <2>3. CacheOK' /\ PipeOK'
    BY <1>15, <2>2 DEF Deliver, CacheOK, PipeOK, IsMap
  <2> QED
    BY <1>15, <2>3 DEF Deliver, ApiOK, RecOK, EnvOK, IsMap
<1>16. CASE Resync
  BY <1>16 DEF Resync, ApiOK, CacheOK, PipeOK, RecOK, EnvOK, IsMap
<1>17. CASE Restart
  <2>1. budget' \in Budgets
    BY <1>17, SpendOK DEF Restart
  <2>2. CacheOK' /\ PipeOK'
    BY <1>17 DEF Restart, ApiOK, CacheOK, PipeOK, IsMap
  <2> QED
    BY <1>17, <2>1, <2>2, IdleOK DEF Restart, ApiOK, EnvOK, IsMap
<1>18. ASSUME NEW s \in Specs, CreateAtom(s)
       PROVE  TypeOK'
  <2> DEFINE new == [uid |-> nextUid, spec |-> s, created |-> now, status |-> "None"]
  <2>1. new \in Versions(AtomId)
    <3>1. nextUid \in 1 .. MaxUid /\ now \in 0 .. Horizon
      BY <1>18, BoundsAssumption DEF CreateAtom, EnvOK
    <3> QED
      BY <3>1, VersionsOf DEF Atoms, Statuses
  <2>2. ApiOK' /\ PipeOK'
    BY <1>18, <2>1, WriteOK, KeysAreKids DEF CreateAtom
  <2>3. budget' \in Budgets /\ nextUid' \in 1 .. (MaxUid + 1)
    BY <1>18, SpendOK, BoundsAssumption DEF CreateAtom, EnvOK
  <2> QED
    BY <1>18, <2>2, <2>3 DEF CreateAtom, CacheOK, RecOK, EnvOK, IsMap
<1>19. ASSUME NEW s \in Specs, UpdateAtom(s)
       PROVE  TypeOK'
  <2>1. [api[AtomId] EXCEPT !.spec = s] \in Versions(AtomId)
    BY <1>19, VersionsOf, KeysAreKids DEF UpdateAtom, ApiOK, Atoms
  <2>2. ApiOK' /\ PipeOK' /\ budget' \in Budgets
    BY <1>19, <2>1, WriteOK, SpendOK, KeysAreKids DEF UpdateAtom
  <2> QED
    BY <1>19, <2>2 DEF UpdateAtom, CacheOK, RecOK, EnvOK, IsMap
<1>20. CASE DeleteAtom
  <2>1. ApiOK' /\ PipeOK' /\ budget' \in Budgets
    BY <1>20, WriteOK, SpendOK, KeysAreKids, VersionsOf DEF DeleteAtom
  <2> QED
    BY <1>20, <2>1 DEF DeleteAtom, CacheOK, RecOK, EnvOK, IsMap
<1>21. ASSUME NEW o \in Owners \cup {NoObj}, SetOwnerInfo(o)
       PROVE  TypeOK'
  <2>1. ApiOK' /\ PipeOK' /\ budget' \in Budgets
    BY <1>21, WriteOK, SpendOK, KeysAreKids, VersionsOf DEF SetOwnerInfo
  <2> QED
    BY <1>21, <2>1 DEF SetOwnerInfo, CacheOK, RecOK, EnvOK, IsMap
<1>22. ASSUME NEW k \in Kids, Drift(k)
       PROVE  TypeOK'
  <2>1. [api[k] EXCEPT !.content = Foreign] \in Versions(k)
    BY <1>22, VersionsOf, KeysAreKids DEF Drift, ApiOK, Kid
  <2>2. ApiOK' /\ PipeOK' /\ budget' \in Budgets
    BY <1>22, <2>1, WriteOK, SpendOK, KeysAreKids DEF Drift
  <2> QED
    BY <1>22, <2>2 DEF Drift, CacheOK, RecOK, EnvOK, IsMap
<1>23. ASSUME NEW k \in Kids, Remove(k)
       PROVE  TypeOK'
  <2>1. ApiOK' /\ PipeOK' /\ budget' \in Budgets
    BY <1>23, WriteOK, SpendOK, KeysAreKids, VersionsOf DEF Remove
  <2> QED
    BY <1>23, <2>1 DEF Remove, CacheOK, RecOK, EnvOK, IsMap
<1>24. ASSUME NEW id \in {AtomId, Deployment}, WriteStatus(id)
       PROVE  TypeOK'
  <2>1. id \in Ids
    BY KeysAreKids DEF FixedKeys
  <2>2. ApiOK' /\ PipeOK'
    <3>1. /\ api[id] \in Versions(id) /\ UNCHANGED api
          /\ pipe' = [pipe EXCEPT ![id] = Append(@, api[id])]
      BY <1>24, <2>1 DEF WriteStatus, Touch, ApiOK
    <3>2. \A i \in Ids : pipe'[i] \in Seq(Versions(i))
      BY <2>1, <3>1 DEF PipeOK, IsMap
    <3> QED
      BY <3>1, <3>2 DEF ApiOK, PipeOK, IsMap
  <2>3. budget' \in Budgets
    BY <1>24, SpendOK DEF WriteStatus
  <2> QED
    BY <1>24, <2>2, <2>3 DEF WriteStatus, CacheOK, RecOK, EnvOK, IsMap
<1>25. ASSUME NEW k \in Kids, Collect(k)
       PROVE  TypeOK'
  <2>1. ApiOK' /\ PipeOK'
    BY <1>25, WriteOK, KeysAreKids, VersionsOf DEF Collect
  <2> QED
    BY <1>25, <2>1 DEF Collect, CacheOK, RecOK, EnvOK, IsMap
<1>26. CASE Tick
  BY <1>26, BoundsAssumption DEF Tick, ApiOK, CacheOK, PipeOK, RecOK, EnvOK, IsMap
<1> QED
  BY <1>1, <1>2, <1>3, <1>4, <1>5, <1>6, <1>7, <1>8, <1>9, <1>10, <1>11, <1>12, <1>13, <1>14,
     <1>15, <1>16, <1>17, <1>18, <1>19, <1>20, <1>21, <1>22, <1>23, <1>24, <1>25, <1>26
     DEF Next, Reconcile, Users, Others

\* The state keeps its types, and Reconcile never goes on without the Atom and the
\* OwnerInfo it needs, or to a download link group the spec does not have.
THEOREM TypeCorrect == Spec => []TypeOK
BY TypeInit, TypeNext, PTL DEF Spec

-----------------------------------------------------------------------------
(***************************************************************************)
(* Why references resolve.  The uid of an incarnation of the Atom orders   *)
(* everything: the cache shows incarnations in order, a Reconcile call     *)
(* works for one that is no newer than any it may see later, and so no     *)
(* child ever belongs to a newer incarnation than the call that writes it. *)
(* Hence nobody takes a child away from the live Atom, what the cache has  *)
(* once shown to belong to it still does, and what a call has passed is    *)
(* there when it writes an object that refers to it.                       *)
(***************************************************************************)

\* The versions of an object that the controller sees or may yet see.
View(id) == ({api[id], cache[id]} \cup {pipe[id][n] : n \in DOMAIN pipe[id]}) \ {NoObj}

Tracks == \A id \in Ids : /\ pipe[id] = <<>> => cache[id] = api[id]
                          /\ pipe[id] # <<>> => pipe[id][Len(pipe[id])] = api[id]

UidsBelow == /\ \A v \in View(AtomId) : v.uid < nextUid
             /\ \A k \in Kids : \A v \in View(k) : v.owner < nextUid
             /\ Live => api[AtomId].uid = nextUid - 1
             /\ rec.pc # "idle" => rec.atom.uid < nextUid

InOrder ==
    /\ \A m, n \in DOMAIN pipe[AtomId] :
          m < n /\ pipe[AtomId][m] # NoObj /\ pipe[AtomId][n] # NoObj
              => pipe[AtomId][m].uid <= pipe[AtomId][n].uid
    /\ \A n \in DOMAIN pipe[AtomId] :
          cache[AtomId] # NoObj /\ pipe[AtomId][n] # NoObj
              => cache[AtomId].uid <= pipe[AtomId][n].uid

NoneNewer ==
    \A k \in Kids : api[k] # NoObj =>
        /\ rec.pc # "idle" => api[k].owner <= rec.atom.uid
        /\ \A v \in View(AtomId) : api[k].owner <= v.uid

RecOld == rec.pc # "idle" => \A v \in View(AtomId) : rec.atom.uid <= v.uid

UidInv == Tracks /\ UidsBelow /\ InOrder /\ NoneNewer /\ RecOld

KidSeen ==
    Live /\ Untouched =>
        \A k \in Kids : \A v \in View(k) : v.owner = api[AtomId].uid => Owned(k)

\* What the running call has already made sure of, as far as later stages refer to it.
Passed ==
    CASE rec.pc = "deployment" -> {ConfigMap(ConfigData(spec, rec.owner))}
      [] rec.pc = "strip"      -> {Service}
      [] rec.pc = "headers"    -> {Service, StripPrefix}
      [] rec.pc = "downloads"  -> {Service, StripPrefix, Headers}
                                    \cup {Downloads(i) : i \in Indices(spec) \ rec.pend}
      [] rec.pc = "ingress"    -> {Service, StripPrefix, Headers}
                                    \cup {Downloads(i) : i \in Indices(spec)}
      [] OTHER                 -> {}

PassedOwned ==
    Live /\ Untouched /\ rec.pc # "idle" /\ rec.atom.uid = api[AtomId].uid
        => \A k \in Passed : Owned(k)

OwnContent == Untouched => \A k \in Kids : api[k] # NoObj => api[k].content \in Contents(k)

IInv == TypeOK /\ UidInv /\ OwnContent /\ KidSeen /\ PassedOwned /\ RefsResolve

-----------------------------------------------------------------------------
(* The kinds of steps, as far as objects and uids are concerned *)

Quiet == UNCHANGED <<api, cache, pipe, nextUid>>

\* The objects that are about URLs, those that a content of one lists, and whether these
\* are the ones that the running call is to publish.
Routed        == {StripPrefix, IngressRoute} \cup DownloadKeys
URLs(k, c)    == IF k = StripPrefix THEN c ELSE c.urls
HasURLs(k, c) == k \in Routed => URLs(k, c) = spec.urls

WritesAtom(v) == /\ Write(AtomId, v) /\ UNCHANGED <<cache, nextUid>>
                 /\ v # NoObj => Live /\ v.uid = api[AtomId].uid

CreatesAtom(v) == /\ Write(AtomId, v) /\ UNCHANGED <<cache, rec>>
                  /\ ~ Live /\ v # NoObj /\ v.uid = nextUid /\ nextUid' = nextUid + 1

WritesKid(k, v) == /\ Write(k, v) /\ UNCHANGED <<cache, nextUid>>
                   /\ rec.pc # "idle" /\ v # NoObj /\ v.owner = rec.atom.uid
                   /\ v.content \in Contents(k) /\ Refs(k, v.content) \subseteq Passed
                   /\ HasURLs(k, v.content)

DriftsKid(k, v) == /\ Write(k, v) /\ UNCHANGED <<cache, nextUid, rec>>
                   /\ api[k] # NoObj /\ v # NoObj /\ v.owner = api[k].owner
                   /\ budget'.tampers < budget.tampers

RemovesKid(k) == /\ Write(k, NoObj) /\ UNCHANGED <<cache, nextUid, rec>>
                 /\ budget'.tampers < budget.tampers \/ (Live => ~ Owned(k))

WritesOwner(v) == Write(OwnerId, v) /\ UNCHANGED <<cache, nextUid, rec>>

Touches(id) == Touch(id) /\ UNCHANGED <<cache, nextUid, rec>>

Relists == Restart

StoreStep == \/ Quiet
             \/ \E v \in Versions(AtomId) : WritesAtom(v) \/ CreatesAtom(v)
             \/ \E k \in Kids : \E v \in Versions(k) : WritesKid(k, v) \/ DriftsKid(k, v)
             \/ \E k \in Kids : RemovesKid(k)
             \/ \E v \in Versions(OwnerId) : WritesOwner(v)
             \/ \E id \in Ids : Touches(id) \/ Deliver(id)
             \/ Relists

\* A call works for the Atom it fetched until it returns.
RecStep == rec'.pc # "idle" =>
              \/ rec.pc # "idle" /\ rec'.atom = rec.atom
              \/ rec.pc = "idle" /\ Quiet /\ rec'.atom = cache[AtomId] /\ cache[AtomId] # NoObj

BudgetStep == budget'.tampers <= budget.tampers

\* The mutate functions use the URLs of the spec.
LEMMA MutateURLs ==
    /\ HasURLs(StripPrefix, mutateStripPrefixMiddleware(spec))
    /\ \A i : HasURLs(Downloads(i), mutateDownloadLinkMiddleware(spec, i))
    /\ HasURLs(IngressRoute, mutateIngressRoute(spec))
    /\ \A c : \A k \in {Deployment, Service, Headers, PDB} : HasURLs(k, c)
    /\ \A c, d : HasURLs(ConfigMap(d), c)
<1>1. IngressRoute # StripPrefix /\ \A i : Downloads(i) # StripPrefix
  BY KindsDiffer DEF Downloads, StripPrefix
<1>2. \A k \in {Deployment, Service, Headers, PDB} : k \notin Routed
  BY KindsDiffer DEF Routed, FixedKeys
<1>3. \A d : ConfigMap(d) \notin Routed
  BY KindsDiffer DEF Routed, ConfigMap, StripPrefix, IngressRoute
<1> QED
  BY <1>1, <1>2, <1>3
     DEF HasURLs, URLs, mutateStripPrefixMiddleware, mutateDownloadLinkMiddleware, mutateIngressRoute

\* A stage writes at most the object it is about.
LEMMA StageStep ==
    ASSUME TypeOK, rec.pc # "idle", NEW k \in Kids, NEW content \in Contents(k), NEW then,
           Refs(k, content) \subseteq Passed, HasURLs(k, content),
           CreateOrUpdate(k, content, then), UNCHANGED <<cache, nextUid>>
    PROVE  /\ Quiet \/ WritesKid(k, [owner |-> rec.atom.uid, content |-> content])
           /\ [owner |-> rec.atom.uid, content |-> content] \in Versions(k)
           /\ rec' = then \/ rec' = Goto("fail")
           /\ BudgetStep
<1> DEFINE new == [owner |-> rec.atom.uid, content |-> content]
<1>1. new \in Kid(k) /\ new.owner = rec.atom.uid
  BY DEF TypeOK, RecOK, Recs, Atoms, Kid
<1>2. new \in Versions(k) /\ new # NoObj
  BY <1>1, VersionsOf, NoObjAssumption
<1>3. NoWrite \/ Write(k, new)
  BY DEF CreateOrUpdate, Put
<1>4. Quiet \/ WritesKid(k, new)
  BY <1>1, <1>2, <1>3 DEF Quiet, NoWrite, WritesKid
<1>5. BudgetStep
  <2>1. Spend("faults") => BudgetStep
    BY SpendOK DEF TypeOK, BudgetStep
  <2>2. UNCHANGED budget => BudgetStep
    BY DEF TypeOK, EnvOK, Budgets, BudgetStep
  <2> QED
    BY <2>1, <2>2 DEF CreateOrUpdate
<1> QED
  BY <1>2, <1>4, <1>5, CreateOrUpdateOK

\* A stage that goes on or fails is a step of the kinds above.
LEMMA StageKinds ==
    ASSUME TypeOK, rec.pc # "idle", NEW k \in Kids, NEW content \in Contents(k), NEW then,
           Refs(k, content) \subseteq Passed, HasURLs(k, content),
           CreateOrUpdate(k, content, then), UNCHANGED <<cache, nextUid>>,
           then.atom = rec.atom
    PROVE  StoreStep /\ RecStep /\ BudgetStep
<1>1. rec' = then \/ rec' = Goto("fail")
  BY StageStep
<1>2. RecStep
  BY <1>1 DEF RecStep, Goto, TypeOK, RecOK, Recs
<1>3. StoreStep /\ BudgetStep
  BY StageStep DEF StoreStep
<1> QED
  BY <1>2, <1>3

\* The write of the status is one of the Atom that is stored, since a stale one fails.
LEMMA StatusKinds ==
    ASSUME TypeOK, Tracks, NEW s \in Statuses, UpdateStatus(s), rec' = Idle,
           UNCHANGED <<cache, nextUid>>
    PROVE  StoreStep /\ RecStep /\ BudgetStep
<1> DEFINE new == [cache[AtomId] EXCEPT !.status = s]
<1>1. ASSUME NoWrite PROVE StoreStep
  BY <1>1 DEF StoreStep, Quiet, NoWrite
<1>2. ASSUME cache[AtomId] # NoObj, pipe[AtomId] = <<>>, Write(AtomId, new) PROVE StoreStep
  <2>1. cache[AtomId] = api[AtomId] /\ Live
    BY <1>2, KeysAreKids DEF Tracks, Live
  <2>2. cache[AtomId] \in Atoms
    BY <1>2, KeysAreKids, VersionsOf DEF TypeOK, CacheOK
  <2>3. new \in Atoms /\ new.uid = api[AtomId].uid
    BY <2>1, <2>2 DEF Atoms
  <2> QED
    BY <1>2, <2>1, <2>3, VersionsOf DEF StoreStep, WritesAtom
<1>3. StoreStep
  BY <1>1, <1>2 DEF UpdateStatus
<1>4. RecStep
  BY DEF RecStep, Idle
<1>5. BudgetStep
  <2>1. Spend("faults") => BudgetStep
    BY SpendOK DEF TypeOK, BudgetStep
  <2>2. UNCHANGED budget => BudgetStep
    BY DEF TypeOK, EnvOK, Budgets, BudgetStep
  <2> QED
    BY <2>1, <2>2 DEF UpdateStatus
<1> QED
  BY <1>3, <1>4, <1>5

\* Every step is of one of the kinds above.
LEMMA NextKinds ==
    ASSUME TypeOK, Tracks, [Next]_vars
    PROVE  StoreStep /\ RecStep /\ BudgetStep
<1>0. UNCHANGED budget => BudgetStep
  BY DEF TypeOK, EnvOK, Budgets, BudgetStep
<1>a. \A what \in {"edits", "tampers", "touches", "faults", "crashes"} : Spend(what) => BudgetStep
  BY SpendOK DEF TypeOK, BudgetStep
<1>b. UNCHANGED rec => RecStep
  BY DEF RecStep
<1>c. NoWrite /\ UNCHANGED <<cache, nextUid>> => StoreStep /\ Quiet
  BY DEF StoreStep, Quiet, NoWrite
<1>d. rec' = Idle => RecStep
  BY DEF RecStep, Idle
<1>1. CASE UNCHANGED vars
  BY <1>1, <1>0, <1>b, <1>c DEF vars, NoWrite
<1>2. CASE FetchAtom
  <2>1. RecStep
    BY <1>2, <1>c, <1>d DEF FetchAtom, RecStep, Idle
  <2> QED
    BY <1>2, <2>1, <1>0, <1>c DEF FetchAtom
<1>3. CASE FetchOwnerInfo
  <2>1. RecStep
    BY <1>3, <1>d DEF FetchOwnerInfo, RecStep, TypeOK, RecOK, Recs
  <2> QED
    BY <1>3, <2>1, <1>0, <1>c DEF FetchOwnerInfo
<1>4. CASE CheckTTL
  <2>1. RecStep
    BY <1>4, <1>d DEF CheckTTL, RecStep, TypeOK, RecOK, Recs
  <2>2. BudgetStep
    BY <1>4, <1>0, <1>a DEF CheckTTL
  <2>3. Write(AtomId, NoObj) /\ UNCHANGED <<cache, nextUid>> => StoreStep
    BY VersionsOf DEF StoreStep, WritesAtom
  <2>4. StoreStep
    BY <1>4, <2>3, <1>c DEF CheckTTL
  <2> QED
    BY <2>1, <2>2, <2>4
<1>5. CASE MutateConfigMap
  <2> DEFINE d == ConfigData(spec, rec.owner)
  <2>1. ConfigMap(d) \in Kids /\ d \in Contents(ConfigMap(d)) /\ rec.pc # "idle"
    BY <1>5, LocalsOK, KeysAreKids, ContentsOf DEF MutateConfigMap, TypeOK
  <2>2. Goto("deployment").atom = rec.atom /\ Goto("fail").atom = rec.atom
    BY DEF Goto, TypeOK, RecOK, Recs
  <2>r. Refs(ConfigMap(d), d) = {}
    BY DEF Refs, ConfigMap, Deployment, IngressRoute
  <2>3. CASE CreateOrUpdate(ConfigMap(d), d, Goto("deployment"))
    <3> HIDE DEF d
    <3> QED
      BY <1>5, <2>1, <2>2, <2>3, <2>r, MutateURLs, StageKinds DEF MutateConfigMap
  <2>4. CASE rec' = Goto("fail") /\ NoWrite /\ UNCHANGED budget
    <3>1. RecStep
      BY <2>1, <2>2, <2>4 DEF RecStep
    <3> QED
      BY <1>5, <2>4, <3>1, <1>0, <1>c DEF MutateConfigMap
  <2> QED
    BY <1>5, <2>3, <2>4 DEF MutateConfigMap
<1>6. CASE MutateDeployment
  <2>1. Deployment \in Kids /\ mutateDeployment(ConfigData(spec, rec.owner)) \in Contents(Deployment) /\ rec.pc # "idle"
    BY <1>6, LocalsOK, KeysAreKids, ContentsOf DEF MutateDeployment, FixedKeys, TypeOK
  <2>2. Goto("service").atom = rec.atom
    BY DEF Goto, TypeOK, RecOK, Recs
  <2>r. Refs(Deployment, mutateDeployment(ConfigData(spec, rec.owner))) \subseteq Passed
    BY <1>6, KindsDiffer DEF Refs, Passed, MutateDeployment, mutateDeployment
  <2> QED
    BY <1>6, <2>1, <2>2, <2>r, MutateURLs, StageKinds DEF MutateDeployment
<1>7. CASE MutateService
  <2>1. Service \in Kids /\ mutateService \in Contents(Service) /\ rec.pc # "idle"
    BY <1>7, LocalsOK, KeysAreKids, ContentsOf DEF MutateService, FixedKeys, TypeOK
  <2>2. Goto("strip").atom = rec.atom
    BY DEF Goto, TypeOK, RecOK, Recs
  <2>r. Refs(Service, mutateService) \subseteq Passed
    BY KindsDiffer DEF Refs
  <2> QED
    BY <1>7, <2>1, <2>2, <2>r, MutateURLs, StageKinds DEF MutateService
<1>8. CASE MutateStripPrefix
  <2>1. StripPrefix \in Kids /\ mutateStripPrefixMiddleware(spec) \in Contents(StripPrefix) /\ rec.pc # "idle"
    BY <1>8, LocalsOK, KeysAreKids, ContentsOf DEF MutateStripPrefix, FixedKeys, TypeOK
  <2>2. Goto("headers").atom = rec.atom
    BY DEF Goto, TypeOK, RecOK, Recs
  <2>r. Refs(StripPrefix, mutateStripPrefixMiddleware(spec)) \subseteq Passed
    BY KindsDiffer DEF Refs
  <2> QED
    BY <1>8, <2>1, <2>2, <2>r, MutateURLs, StageKinds DEF MutateStripPrefix
<1>9. CASE MutateHeaders
  <2>1. Headers \in Kids /\ mutateHeadersMiddleware \in Contents(Headers) /\ rec.pc # "idle"
    BY <1>9, LocalsOK, KeysAreKids, ContentsOf DEF MutateHeaders, FixedKeys, TypeOK
  <2>2. AfterDownload(Indices(spec)).atom = rec.atom
    BY DEF AfterDownload, TypeOK, RecOK, Recs
  <2>r. Refs(Headers, mutateHeadersMiddleware) \subseteq Passed
    BY KindsDiffer DEF Refs
  <2> QED
    BY <1>9, <2>1, <2>2, <2>r, MutateURLs, StageKinds DEF MutateHeaders
<1>10. CASE MutateIngressRoute
  <2>1. IngressRoute \in Kids /\ mutateIngressRoute(spec) \in Contents(IngressRoute) /\ rec.pc # "idle"
    BY <1>10, LocalsOK, KeysAreKids, ContentsOf DEF MutateIngressRoute, FixedKeys, TypeOK
  <2>2. Goto("pdb").atom = rec.atom
    BY DEF Goto, TypeOK, RecOK, Recs
  <2>r. Refs(IngressRoute, mutateIngressRoute(spec)) \subseteq Passed
    BY <1>10, KindsDiffer DEF Refs, Passed, MutateIngressRoute, mutateIngressRoute, Indices
  <2> QED
    BY <1>10, <2>1, <2>2, <2>r, MutateURLs, StageKinds DEF MutateIngressRoute
<1>11. CASE MutatePodDisruptionBudget
  <2>1. PDB \in Kids /\ mutatePodDisruptionBudget \in Contents(PDB) /\ rec.pc # "idle"
    BY <1>11, LocalsOK, KeysAreKids, ContentsOf DEF MutatePodDisruptionBudget, FixedKeys, TypeOK
  <2>2. Goto("finish").atom = rec.atom
    BY DEF Goto, TypeOK, RecOK, Recs
  <2>r. Refs(PDB, mutatePodDisruptionBudget) \subseteq Passed
    BY KindsDiffer DEF Refs
  <2> QED
    BY <1>11, <2>1, <2>2, <2>r, MutateURLs, StageKinds DEF MutatePodDisruptionBudget
<1>12. CASE MutateDownloadLink
  <2>1. PICK i \in rec.pend :
           CreateOrUpdate(Downloads(i), mutateDownloadLinkMiddleware(spec, i),
                          AfterDownload(rec.pend \ {i}))
    BY <1>12 DEF MutateDownloadLink
  <2>2. /\ rec.pend \subseteq Indices(spec) /\ spec \in Specs /\ rec.owner \in Owners
        /\ rec.pc = "downloads"
    BY <1>12, LocalsOK DEF MutateDownloadLink, RecOK, spec, TypeOK
  <2>3. /\ Downloads(i) \in Kids
        /\ mutateDownloadLinkMiddleware(spec, i) \in Contents(Downloads(i))
    BY <2>2, KeysAreKids, ContentsOf
  <2>r. Refs(Downloads(i), mutateDownloadLinkMiddleware(spec, i)) = {}
    BY DEF Refs, Downloads, Deployment, IngressRoute
  <2>4. AfterDownload(rec.pend \ {i}).atom = rec.atom
    BY DEF AfterDownload, TypeOK, RecOK, Recs
  <2> QED
    BY <1>12, <2>1, <2>2, <2>3, <2>4, <2>r, MutateURLs, StageKinds DEF MutateDownloadLink
<1>13. CASE Finish
  BY <1>13, StatusKinds DEF Finish, Statuses
<1>14. CASE Fail
  BY <1>14, StatusKinds DEF Fail, Statuses
<1>15. ASSUME NEW id \in Ids, Deliver(id)
       PROVE  StoreStep /\ RecStep /\ BudgetStep
  BY <1>15, <1>0, <1>b DEF Deliver, StoreStep
<1>16. CASE Resync
  BY <1>16, <1>0, <1>b, <1>c DEF Resync, NoWrite
<1>17. CASE Restart
  BY <1>17, <1>a, <1>d DEF Restart, StoreStep, Relists
<1>18. ASSUME NEW s \in Specs, CreateAtom(s)
       PROVE  StoreStep /\ RecStep /\ BudgetStep
  <2> DEFINE new == [uid |-> nextUid, spec |-> s, created |-> now, status |-> "None"]
  <2>1. new \in Atoms /\ new.uid = nextUid
    <3>1. nextUid \in 1 .. MaxUid /\ now \in 0 .. Horizon
      BY <1>18, BoundsAssumption DEF CreateAtom, EnvOK, TypeOK
    <3> QED
      BY <3>1 DEF Atoms, Statuses
  <2>2. CreatesAtom(new)
    BY <1>18, <2>1, NoObjAssumption DEF CreateAtom, CreatesAtom, Live
  <2> QED
    BY <1>18, <2>1, <2>2, <1>a, <1>b, VersionsOf DEF CreateAtom, StoreStep
<1>19. ASSUME NEW s \in Specs, UpdateAtom(s)
       PROVE  StoreStep /\ RecStep /\ BudgetStep
  <2> DEFINE new == [api[AtomId] EXCEPT !.spec = s]
  <2>1. new \in Atoms /\ new.uid = api[AtomId].uid
    BY <1>19, VersionsOf, KeysAreKids DEF UpdateAtom, ApiOK, Atoms, TypeOK
  <2>2. WritesAtom(new)
    BY <1>19, <2>1 DEF UpdateAtom, WritesAtom, Live
  <2> QED
    BY <1>19, <2>1, <2>2, <1>a, <1>b, VersionsOf DEF UpdateAtom, StoreStep
<1>20. CASE DeleteAtom
  BY <1>20, <1>a, <1>b, VersionsOf DEF DeleteAtom, StoreStep, WritesAtom
<1>21. ASSUME NEW o \in Owners \cup {NoObj}, SetOwnerInfo(o)
       PROVE  StoreStep /\ RecStep /\ BudgetStep
  BY <1>21, <1>a, <1>b, VersionsOf DEF SetOwnerInfo, StoreStep, WritesOwner
<1>22. ASSUME NEW k \in Kids, Drift(k)
       PROVE  StoreStep /\ RecStep /\ BudgetStep
  <2> DEFINE new == [api[k] EXCEPT !.content = Foreign]
  <2>1. new \in Kid(k) /\ new.owner = api[k].owner
    BY <1>22, VersionsOf, KeysAreKids DEF Drift, ApiOK, Kid, TypeOK
  <2>2. DriftsKid(k, new)
    BY <1>22, <2>1, SpendOK, NoObjAssumption DEF Drift, DriftsKid, TypeOK
  <2> QED
    BY <1>22, <2>1, <2>2, <1>a, <1>b, VersionsOf DEF Drift, StoreStep
<1>23. ASSUME NEW k \in Kids, Remove(k)
       PROVE  StoreStep /\ RecStep /\ BudgetStep
  BY <1>23, <1>a, <1>b, SpendOK DEF Remove, StoreStep, RemovesKid, TypeOK
<1>24. ASSUME NEW id \in {AtomId, Deployment}, WriteStatus(id)
       PROVE  StoreStep /\ RecStep /\ BudgetStep
  <2>1. id \in Ids
    BY KeysAreKids DEF FixedKeys
  <2> QED
    BY <1>24, <2>1, <1>a, <1>b DEF WriteStatus, StoreStep, Touches
<1>25. ASSUME NEW k \in Kids, Collect(k)
       PROVE  StoreStep /\ RecStep /\ BudgetStep
  BY <1>25, <1>0, <1>b DEF Collect, StoreStep, RemovesKid, Live, Owned
<1>26. CASE Tick
  BY <1>26, <1>0, <1>b, <1>c DEF Tick, NoWrite
<1> QED
  BY <1>1, <1>2, <1>3, <1>4, <1>5, <1>6, <1>7, <1>8, <1>9, <1>10, <1>11, <1>12, <1>13, <1>14, <1>15, <1>16, <1>17, <1>18, <1>19, <1>20, <1>21, <1>22, <1>23, <1>24, <1>25, <1>26
     DEF Next, Reconcile, Users, Others

-----------------------------------------------------------------------------
(* What each kind of step does to the views *)

\* A write adds one version to the view of one object.
LEMMA WriteView ==
    ASSUME TypeOK, Tracks, NEW id \in Ids, NEW v \in Versions(id), Write(id, v), UNCHANGED cache
    PROVE  /\ api'[id] = v
           /\ \A i \in Ids : i # id => api'[i] = api[i] /\ View(i)' = View(i)
           /\ View(id)' \subseteq View(id) \cup {v}
           /\ Tracks'
<1>1. /\ api' = [api EXCEPT ![id] = v]
      /\ pipe' = [pipe EXCEPT ![id] = Append(@, v)]
  BY DEF Write
<1>2. /\ api'[id] = v /\ pipe'[id] = Append(pipe[id], v)
      /\ \A i \in Ids : i # id => api'[i] = api[i] /\ pipe'[i] = pipe[i]
  BY <1>1 DEF TypeOK, ApiOK, PipeOK, IsMap
<1>3. \A i \in Ids : i # id => View(i)' = View(i)
  BY <1>2 DEF View
<1>4. pipe[id] \in Seq(Versions(id))
  BY DEF TypeOK, PipeOK
<1>5. /\ DOMAIN pipe'[id] = 1 .. (Len(pipe[id]) + 1)
      /\ \A n \in 1 .. Len(pipe[id]) : pipe'[id][n] = pipe[id][n]
      /\ pipe'[id][Len(pipe[id]) + 1] = v
      /\ Len(pipe'[id]) = Len(pipe[id]) + 1
  BY <1>2, <1>4
<1>6. View(id)' \subseteq View(id) \cup {v}
  <2> SUFFICES ASSUME NEW w \in View(id)', w # v PROVE w \in View(id)
    OBVIOUS
  <2>1. w # NoObj /\ (w = cache[id] \/ \E n \in DOMAIN pipe'[id] : w = pipe'[id][n])
    BY <1>2 DEF View
  <2>2. w = cache[id] \/ \E n \in 1 .. Len(pipe[id]) : w = pipe[id][n]
    BY <2>1, <1>4, <1>5
  <2> QED
    BY <2>1, <2>2, <1>4 DEF View
<1>7. Tracks'
  <2>1. \A i \in Ids : i # id => /\ pipe'[i] = <<>> => cache'[i] = api'[i]
                                 /\ pipe'[i] # <<>> => pipe'[i][Len(pipe'[i])] = api'[i]
    BY <1>2 DEF Tracks
  <2>2. pipe'[id] # <<>> /\ pipe'[id][Len(pipe'[id])] = api'[id]
    BY <1>2, <1>4, <1>5
  <2> QED
    BY <2>1, <2>2 DEF Tracks
<1> QED
  BY <1>2, <1>3, <1>6, <1>7

\* A touch is a write of what is stored.
LEMMA TouchView ==
    ASSUME TypeOK, Tracks, NEW id \in Ids, Touch(id), UNCHANGED cache
    PROVE  /\ UNCHANGED api
           /\ \A i \in Ids : View(i)' \subseteq View(i)
           /\ Tracks'
<1>1. api[id] \in Versions(id) /\ api' = api /\ api' = [api EXCEPT ![id] = api[id]]
  BY DEF Touch, TypeOK, ApiOK, IsMap
<1>2. Write(id, api[id])
  BY <1>1 DEF Touch, Write
<1>3. /\ \A i \in Ids : i # id => View(i)' = View(i)
      /\ View(id)' \subseteq View(id) \cup {api[id]}
      /\ Tracks'
  BY <1>1, <1>2, WriteView
<1>4. View(id)' \subseteq View(id)
  BY <1>3 DEF View
<1> QED
  BY <1>1, <1>3, <1>4

\* Delivery moves a version from the pipe to the cache.
LEMMA DeliverView ==
    ASSUME TypeOK, Tracks, NEW id \in Ids, Deliver(id)
    PROVE  /\ UNCHANGED api
           /\ \A i \in Ids : View(i)' \subseteq View(i)
           /\ Tracks'
<1>1. /\ api' = api
      /\ cache'[id] = Head(pipe[id]) /\ pipe'[id] = Tail(pipe[id])
      /\ \A i \in Ids : i # id => cache'[i] = cache[i] /\ pipe'[i] = pipe[i]
  BY DEF Deliver, TypeOK, CacheOK, PipeOK, IsMap
<1>2. pipe[id] \in Seq(Versions(id)) /\ pipe[id] # <<>>
  BY DEF Deliver, TypeOK, PipeOK
<1>3. /\ Len(pipe[id]) \in Nat /\ Len(pipe[id]) >= 1
      /\ DOMAIN pipe[id] = 1 .. Len(pipe[id])
      /\ Head(pipe[id]) = pipe[id][1]
      /\ Len(pipe'[id]) = Len(pipe[id]) - 1
      /\ DOMAIN pipe'[id] = 1 .. (Len(pipe[id]) - 1)
      /\ \A n \in 1 .. (Len(pipe[id]) - 1) : pipe'[id][n] = pipe[id][n + 1]
  BY <1>1, <1>2
<1>4. View(id)' \subseteq View(id)
  <2> SUFFICES ASSUME NEW w \in View(id)' PROVE w \in View(id)
    OBVIOUS
  <2>1. w # NoObj /\ (w = api[id] \/ w = pipe[id][1]
                        \/ \E n \in 1 .. (Len(pipe[id]) - 1) : w = pipe[id][n + 1])
    BY <1>1, <1>3 DEF View
  <2>2. w = api[id] \/ \E n \in 1 .. Len(pipe[id]) : w = pipe[id][n]
    BY <2>1, <1>3
  <2> QED
    BY <2>1, <2>2, <1>3 DEF View
<1>5. Tracks'
  <2>1. \A i \in Ids : i # id => /\ pipe'[i] = <<>> => cache'[i] = api'[i]
                                 /\ pipe'[i] # <<>> => pipe'[i][Len(pipe'[i])] = api'[i]
    BY <1>1 DEF Tracks
  <2>2. pipe[id][Len(pipe[id])] = api[id]
    BY <1>2 DEF Tracks
  <2>3. pipe'[id] = <<>> => cache'[id] = api'[id]
    <3>1. pipe'[id] = <<>> => Len(pipe[id]) = 1
      BY <1>3
    <3> QED
      BY <3>1, <2>2, <1>1, <1>3
  <2>4. pipe'[id] # <<>> => pipe'[id][Len(pipe'[id])] = api'[id]
    <3>1. pipe'[id] # <<>> => Len(pipe'[id]) >= 1
      BY <1>1, <1>2, <1>3
    <3> QED
      BY <3>1, <2>2, <1>1, <1>3
  <2> QED
    BY <2>1, <2>3, <2>4 DEF Tracks
<1>6. \A i \in Ids : View(i)' \subseteq View(i)
  <2>1. \A i \in Ids : i # id => View(i)' = View(i)
    BY <1>1 DEF View
  <2> QED
    BY <1>4, <2>1
<1> QED
  BY <1>1, <1>5, <1>6

\* After a restart only what is stored is seen.
LEMMA RelistView ==
    ASSUME TypeOK, Relists
    PROVE  /\ UNCHANGED api
           /\ \A i \in Ids : View(i)' \subseteq View(i)
           /\ Tracks'
BY DEF Relists, Restart, View, Tracks, TypeOK, ApiOK, IsMap

-----------------------------------------------------------------------------
(* The order of the uids *)

\* Views hold Atoms and children, and uids are numbers.
LEMMA ViewOK ==
    ASSUME TypeOK
    PROVE  /\ \A v \in View(AtomId) : v \in Atoms /\ v.uid \in Nat
           /\ \A k \in Kids : \A v \in View(k) : v \in Kid(k) /\ v.owner \in Nat
           /\ nextUid \in Nat
           /\ rec.pc # "idle" => rec.atom \in Atoms /\ rec.atom.uid \in Nat
           /\ Live => api[AtomId] \in View(AtomId)
           /\ cache[AtomId] # NoObj => cache[AtomId] \in View(AtomId)
           /\ \A k \in Kids : api[k] # NoObj => api[k] \in View(k)
           /\ \A k \in Kids : cache[k] # NoObj => cache[k] \in View(k)
<1>1. \A id \in Ids : View(id) \subseteq Versions(id) \ {NoObj}
  <2> SUFFICES ASSUME NEW id \in Ids PROVE View(id) \subseteq Versions(id) \ {NoObj}
    OBVIOUS
  <2>1. /\ api[id] \in Versions(id) /\ cache[id] \in Versions(id)
        /\ pipe[id] \in Seq(Versions(id))
    BY DEF TypeOK, ApiOK, CacheOK, PipeOK
  <2>2. \A n \in DOMAIN pipe[id] : pipe[id][n] \in Versions(id)
    BY <2>1
  <2> QED
    BY <2>1, <2>2 DEF View
<1>2. 1 .. MaxUid \subseteq Nat /\ nextUid \in Nat
  BY BoundsAssumption DEF TypeOK, EnvOK
<1>3. \A v \in View(AtomId) : v \in Atoms
  BY <1>1, VersionsOf, KeysAreKids
<1>4. \A k \in Kids : \A v \in View(k) : v \in Kid(k)
  BY <1>1, VersionsOf, KeysAreKids
<1>5. rec.pc # "idle" => rec.atom \in Atoms
  BY DEF TypeOK, RecOK, Recs
<1>6. \A v \in Atoms : v.uid \in Nat
  BY <1>2 DEF Atoms
<1>7. \A k \in Kids : \A v \in Kid(k) : v.owner \in Nat
  BY <1>2 DEF Kid
<1> QED
  BY <1>2, <1>3, <1>4, <1>5, <1>6, <1>7 DEF View, Live

LEMMA UidInit == Init => UidInv
<1> SUFFICES ASSUME Init PROVE UidInv
  OBVIOUS
<1>1. /\ api[AtomId] = NoObj /\ \A k \in Kids : api[k] = NoObj
      /\ cache = api /\ \A id \in Ids : pipe[id] = <<>>
      /\ rec.pc = "idle"
  BY KindsDiffer, KeysAreKids DEF Init, Idle
<1>2. View(AtomId) = {} /\ \A k \in Kids : View(k) = {}
  BY <1>1, KeysAreKids DEF View
<1>3. Tracks
  BY <1>1 DEF Tracks
<1>4. InOrder
  BY <1>1, KeysAreKids DEF InOrder
<1> QED
  BY <1>1, <1>2, <1>3, <1>4 DEF UidInv, UidsBelow, NoneNewer, RecOld, Live

\* Incarnations reach the cache in order.
LEMMA OrderNext ==
    ASSUME TypeOK, UidInv, StoreStep
    PROVE  InOrder'
<1> DEFINE P == pipe[AtomId]
<1>1. P \in Seq(Versions(AtomId)) /\ DOMAIN P = 1 .. Len(P) /\ Len(P) \in Nat
  BY KeysAreKids DEF TypeOK, PipeOK
<1>2. ASSUME pipe'[AtomId] = P, cache'[AtomId] = cache[AtomId]
      PROVE  InOrder'
  BY <1>2 DEF UidInv, InOrder
<1>3. ASSUME NEW v \in Versions(AtomId), pipe' = [pipe EXCEPT ![AtomId] = Append(@, v)],
             UNCHANGED cache, v # NoObj => \A w \in View(AtomId) : w.uid <= v.uid
      PROVE  InOrder'
  <2>1. /\ pipe'[AtomId] = Append(P, v)
        /\ DOMAIN pipe'[AtomId] = 1 .. (Len(P) + 1)
        /\ \A n \in 1 .. Len(P) : pipe'[AtomId][n] = P[n]
        /\ pipe'[AtomId][Len(P) + 1] = v
    BY <1>1, <1>3, KeysAreKids DEF TypeOK, PipeOK, IsMap
  <2>2. \A n \in 1 .. Len(P) : P[n] # NoObj /\ v # NoObj => P[n].uid <= v.uid
    BY <1>1, <1>3 DEF View
  <2>3. cache[AtomId] # NoObj /\ v # NoObj => cache[AtomId].uid <= v.uid
    BY <1>3 DEF View
  <2>4. ASSUME NEW m \in DOMAIN pipe'[AtomId], NEW n \in DOMAIN pipe'[AtomId], m < n,
               pipe'[AtomId][m] # NoObj, pipe'[AtomId][n] # NoObj
        PROVE  pipe'[AtomId][m].uid <= pipe'[AtomId][n].uid
    <3>1. m \in 1 .. Len(P)
      BY <2>1, <2>4, <1>1
    <3>2. CASE n \in 1 .. Len(P)
      BY <2>1, <2>4, <3>1, <3>2, <1>1 DEF UidInv, InOrder
    <3>3. CASE n = Len(P) + 1
      BY <2>1, <2>2, <2>4, <3>1, <3>3
    <3> QED
      BY <2>1, <3>2, <3>3, <1>1
  <2>5. ASSUME NEW n \in DOMAIN pipe'[AtomId], cache[AtomId] # NoObj, pipe'[AtomId][n] # NoObj
        PROVE  cache[AtomId].uid <= pipe'[AtomId][n].uid
    <3>1. CASE n \in 1 .. Len(P)
      BY <2>1, <2>5, <3>1, <1>1 DEF UidInv, InOrder
    <3>2. CASE n = Len(P) + 1
      BY <2>1, <2>3, <2>5, <3>2
    <3> QED
      BY <2>1, <3>1, <3>2, <1>1
  <2> QED
    BY <1>3, <2>4, <2>5 DEF InOrder
<1>4. CASE Quiet
  BY <1>2, <1>4 DEF Quiet
<1>5. ASSUME NEW v \in Versions(AtomId), WritesAtom(v) \/ CreatesAtom(v)
      PROVE  InOrder'
  <2>1. v # NoObj => v.uid >= nextUid - 1
    BY <1>5, ViewOK DEF WritesAtom, CreatesAtom, UidInv, UidsBelow
  <2>2. v # NoObj => v \in Atoms /\ v.uid \in Int
    <3>1. v # NoObj => v \in Atoms
      BY VersionsOf
    <3> QED
      BY <3>1, BoundsAssumption DEF Atoms
  <2>3. v # NoObj => \A w \in View(AtomId) : w.uid <= v.uid
    BY <2>1, <2>2, ViewOK DEF UidInv, UidsBelow
  <2> QED
    BY <1>3, <1>5, <2>3 DEF WritesAtom, CreatesAtom, Write
<1>6. ASSUME NEW i \in Ids, i # AtomId, NEW v, Write(i, v), UNCHANGED cache
      PROVE  InOrder'
  BY <1>2, <1>6, KeysAreKids DEF Write, TypeOK, PipeOK, IsMap
<1>7. ASSUME NEW i \in Ids, Touches(i)
      PROVE  InOrder'
  <2>1. CASE i = AtomId
    <3>1. api[AtomId] \in Versions(AtomId)
      BY KeysAreKids DEF TypeOK, ApiOK
    <3>2. api[AtomId] # NoObj => \A w \in View(AtomId) : w.uid <= api[AtomId].uid
      BY ViewOK DEF UidInv, UidsBelow, Live
    <3> QED
      BY <1>3, <1>7, <2>1, <3>1, <3>2 DEF Touches, Touch
  <2>2. CASE i # AtomId
    BY <1>2, <1>7, <2>2, KeysAreKids DEF Touches, Touch, TypeOK, PipeOK, IsMap
  <2> QED
    BY <2>1, <2>2
<1>8. ASSUME NEW i \in Ids, Deliver(i)
      PROVE  InOrder'
  <2>1. CASE i # AtomId
    BY <1>2, <1>8, <2>1, KeysAreKids DEF Deliver, TypeOK, CacheOK, PipeOK, IsMap
  <2>2. CASE i = AtomId
    <3>1. /\ P # <<>> /\ pipe'[AtomId] = Tail(P) /\ cache'[AtomId] = P[1]
      BY <1>8, <2>2, <1>1, KeysAreKids DEF Deliver, TypeOK, CacheOK, PipeOK, IsMap
    <3>2. /\ Len(P) >= 1
          /\ DOMAIN pipe'[AtomId] = 1 .. (Len(P) - 1)
          /\ \A n \in 1 .. (Len(P) - 1) : pipe'[AtomId][n] = P[n + 1]
      BY <3>1, <1>1
    <3>3. \A m, n \in DOMAIN P : m < n /\ P[m] # NoObj /\ P[n] # NoObj => P[m].uid <= P[n].uid
      BY DEF UidInv, InOrder
    <3>4. ASSUME NEW n \in DOMAIN pipe'[AtomId]
          PROVE  /\ n + 1 \in DOMAIN P /\ pipe'[AtomId][n] = P[n + 1]
                 /\ 1 \in DOMAIN P /\ 1 < n + 1
      BY <1>1, <3>2
    <3>5. \A n \in DOMAIN pipe'[AtomId] :
             cache'[AtomId] # NoObj /\ pipe'[AtomId][n] # NoObj
                => cache'[AtomId].uid <= pipe'[AtomId][n].uid
      BY <3>1, <3>3, <3>4
    <3>6. ASSUME NEW m \in DOMAIN pipe'[AtomId], NEW n \in DOMAIN pipe'[AtomId], m < n,
                 pipe'[AtomId][m] # NoObj, pipe'[AtomId][n] # NoObj
          PROVE  pipe'[AtomId][m].uid <= pipe'[AtomId][n].uid
      <4>1. m + 1 < n + 1
        BY <3>2, <3>6, <1>1
      <4> QED
        BY <3>3, <3>4, <3>6, <4>1
    <3> QED
      BY <3>5, <3>6 DEF InOrder
  <2> QED
    BY <2>1, <2>2
<1>9. CASE Relists
  BY <1>9, KeysAreKids DEF Relists, Restart, InOrder
<1> QED
  BY <1>4, <1>5, <1>6, <1>7, <1>8, <1>9, KindsDiffer, KeysAreKids
     DEF StoreStep, WritesKid, DriftsKid, RemovesKid, WritesOwner

\* The uids stay in order under every kind of step.
LEMMA UidNext ==
    ASSUME TypeOK, TypeOK', UidInv, [Next]_vars
    PROVE  UidInv'
<1> USE DEF UidInv
<1>0. StoreStep /\ RecStep
  BY NextKinds
<1>1. InOrder'
  BY <1>0, OrderNext
\* Steps that add nothing to any view and change no uid of the running call.
<1>3. ASSUME Tracks', UNCHANGED <<api, nextUid>>, \A i \in Ids : View(i)' \subseteq View(i)
      PROVE  UidInv'
  <2>1. rec'.pc # "idle" =>
           \/ rec.pc # "idle" /\ rec'.atom = rec.atom
           \/ rec'.atom = cache[AtomId] /\ cache[AtomId] # NoObj
    BY <1>0 DEF RecStep
  <2>2. cache[AtomId] # NoObj => \A v \in View(AtomId) : cache[AtomId].uid <= v.uid
    <3> SUFFICES ASSUME cache[AtomId] # NoObj, NEW v \in View(AtomId)
                 PROVE  cache[AtomId].uid <= v.uid
      OBVIOUS
    <3>1. CASE v = api[AtomId]
      BY <3>1, ViewOK DEF UidsBelow, View, Live
    <3>2. CASE v = cache[AtomId]
      BY <3>2, ViewOK
    <3>3. CASE \E n \in DOMAIN pipe[AtomId] : v = pipe[AtomId][n]
      BY <3>3 DEF InOrder, View
    <3> QED
      BY <3>1, <3>2, <3>3 DEF View
  <2>3. UidsBelow'
    BY <1>3, <2>1, ViewOK, KeysAreKids DEF UidsBelow, RecOld, Live
  <2>4. NoneNewer'
    BY <1>3, <2>1, ViewOK, KeysAreKids DEF NoneNewer
  <2>5. RecOld'
    BY <1>3, <2>1, <2>2, KeysAreKids DEF RecOld
  <2> QED
    BY <1>1, <1>3, <2>3, <2>4, <2>5
<1>4. CASE Quiet
  BY <1>3, <1>4 DEF Quiet, View, Tracks
<1>5. ASSUME NEW v \in Versions(AtomId), WritesAtom(v)
      PROVE  UidInv'
  <2>1. /\ api'[AtomId] = v
        /\ \A k \in Kids : api'[k] = api[k] /\ View(k)' = View(k)
        /\ View(AtomId)' \subseteq View(AtomId) \cup {v}
        /\ Tracks' /\ nextUid' = nextUid
    BY <1>5, WriteView, KeysAreKids, KindsDiffer DEF WritesAtom
  <2>2. v # NoObj => Live /\ v.uid = api[AtomId].uid /\ api[AtomId] \in View(AtomId)
    BY <1>5, ViewOK DEF WritesAtom
  <2>3. \A w \in View(AtomId)' : \E u \in View(AtomId) : w.uid = u.uid
    BY <2>1, <2>2 DEF View
  <2>4. rec'.pc # "idle" => rec.pc # "idle" /\ rec'.atom = rec.atom
    <3>1. ~ Quiet
      <4>1. pipe'[AtomId] = Append(pipe[AtomId], v) /\ pipe[AtomId] \in Seq(Versions(AtomId))
        BY <1>5, KeysAreKids DEF WritesAtom, Write, TypeOK, PipeOK, IsMap
      <4> QED
        BY <4>1 DEF Quiet
    <3> QED
      BY <1>0, <3>1 DEF RecStep
  <2>5. UidsBelow'
    BY <2>1, <2>2, <2>3, <2>4 DEF UidsBelow, Live
  <2>6. NoneNewer'
    BY <2>1, <2>3, <2>4 DEF NoneNewer
  <2>7. RecOld'
    BY <2>3, <2>4 DEF RecOld
  <2> QED
    BY <1>1, <2>1, <2>5, <2>6, <2>7
<1>6. ASSUME NEW v \in Versions(AtomId), CreatesAtom(v)
      PROVE  UidInv'
  <2>1. /\ api'[AtomId] = v
        /\ \A k \in Kids : api'[k] = api[k] /\ View(k)' = View(k)
        /\ View(AtomId)' \subseteq View(AtomId) \cup {v}
        /\ Tracks'
    BY <1>6, WriteView, KeysAreKids, KindsDiffer DEF CreatesAtom
  <2>2. v # NoObj /\ v.uid = nextUid /\ nextUid' = nextUid + 1 /\ rec' = rec
    BY <1>6 DEF CreatesAtom
  <2>3. UidsBelow'
    BY <2>1, <2>2, ViewOK DEF UidsBelow, Live
  <2>4. NoneNewer'
    BY <2>1, <2>2, ViewOK DEF NoneNewer, UidsBelow
  <2>5. RecOld'
    BY <2>1, <2>2, ViewOK DEF RecOld, UidsBelow
  <2> QED
    BY <1>1, <2>1, <2>3, <2>4, <2>5
<1>7. ASSUME NEW k \in Kids, NEW v \in Versions(k), Write(k, v), UNCHANGED <<cache, nextUid>>,
             v # NoObj => \/ rec.pc # "idle" /\ v.owner = rec.atom.uid
                          \/ api[k] # NoObj /\ v.owner = api[k].owner
      PROVE  UidInv'
  <2>1. /\ api'[k] = v
        /\ api'[AtomId] = api[AtomId] /\ View(AtomId)' = View(AtomId)
        /\ \A i \in Kids : i # k => api'[i] = api[i] /\ View(i)' = View(i)
        /\ View(k)' \subseteq View(k) \cup {v}
        /\ Tracks' /\ nextUid' = nextUid
    BY <1>7, WriteView, KeysAreKids, KindsDiffer
  <2>2. rec'.pc # "idle" => rec.pc # "idle" /\ rec'.atom = rec.atom
    <3>1. ~ Quiet
      <4>1. pipe'[k] = Append(pipe[k], v) /\ pipe[k] \in Seq(Versions(k))
        BY <1>7, KeysAreKids DEF Write, TypeOK, PipeOK, IsMap
      <4> QED
        BY <4>1 DEF Quiet
    <3> QED
      BY <1>0, <3>1 DEF RecStep
  <2>3. v # NoObj => /\ v.owner < nextUid
                     /\ rec.pc # "idle" => v.owner <= rec.atom.uid
                     /\ \A w \in View(AtomId) : v.owner <= w.uid
    BY <1>7, ViewOK DEF UidsBelow, NoneNewer, RecOld
  <2>4. \A i \in Kids : \A w \in View(i)' : w.owner < nextUid
    <3> SUFFICES ASSUME NEW i \in Kids, NEW w \in View(i)' PROVE w.owner < nextUid
      OBVIOUS
    <3>1. w # NoObj
      BY DEF View
    <3> QED
      BY <2>1, <2>3, <3>1 DEF UidsBelow
  <2>5. UidsBelow'
    BY <2>1, <2>2, <2>4 DEF UidsBelow, Live
  <2>6. NoneNewer'
    BY <2>1, <2>2, <2>3 DEF NoneNewer
  <2>7. RecOld'
    BY <2>1, <2>2 DEF RecOld
  <2> QED
    BY <1>1, <2>1, <2>5, <2>6, <2>7
<1>8. ASSUME NEW v \in Versions(OwnerId), WritesOwner(v)
      PROVE  UidInv'
  <2>1. /\ api'[AtomId] = api[AtomId] /\ View(AtomId)' = View(AtomId)
        /\ \A i \in Kids : api'[i] = api[i] /\ View(i)' = View(i)
        /\ Tracks' /\ nextUid' = nextUid /\ rec' = rec
    BY <1>8, WriteView, KeysAreKids, KindsDiffer DEF WritesOwner
  <2> QED
    BY <1>1, <2>1 DEF UidsBelow, NoneNewer, RecOld, Live
<1>9. ASSUME NEW id \in Ids, Touches(id) \/ Deliver(id)
      PROVE  UidInv'
  <2>1. UNCHANGED <<api, nextUid>> /\ Tracks' /\ \A i \in Ids : View(i)' \subseteq View(i)
    BY <1>9, TouchView, DeliverView DEF Touches, Deliver
  <2> QED
    BY <1>3, <2>1
<1>10. CASE Relists
  <2>1. UNCHANGED <<api, nextUid>> /\ Tracks' /\ \A i \in Ids : View(i)' \subseteq View(i)
    BY <1>10, RelistView DEF Relists, Restart
  <2> QED
    BY <1>3, <2>1
<1>11. ASSUME NEW k \in Kids, NEW v \in Versions(k), WritesKid(k, v) \/ DriftsKid(k, v)
       PROVE  UidInv'
  BY <1>7, <1>11 DEF WritesKid, DriftsKid
<1>12. ASSUME NEW k \in Kids, RemovesKid(k)
       PROVE  UidInv'
  BY <1>7, <1>12, VersionsOf DEF RemovesKid
<1> QED
  BY <1>0, <1>4, <1>5, <1>6, <1>8, <1>9, <1>10, <1>11, <1>12 DEF StoreStep

-----------------------------------------------------------------------------
(* References *)

\* Every object that an object with content of its kind refers to has a name in Kids.
LEMMA RefsAreKids ==
    ASSUME NEW k \in {Deployment, IngressRoute}, NEW c \in Contents(k)
    PROVE  Refs(k, c) \subseteq Kids
<1>1. CASE k = Deployment
  <2>1. Contents(k) = {ConfigData(s, o) : s \in Specs, o \in Owners}
    BY <1>1, KindsDiffer DEF Contents, FixedKeys
  <2>2. Refs(k, c) = {ConfigMap(c)}
    BY <1>1, KindsDiffer DEF Refs
  <2> QED
    BY <2>1, <2>2, KeysAreKids
<1>2. CASE k = IngressRoute
  <2>1. Contents(k) = {mutateIngressRoute(s) : s \in Specs}
    BY <1>2, KindsDiffer DEF Contents, FixedKeys
  <2>2. PICK s \in Specs : c = mutateIngressRoute(s)
    BY <2>1
  <2>3. Refs(k, c) = {Service, Headers, StripPrefix} \cup {Downloads(i) : i \in Indices(s)}
    BY <1>2, <2>2, KindsDiffer DEF Refs, mutateIngressRoute, Indices
  <2> QED
    BY <2>3, KeysAreKids DEF FixedKeys
<1> QED
  BY <1>1, <1>2

\* Before and after a step that leaves an Atom, it is the same incarnation or a new one.
LEMMA SameOrNew ==
    ASSUME TypeOK, UidInv, [Next]_vars, Live'
    PROVE  \/ Live /\ api'[AtomId].uid = api[AtomId].uid
           \/ \E v \in Versions(AtomId) : CreatesAtom(v)
<1>1. StoreStep
  BY NextKinds DEF UidInv
<1>2. ASSUME NEW v \in Versions(AtomId), WritesAtom(v)
      PROVE  Live /\ api'[AtomId].uid = api[AtomId].uid
  BY <1>2, WriteView, KeysAreKids DEF WritesAtom, UidInv, Live
<1>3. ASSUME NEW i \in Ids, i # AtomId, NEW v \in Versions(i), Write(i, v), UNCHANGED cache
      PROVE  api'[AtomId] = api[AtomId]
  BY <1>3, WriteView, KeysAreKids DEF UidInv
<1>4. ASSUME NEW i \in Ids, Touches(i) \/ Deliver(i)
      PROVE  api'[AtomId] = api[AtomId]
  BY <1>4 DEF Touches, Touch, Deliver
<1>5. ASSUME Quiet \/ Relists
      PROVE  api'[AtomId] = api[AtomId]
  BY <1>5 DEF Quiet, Relists, Restart
<1>6. ASSUME NEW k \in Kids, NEW v \in Versions(k), WritesKid(k, v) \/ DriftsKid(k, v)
      PROVE  api'[AtomId] = api[AtomId]
  BY <1>3, <1>6, KindsDiffer, KeysAreKids DEF WritesKid, DriftsKid
<1>7. ASSUME NEW k \in Kids, RemovesKid(k)
      PROVE  api'[AtomId] = api[AtomId]
  BY <1>3, <1>7, KindsDiffer, KeysAreKids, VersionsOf DEF RemovesKid
<1>8. ASSUME NEW v \in Versions(OwnerId), WritesOwner(v)
      PROVE  api'[AtomId] = api[AtomId]
  BY <1>3, <1>8, KindsDiffer, KeysAreKids DEF WritesOwner
<1> QED
  BY <1>1, <1>2, <1>4, <1>5, <1>6, <1>7, <1>8 DEF StoreStep, Live

\* What a step may make of a child, unless others tamper with it.
LEMMA KidStep ==
    ASSUME TypeOK, UidInv, [Next]_vars, Untouched', NEW k \in Kids
    PROVE  /\ Untouched
           /\ \/ api'[k] = api[k] /\ View(k)' \subseteq View(k)
              \/ /\ api'[k] = NoObj /\ (Live => ~ Owned(k)) /\ View(k)' \subseteq View(k)
              \/ \E v \in Versions(k) : /\ WritesKid(k, v) /\ api'[k] = v
                                        /\ View(k)' \subseteq View(k) \cup {v}
<1> USE DEF UidInv
<1> DEFINE Same == api'[k] = api[k] /\ View(k)' \subseteq View(k)
           Gone == api'[k] = NoObj /\ (Live => ~ Owned(k)) /\ View(k)' \subseteq View(k)
           Made(v) == WritesKid(k, v) /\ api'[k] = v /\ View(k)' \subseteq View(k) \cup {v}
<1>1. StoreStep /\ BudgetStep
  BY NextKinds
<1>2. Untouched /\ ~ (budget'.tampers < budget.tampers)
  BY <1>1, BoundsAssumption DEF Untouched, BudgetStep, TypeOK, EnvOK, Budgets
<1>3. k \in Ids /\ k # AtomId /\ k # OwnerId
  BY KeysAreKids, KindsDiffer
<1>4. ASSUME NEW i \in Ids, i # k, NEW v \in Versions(i), Write(i, v), UNCHANGED cache
      PROVE  Same
  BY <1>3, <1>4, WriteView
<1>5. ASSUME NEW i \in Kids, NEW v \in Versions(i), WritesKid(i, v) \/ DriftsKid(i, v)
      PROVE  Same \/ \E w \in Versions(k) : Made(w)
  <2>1. CASE i # k
    BY <1>4, <1>5, <2>1, KeysAreKids DEF WritesKid, DriftsKid
  <2>2. CASE i = k
    <3>1. WritesKid(k, v)
      BY <1>2, <1>5, <2>2 DEF DriftsKid
    <3>2. api'[k] = v /\ View(k)' \subseteq View(k) \cup {v}
      BY <1>3, <2>2, <3>1, WriteView DEF WritesKid
    <3> QED
      BY <2>2, <3>1, <3>2
  <2> QED
    BY <2>1, <2>2
<1>6. ASSUME NEW i \in Kids, RemovesKid(i)
      PROVE  Same \/ Gone
  <2>1. CASE i # k
    BY <1>4, <1>6, <2>1, KeysAreKids, VersionsOf DEF RemovesKid
  <2>2. CASE i = k
    <3>1. (Live => ~ Owned(k)) /\ Write(k, NoObj) /\ UNCHANGED cache
      BY <1>2, <1>6, <2>2 DEF RemovesKid
    <3>2. api'[k] = NoObj /\ View(k)' \subseteq View(k) \cup {NoObj}
      BY <1>3, <3>1, WriteView, VersionsOf
    <3>3. View(k)' \subseteq View(k)
      BY <3>2 DEF View
    <3> QED
      BY <3>1, <3>2, <3>3
  <2> QED
    BY <2>1, <2>2
<1>7. ASSUME NEW v \in Versions(AtomId), WritesAtom(v) \/ CreatesAtom(v)
      PROVE  Same
  BY <1>3, <1>4, <1>7, KeysAreKids DEF WritesAtom, CreatesAtom
<1>8. ASSUME NEW v \in Versions(OwnerId), WritesOwner(v)
      PROVE  Same
  BY <1>3, <1>4, <1>8, KeysAreKids DEF WritesOwner
<1>9. ASSUME NEW i \in Ids, Touches(i) \/ Deliver(i)
      PROVE  Same
  BY <1>3, <1>9, TouchView, DeliverView DEF Touches
<1>10. ASSUME Quiet
       PROVE  Same
  BY <1>10 DEF Quiet, View
<1>11. ASSUME Relists
       PROVE  Same
  BY <1>3, <1>11, RelistView
<1>12. Same \/ Gone \/ \E v \in Versions(k) : Made(v)
  BY <1>1, <1>5, <1>6, <1>7, <1>8, <1>9, <1>10, <1>11 DEF StoreStep
<1> QED
  BY <1>2, <1>12

\* Nobody takes a child away from the live Atom.
LEMMA KidNext ==
    ASSUME TypeOK, UidInv, [Next]_vars, Live, Live', api'[AtomId].uid = api[AtomId].uid,
           Untouched', NEW k \in Kids, Owned(k)
    PROVE  Owned(k)'
<1>1. CASE api'[k] = api[k]
  BY <1>1 DEF Owned
<1>2. ASSUME NEW v \in Versions(k), WritesKid(k, v), api'[k] = v PROVE Owned(k)'
  <2>1. api[k].owner = api[AtomId].uid /\ api[k] # NoObj
    BY DEF Owned
  <2>2. rec.pc # "idle" /\ v # NoObj /\ v.owner = rec.atom.uid
    BY <1>2 DEF WritesKid
  <2>3. api[k].owner <= rec.atom.uid /\ rec.atom.uid <= api[AtomId].uid
    BY <2>1, <2>2, ViewOK DEF UidInv, NoneNewer, RecOld
  <2>4. v.owner = api[AtomId].uid
    BY <2>1, <2>2, <2>3, ViewOK
  <2> QED
    BY <1>2, <2>2, <2>4 DEF Owned
<1> QED
  BY <1>1, <1>2, KidStep

\* What a stage has passed is there, for the live Atom: the cache showed it, or the
\* API server accepted it.
LEMMA StageOwned ==
    ASSUME TypeOK, KidSeen, Live, Untouched, rec.pc # "idle",
           rec.atom.uid = api[AtomId].uid, api'[AtomId].uid = api[AtomId].uid,
           NEW k \in Kids, k # Deployment, NEW content \in Contents(k), NEW then,
           CreateOrUpdate(k, content, then), rec' # Goto("fail")
    PROVE  Owned(k)'
<1> DEFINE new == [owner |-> rec.atom.uid, content |-> content]
<1>1. new # NoObj /\ new.owner = rec.atom.uid
  <2>1. new \in Kid(k)
    BY DEF TypeOK, RecOK, Recs, Atoms, Kid
  <2> QED
    BY <2>1, NoObjAssumption
<1>2. ASSUME UpToDate(k, new), NoWrite
      PROVE  Owned(k)'
  <2>1. cache[k] = new
    BY <1>2 DEF UpToDate
  <2>2. Owned(k)
    BY <1>1, <2>1, ViewOK DEF KidSeen
  <2> QED
    BY <1>2, <2>2 DEF NoWrite, Owned
<1>3. ASSUME Put(k, new)
      PROVE  Owned(k)'
  <2>1. api'[k] = new
    BY <1>3, KeysAreKids DEF Put, NoWrite, Write, TypeOK, ApiOK, IsMap
  <2> QED
    BY <1>1, <2>1 DEF Owned
<1>4. ~ ConflictIgnored(k)
  BY DEF ConflictIgnored
<1> QED
  BY <1>2, <1>3, <1>4 DEF CreateOrUpdate

\* How the stages of Reconcile extend what it has passed.
Extends(k) == /\ k # Deployment /\ rec.pc # "idle" /\ rec'.atom = rec.atom /\ rec' # Goto("fail")
              /\ \E content \in Contents(k) : CreateOrUpdate(k, content, rec') /\ HasURLs(k, content)
              /\ Passed' \subseteq Passed \cup {k}

LEMMA PassedSteps ==
    ASSUME TypeOK, TypeOK', [Next]_vars
    PROVE  \/ Passed' = {}
           \/ UNCHANGED rec /\ Passed' = Passed
           \/ \E k \in Kids : Extends(k)
<1>0. UNCHANGED rec => Passed' = Passed
  BY DEF Passed, spec
<1>a. rec'.pc \notin {"deployment", "strip", "headers", "downloads", "ingress"} => Passed' = {}
  BY DEF Passed
<1>b. rec' = Goto("fail") => Passed' = {}
  BY <1>a DEF Goto, TypeOK, RecOK, Recs
<1>c. rec' = Idle => Passed' = {}
  BY <1>a DEF Idle
<1>d. ASSUME NEW pc \in PCs, rec' = Goto(pc)
      PROVE  /\ rec'.pc = pc /\ rec'.atom = rec.atom /\ rec'.owner = rec.owner
             /\ rec'.pend = rec.pend
             /\ pc # "fail" => rec' # Goto("fail")
  BY <1>d DEF Goto, TypeOK, RecOK, Recs
<1>e. ASSUME NEW k \in Kids, NEW content \in Contents(k), NEW then,
             CreateOrUpdate(k, content, then), rec.pc # "idle"
      PROVE  rec' = then \/ rec' = Goto("fail")
  BY <1>e, CreateOrUpdateOK
<1>1. CASE FetchAtom \/ FetchOwnerInfo \/ CheckTTL \/ Finish \/ Fail
  <2>1. FetchAtom => rec'.pc \in {"idle", "owner"}
    BY DEF FetchAtom, Idle
  <2>2. FetchOwnerInfo => rec'.pc \in {"idle", "ttl"}
    BY DEF FetchOwnerInfo, Idle, TypeOK, RecOK, Recs
  <2>3. CheckTTL => rec'.pc \in {"idle", "config"}
    <3>1. CheckTTL => rec' = Idle \/ rec' = Goto("config")
      BY DEF CheckTTL, Goto
    <3> QED
      BY <3>1, <1>d DEF Idle, PCs
  <2>4. Finish \/ Fail => rec'.pc = "idle"
    BY DEF Finish, Fail, Idle
  <2> QED
    BY <1>1, <2>1, <2>2, <2>3, <2>4, <1>a
<1>2. CASE MutateConfigMap
  <2> DEFINE d == ConfigData(spec, rec.owner)
             k == ConfigMap(d)
  <2>1. k \in Kids /\ d \in Contents(k) /\ rec.pc = "config"
    BY <1>2, LocalsOK, KeysAreKids, ContentsOf DEF MutateConfigMap, TypeOK
  <2>2. k # Deployment
    BY DEF ConfigMap, Deployment
  <2>3. CASE CreateOrUpdate(k, d, Goto("deployment")) /\ rec' = Goto("deployment")
    <3>1. rec'.pc = "deployment" /\ rec'.atom = rec.atom /\ rec'.owner = rec.owner
      BY <2>3, <1>d DEF PCs
    <3>2. Passed' = {k}
      BY <3>1 DEF Passed, spec
    <3>3. rec' # Goto("fail")
      BY <2>3, <1>d DEF PCs
    <3> QED
      BY <2>1, <2>2, <2>3, <3>1, <3>2, <3>3, MutateURLs DEF Extends
  <2>4. CASE rec' = Goto("fail")
    BY <2>4, <1>b
  <2> HIDE DEF d, k
  <2> QED
    BY <1>2, <2>1, <2>3, <2>4, <1>e DEF MutateConfigMap, d, k
<1>3. CASE MutateDeployment
  <2>1. /\ Deployment \in Kids /\ rec.pc = "deployment"
        /\ mutateDeployment(ConfigData(spec, rec.owner)) \in Contents(Deployment)
    BY <1>3, LocalsOK, KeysAreKids, ContentsOf DEF MutateDeployment, FixedKeys, TypeOK
  <2>2. rec' = Goto("service") \/ rec' = Goto("fail")
    BY <1>3, <2>1, <1>e DEF MutateDeployment
  <2>3. CASE rec' = Goto("service")
    BY <2>3, <1>a, <1>d DEF PCs
  <2> QED
    BY <2>2, <2>3, <1>b
<1>4. CASE MutateService
  <2>1. Service \in Kids /\ rec.pc = "service" /\ mutateService \in Contents(Service)
    BY <1>4, LocalsOK, KeysAreKids, ContentsOf DEF MutateService, FixedKeys, TypeOK
  <2>2. rec' = Goto("strip") \/ rec' = Goto("fail")
    BY <1>4, <2>1, <1>e DEF MutateService
  <2>3. CASE rec' = Goto("strip")
    <3>1. rec'.pc = "strip" /\ rec'.atom = rec.atom /\ rec' # Goto("fail")
      BY <2>3, <1>d DEF PCs
    <3>2. Passed' = {Service}
      BY <3>1 DEF Passed
    <3> QED
      BY <1>4, <2>1, <2>3, <3>1, <3>2, KindsDiffer, MutateURLs DEF Extends, MutateService
  <2> QED
    BY <2>2, <2>3, <1>b
<1>5. CASE MutateStripPrefix
  <2>1. /\ StripPrefix \in Kids /\ rec.pc = "strip"
        /\ mutateStripPrefixMiddleware(spec) \in Contents(StripPrefix)
    BY <1>5, LocalsOK, KeysAreKids, ContentsOf DEF MutateStripPrefix, FixedKeys, TypeOK
  <2>2. rec' = Goto("headers") \/ rec' = Goto("fail")
    BY <1>5, <2>1, <1>e DEF MutateStripPrefix
  <2>3. CASE rec' = Goto("headers")
    <3>1. rec'.pc = "headers" /\ rec'.atom = rec.atom /\ rec' # Goto("fail")
      BY <2>3, <1>d DEF PCs
    <3>2. Passed' = {Service, StripPrefix} /\ Passed = {Service}
      BY <2>1, <3>1 DEF Passed
    <3> QED
      BY <1>5, <2>1, <2>3, <3>1, <3>2, KindsDiffer, MutateURLs DEF Extends, MutateStripPrefix
  <2> QED
    BY <2>2, <2>3, <1>b
<1>f. ASSUME NEW pend \in SUBSET Indices(spec), rec.pc \notin {"idle", "owner"},
             rec' = AfterDownload(pend)
      PROVE  /\ rec'.atom = rec.atom /\ rec' # Goto("fail")
             /\ Passed' = {Service, StripPrefix, Headers}
                              \cup {Downloads(i) : i \in Indices(spec) \ pend}
  <2>1. /\ rec'.pc = IF pend = {} THEN "ingress" ELSE "downloads"
        /\ rec'.atom = rec.atom /\ rec'.pend = pend
    BY <1>f DEF AfterDownload, TypeOK, RecOK, Recs
  <2>2. rec' # Goto("fail")
    BY <2>1 DEF Goto, TypeOK, RecOK, Recs
  <2>3. CASE pend = {}
    <3>1. rec'.pc = "ingress" /\ Indices(spec) \ pend = Indices(spec)
      BY <2>1, <2>3
    <3> QED
      BY <2>1, <2>2, <3>1 DEF Passed, spec
  <2>4. CASE pend # {}
    BY <2>1, <2>2, <2>4 DEF Passed, spec
  <2> QED
    BY <2>3, <2>4
<1>6. CASE MutateHeaders
  <2>1. Headers \in Kids /\ rec.pc = "headers" /\ mutateHeadersMiddleware \in Contents(Headers)
    BY <1>6, LocalsOK, KeysAreKids, ContentsOf DEF MutateHeaders, FixedKeys, TypeOK
  <2>2. rec' = AfterDownload(Indices(spec)) \/ rec' = Goto("fail")
    BY <1>6, <2>1, <1>e DEF MutateHeaders
  <2>3. CASE rec' = AfterDownload(Indices(spec))
    <3>1. rec'.atom = rec.atom /\ rec' # Goto("fail") /\ Passed' = {Service, StripPrefix, Headers}
      BY <2>1, <2>3, <1>f
    <3>2. Passed = {Service, StripPrefix}
      BY <2>1 DEF Passed
    <3> QED
      BY <1>6, <2>1, <2>3, <3>1, <3>2, KindsDiffer, MutateURLs DEF Extends, MutateHeaders
  <2> QED
    BY <2>2, <2>3, <1>b
<1>7. CASE MutateDownloadLink
  <2>1. PICK i \in rec.pend :
           CreateOrUpdate(Downloads(i), mutateDownloadLinkMiddleware(spec, i),
                          AfterDownload(rec.pend \ {i}))
    BY <1>7 DEF MutateDownloadLink
  <2>2. /\ rec.pend \subseteq Indices(spec) /\ spec \in Specs /\ rec.owner \in Owners
        /\ rec.pc = "downloads"
    BY <1>7, LocalsOK DEF MutateDownloadLink, RecOK, spec, TypeOK
  <2>3. /\ Downloads(i) \in Kids /\ Downloads(i) # Deployment
        /\ mutateDownloadLinkMiddleware(spec, i) \in Contents(Downloads(i))
    BY <2>2, KeysAreKids, ContentsOf DEF Downloads, Deployment
  <2>4. rec' = AfterDownload(rec.pend \ {i}) \/ rec' = Goto("fail")
    BY <2>1, <2>2, <2>3, <1>e
  <2>5. CASE rec' = AfterDownload(rec.pend \ {i})
    <3>1. /\ rec'.atom = rec.atom /\ rec' # Goto("fail")
          /\ Passed' = {Service, StripPrefix, Headers}
                          \cup {Downloads(j) : j \in Indices(spec) \ (rec.pend \ {i})}
      BY <2>2, <2>5, <1>f
    <3>2. Passed = {Service, StripPrefix, Headers}
                      \cup {Downloads(j) : j \in Indices(spec) \ rec.pend}
      BY <2>2 DEF Passed
    <3>3. Passed' \subseteq Passed \cup {Downloads(i)}
      BY <3>1, <3>2
    <3> QED
      BY <2>1, <2>2, <2>3, <2>5, <3>1, <3>3, MutateURLs DEF Extends
  <2> QED
    BY <2>4, <2>5, <1>b
<1>8. CASE MutateIngressRoute \/ MutatePodDisruptionBudget
  <2>1. /\ IngressRoute \in Kids /\ PDB \in Kids /\ rec.pc # "idle"
        /\ mutateIngressRoute(spec) \in Contents(IngressRoute)
        /\ mutatePodDisruptionBudget \in Contents(PDB)
    BY <1>8, LocalsOK, KeysAreKids, ContentsOf
       DEF MutateIngressRoute, MutatePodDisruptionBudget, FixedKeys, TypeOK
  <2>2. rec' = Goto("pdb") \/ rec' = Goto("finish") \/ rec' = Goto("fail")
    BY <1>8, <2>1, <1>e DEF MutateIngressRoute, MutatePodDisruptionBudget
  <2>3. rec'.pc \in {"pdb", "finish", "fail"}
    BY <2>2, <1>d DEF PCs
  <2> QED
    BY <2>3, <1>a
<1>9. CASE Restart
  BY <1>9, <1>c DEF Restart
<1>10. CASE (\E id \in Ids : Deliver(id)) \/ Resync \/ Users \/ Others \/ (\E k \in Kids : Collect(k))
            \/ Tick \/ UNCHANGED vars
  <2>1. UNCHANGED rec
    BY <1>10 DEF Deliver, Resync, Users, CreateAtom, UpdateAtom, DeleteAtom, SetOwnerInfo,
                 Others, Drift, Remove, WriteStatus, Collect, Tick, vars
  <2> QED
    BY <2>1, <1>0
<1> QED
  BY <1>1, <1>2, <1>3, <1>4, <1>5, <1>6, <1>7, <1>8, <1>9, <1>10 DEF Next, Reconcile

LEMMA PassedAreKids ==
    ASSUME TypeOK
    PROVE  Passed \subseteq Kids
<1>1. rec.pc \notin {"idle", "owner"} => spec \in Specs /\ rec.owner \in Owners
  BY LocalsOK DEF TypeOK
<1>2. CASE rec.pc = "deployment"
  BY <1>1, <1>2, KeysAreKids DEF Passed
<1>3. CASE rec.pc \in {"strip", "headers", "downloads", "ingress"}
  <2>1. Passed \subseteq {Service, StripPrefix, Headers} \cup {Downloads(i) : i \in Indices(spec)}
    BY <1>3 DEF Passed
  <2> QED
    BY <1>1, <1>3, <2>1, KeysAreKids DEF FixedKeys
<1>4. CASE rec.pc \notin {"deployment", "strip", "headers", "downloads", "ingress"}
  BY <1>4 DEF Passed
<1> QED
  BY <1>2, <1>3, <1>4

\* A new incarnation owns nothing yet.
LEMMA NewOwnsNothing ==
    ASSUME TypeOK, UidInv, NEW v \in Versions(AtomId), CreatesAtom(v)
    PROVE  /\ \A k \in Kids : ~ Owned(k)' /\ \A w \in View(k)' : w.owner # api'[AtomId].uid
           /\ rec'.pc # "idle" => rec'.atom.uid # api'[AtomId].uid
<1>1. /\ api'[AtomId] = v /\ v.uid = nextUid /\ rec' = rec
      /\ \A k \in Kids : api'[k] = api[k] /\ View(k)' = View(k)
  BY WriteView, KeysAreKids, KindsDiffer DEF CreatesAtom, UidInv
<1>2. \A k \in Kids : \A w \in View(k) : w.owner # nextUid
  BY ViewOK DEF UidInv, UidsBelow
<1>3. rec.pc # "idle" => rec.atom.uid # nextUid
  BY ViewOK DEF UidInv, UidsBelow
<1> QED
  BY <1>1, <1>2, <1>3, ViewOK DEF Owned

LEMMA IInvInit == Init => IInv
<1> SUFFICES ASSUME Init PROVE IInv
  OBVIOUS
<1>1. TypeOK /\ UidInv
  BY TypeInit, UidInit
<1>2. /\ ~ Live /\ \A k \in Kids : api[k] = NoObj
  BY KindsDiffer, KeysAreKids DEF Init, Live
<1> QED
  BY <1>1, <1>2 DEF IInv, OwnContent, KidSeen, PassedOwned, RefsResolve

LEMMA IInvNext == IInv /\ [Next]_vars => IInv'
<1> SUFFICES ASSUME IInv, [Next]_vars PROVE IInv'
  OBVIOUS
<1>0. TypeOK /\ UidInv /\ OwnContent /\ KidSeen /\ PassedOwned /\ RefsResolve
  BY DEF IInv
<1>1. TypeOK'
  BY <1>0, TypeNext
<1>2. UidInv'
  BY <1>0, <1>1, UidNext
<1>3. StoreStep /\ RecStep /\ BudgetStep
  BY <1>0, NextKinds DEF UidInv
<1>4. OwnContent'
  <2> SUFFICES ASSUME Untouched', NEW k \in Kids, api'[k] # NoObj
               PROVE  api'[k].content \in Contents(k)
    BY DEF OwnContent
  <2>1. Untouched /\ ~ (budget'.tampers < budget.tampers)
    BY <1>0, <1>3, BoundsAssumption DEF Untouched, BudgetStep, TypeOK, EnvOK, Budgets
  <2>2. api[k] # NoObj => api[k].content \in Contents(k)
    BY <1>0, <2>1 DEF OwnContent
  <2>3. k \in Ids /\ k # AtomId /\ k # OwnerId
    BY KeysAreKids, KindsDiffer
  <2>4. ASSUME NEW i \in Ids, NEW v, Write(i, v), i # k
        PROVE  api'[k] = api[k]
    BY <1>0, <2>3, <2>4 DEF Write, TypeOK, ApiOK, IsMap
  <2>5. ASSUME NEW i \in Kids, NEW v \in Versions(i), WritesKid(i, v)
        PROVE  api'[k] = api[k] \/ api'[k].content \in Contents(k)
    <3>1. CASE i # k
      BY <2>4, <2>5, <3>1, KeysAreKids DEF WritesKid
    <3>2. CASE i = k
      <4>1. api'[k] = v
        BY <1>0, <2>3, <2>5, <3>2 DEF WritesKid, Write, TypeOK, ApiOK, IsMap
      <4> QED
        BY <2>5, <3>2, <4>1 DEF WritesKid
    <3> QED
      BY <3>1, <3>2
  <2>6. ASSUME NEW i \in Kids, RemovesKid(i)
        PROVE  api'[k] = api[k]
    <3>1. i # k
      BY <1>0, <2>3, <2>6 DEF RemovesKid, Write, TypeOK, ApiOK, IsMap
    <3> QED
      BY <2>4, <2>6, <3>1, KeysAreKids DEF RemovesKid
  <2>7. ASSUME NEW v, WritesAtom(v) \/ CreatesAtom(v) \/ WritesOwner(v)
        PROVE  api'[k] = api[k]
    BY <2>3, <2>4, <2>7, KeysAreKids DEF WritesAtom, CreatesAtom, WritesOwner
  <2>8. ASSUME NEW i \in Kids, NEW v \in Versions(i), DriftsKid(i, v)
        PROVE  FALSE
    BY <2>1, <2>8 DEF DriftsKid
  <2>9. Quiet \/ Relists \/ (\E i \in Ids : Touches(i) \/ Deliver(i)) => api'[k] = api[k]
    BY DEF Quiet, Relists, Restart, Touches, Touch, Deliver
  <2> QED
    BY <1>3, <2>2, <2>5, <2>6, <2>7, <2>8, <2>9 DEF StoreStep
<1>5. ASSUME NEW v \in Versions(AtomId), CreatesAtom(v)
      PROVE  /\ \A k \in Kids : ~ Owned(k)' /\ \A w \in View(k)' : w.owner # api'[AtomId].uid
             /\ rec'.pc # "idle" => rec'.atom.uid # api'[AtomId].uid
  BY <1>0, <1>5, NewOwnsNothing
<1>6. CASE \E v \in Versions(AtomId) : CreatesAtom(v)
  <2>1. KidSeen' /\ PassedOwned'
    BY <1>5, <1>6 DEF KidSeen, PassedOwned
  <2>2. RefsResolve'
    <3>1. \A k \in {Deployment, IngressRoute} : k \in Kids
      BY KeysAreKids DEF FixedKeys
    <3> QED
      BY <1>5, <1>6, <3>1 DEF RefsResolve
  <2> QED
    BY <1>1, <1>2, <1>4, <2>1, <2>2 DEF IInv
<1>7. CASE ~ (Live' /\ Untouched')
  BY <1>1, <1>2, <1>4, <1>7 DEF IInv, KidSeen, PassedOwned, RefsResolve
<1>8. CASE Live /\ api'[AtomId].uid = api[AtomId].uid /\ Live' /\ Untouched'
  <2>0. Deployment \in Kids
    BY KeysAreKids DEF FixedKeys
  <2>1. Untouched /\ \A k \in Kids : Owned(k) => Owned(k)'
    BY <1>0, <1>8, <2>0, KidNext, KidStep
  <2>2. KidSeen'
    <3> SUFFICES ASSUME NEW k \in Kids, NEW v \in View(k)', v.owner = api'[AtomId].uid
                 PROVE  Owned(k)'
      BY DEF KidSeen
    <3>1. CASE v \in View(k)
      BY <1>0, <1>8, <2>1, <3>1 DEF KidSeen
    <3>2. CASE v \notin View(k)
      <4>1. api'[k] = v
        BY <1>0, <1>8, <3>2, KidStep
      <4>2. v # NoObj
        BY DEF View
      <4> QED
        BY <4>1, <4>2 DEF Owned
    <3> QED
      BY <3>1, <3>2
  <2>3. PassedOwned'
    <3> SUFFICES ASSUME rec'.pc # "idle", rec'.atom.uid = api'[AtomId].uid, NEW k \in Passed'
                 PROVE  Owned(k)'
      BY DEF PassedOwned
    <3>1. ASSUME rec.pc # "idle", rec'.atom = rec.atom, k \in Passed
          PROVE  Owned(k)'
      <4>1. Owned(k) /\ k \in Kids
        BY <1>0, <1>8, <2>1, <3>1, PassedAreKids DEF PassedOwned
      <4> QED
        BY <2>1, <4>1
    <3>2. CASE UNCHANGED rec /\ Passed' = Passed
      BY <3>1, <3>2
    <3>3. ASSUME NEW j \in Kids, Extends(j)
          PROVE  Owned(k)'
      <4>1. rec.pc # "idle" /\ rec'.atom = rec.atom /\ rec' # Goto("fail") /\ j # Deployment
        BY <3>3 DEF Extends
      <4>2. PICK content \in Contents(j) : CreateOrUpdate(j, content, rec')
        BY <3>3 DEF Extends
      <4>3. Owned(j)'
        BY <1>0, <1>8, <2>1, <4>1, <4>2, StageOwned
      <4>4. k \in Passed \/ k = j
        BY <3>3 DEF Extends
      <4> QED
        BY <3>1, <4>1, <4>3, <4>4
    <3> QED
      BY <1>0, <1>1, <3>2, <3>3, PassedSteps
  <2>4. RefsResolve'
    <3> SUFFICES ASSUME NEW k \in {Deployment, IngressRoute}, Owned(k)',
                        NEW r \in Refs(k, api'[k].content)
                 PROVE  Owned(r)'
      BY DEF RefsResolve
    <3>0. k \in Kids
      BY KeysAreKids DEF FixedKeys
    <3>1. CASE api'[k] = api[k]
      <4>1. Owned(k)
        BY <1>8, <3>1 DEF Owned
      <4>2. api[k].content \in Contents(k)
        BY <1>0, <2>1, <3>0, <4>1 DEF OwnContent, Owned
      <4>3. r \in Kids
        BY <3>1, <4>2, RefsAreKids
      <4>4. Owned(r)
        BY <1>0, <1>8, <2>1, <3>1, <4>1 DEF RefsResolve
      <4> QED
        BY <2>1, <4>3, <4>4
    <3>2. ASSUME NEW v \in Versions(k), WritesKid(k, v), api'[k] = v
          PROVE  Owned(r)'
      <4>1. rec.pc # "idle" /\ rec.atom.uid = api[AtomId].uid /\ r \in Passed
        BY <1>8, <3>2 DEF WritesKid, Owned
      <4>2. Owned(r) /\ r \in Kids
        BY <1>0, <1>8, <2>1, <4>1, PassedAreKids DEF PassedOwned
      <4> QED
        BY <2>1, <4>2
    <3>3. api'[k] # NoObj
      BY DEF Owned
    <3> QED
      BY <1>0, <1>8, <3>0, <3>1, <3>2, <3>3, KidStep
  <2> QED
    BY <1>1, <1>2, <1>4, <2>2, <2>3, <2>4 DEF IInv
<1> QED
  BY <1>0, <1>6, <1>7, <1>8, SameOrNew

\* Unless others tamper with the children, whatever the live Atom's Deployment and
\* IngressRoute refer to exists and belongs to that Atom, through any number of spec
\* changes, incarnations, lost calls, stale reads and restarts.
THEOREM ReferencesResolve == Spec => []RefsResolve
<1>1. Spec => []IInv
  BY IInvInit, IInvNext, PTL DEF Spec
<1>2. IInv => RefsResolve
  BY DEF IInv
<1> QED
  BY <1>1, <1>2, PTL
=============================================================================
