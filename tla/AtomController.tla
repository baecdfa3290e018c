---------------------------- MODULE AtomController ----------------------------
(***************************************************************************)
(* The Atom reconciler (internal/controller/atom_controller.go), for one   *)
(* Atom name, together with what it runs against: the API server, the      *)
(* informer cache it reads from, the work queue that starts it, the        *)
(* garbage collector, and the people and controllers that write the same   *)
(* objects.                                                                *)
(*                                                                         *)
(* Every object has an id, a pair.  api[id] is what the API server stores, *)
(* cache[id] is what the controller's informer shows, and pipe[id] is the  *)
(* sequence of watch events (object versions) still under way between the  *)
(* two.  An object is fresh in the cache iff its pipe is empty, which is   *)
(* all that resourceVersions are compared for; a write that changes only   *)
(* the resourceVersion is an event that carries the version unchanged.     *)
(***************************************************************************)
EXTENDS Integers, Sequences, FiniteSets

CONSTANTS
    NoObj,        \* an object that does not exist
    Foreign,      \* content somebody else gave to an object of the controller
    NoTTL,        \* a spec without lifecycle.ttlInDays
    Specs,        \* the Atom specs users may apply
    Owners,       \* the OwnerInfos that may exist
    UserOps,      \* bound: which of "create", "update", "delete", "owner" users do
    DriftKinds,   \* bound: the kinds of objects whose content others may edit
    Horizon,      \* bound: the last instant the clock reaches
    HalfRange,    \* a time.Duration holds -HalfRange .. HalfRange - 1
    MaxUid,       \* bound: how many times the Atom is created
    MaxLag,       \* bound: how many watch events may be under way
    MaxEdits,     \* bound: how many times users write Atom or OwnerInfo
    MaxTampers,   \* bound: how many times others edit or delete a child
    MaxTouches,   \* bound: how many times others write only a status
    MaxFaults,    \* bound: how many calls to the API server fail
    MaxCrashes    \* bound: how many times the manager process restarts

(***************************************************************************)
(* What the controller can tell apart in a spec: conf stands for baseUrl   *)
(* and for the names and titles of the service and its feeds, urls is the  *)
(* set of URLs where the service is reached (ingressRouteUrls, which holds *)
(* baseUrl, or baseUrl alone), groups the download links grouped by blob   *)
(* prefix, in index order, and links says whether metadata link templates  *)
(* are used.  data stands for the fields of the OwnerInfo that reach the   *)
(* generator.                                                              *)
(***************************************************************************)
ASSUME SpecsAssumption ==
    \A s \in Specs : /\ DOMAIN s = {"conf", "urls", "groups", "links", "ttl"}
                     /\ s.groups \in Seq({s.groups[i] : i \in DOMAIN s.groups})
                     /\ s.links \in BOOLEAN
                     /\ s.ttl \in Int \cup {NoTTL}

ASSUME OwnersAssumption ==
    \A o \in Owners : /\ DOMAIN o = {"hasAtom", "hasUrls", "data"}
                      /\ o.hasAtom \in BOOLEAN
                      /\ o.hasUrls \in BOOLEAN

ASSUME BoundsAssumption ==
    /\ {MaxUid, MaxLag, MaxEdits, MaxTampers, MaxTouches, MaxFaults, MaxCrashes} \subseteq Nat
    /\ Horizon \in Nat
    /\ HalfRange \in Nat \ {0}

VARIABLES
    api,       \* the objects the API server stores
    cache,     \* the objects the informers show to the controller
    pipe,      \* per object, the watch events under way to the informer
    queued,    \* the work queue holds the Atom's name
    rec,       \* the running Reconcile call: program counter and locals
    now,       \* the clock, in days
    nextUid,   \* the uid of the next incarnation of the Atom
    budget     \* what is left of each bound on the environment

vars == <<api, cache, pipe, queued, rec, now, nextUid, budget>>

-----------------------------------------------------------------------------
(* Objects, their names and what the mutate functions put in them *)

\* The generated config is the whole output of the mapper, for a spec and an OwnerInfo.
ConfigData(s, o) == <<s.conf, s.groups, s.links, o.data>>

AtomId       == <<"Atom", 0>>
OwnerId      == <<"OwnerInfo", 0>>
ConfigMap(d) == <<"ConfigMap", d>>     \* the name carries the hash of the data
Deployment   == <<"Deployment", 0>>
Service      == <<"Service", 0>>
StripPrefix  == <<"StripPrefix", 0>>
Headers      == <<"Headers", 0>>
Downloads(i) == <<"Downloads", i>>
IngressRoute == <<"IngressRoute", 0>>
PDB          == <<"PodDisruptionBudget", 0>>

ConfigKeys   == {ConfigMap(ConfigData(s, o)) : s \in Specs, o \in Owners}
Indices(s)   == 0 .. (Len(s.groups) - 1)
DownloadKeys == {Downloads(i) : i \in UNION {Indices(s) : s \in Specs}}
FixedKeys    == {Deployment, Service, StripPrefix, Headers, IngressRoute, PDB}
Kids         == ConfigKeys \cup DownloadKeys \cup FixedKeys
Ids          == Kids \cup {AtomId, OwnerId}

mutateDeployment(d)                == d
mutateService                      == "service"      \* nothing of these three depends on the
mutateHeadersMiddleware            == "headers"      \* spec: labels and selectors are immutable
mutatePodDisruptionBudget          == "budget"
mutateStripPrefixMiddleware(s)     == s.urls

\* Mutant: every middleware gets the files of the same group.
mutateDownloadLinkMiddleware_Same(s, i) == [files |-> s.groups[1], urls |-> s.urls]

mutateDownloadLinkMiddleware(s, i) == [files |-> s.groups[i + 1], urls |-> s.urls]
mutateIngressRoute(s)              == [feeds |-> s.conf, urls |-> s.urls, downloads |-> Len(s.groups)]

\* MapAtomV3ToAtomGeneratorConfig: an error without ownerInfo.spec.atom, and a nil
\* dereference in addMetadataLinks when a template's metadataUrl is not there.
Generate(s, o) ==
    CASE ~ o.hasAtom                           -> "error"
      [] o.hasAtom /\ s.links /\ ~ o.hasUrls   -> "panic"
      [] o.hasAtom /\ (s.links => o.hasUrls)   -> "ok"

\* int64 nanoseconds wrap around: time.Duration(days) * 24 * time.Hour.
Duration(days) == ((days + HalfRange) % (2 * HalfRange)) - HalfRange

\* Mutant: the comparison the wrong way round.
ttlExpired_Swapped(a) == /\ a.spec.ttl # NoTTL
                         /\ now < a.created + Duration(a.spec.ttl)

ttlExpired(a) == /\ a.spec.ttl # NoTTL
                 /\ a.created + Duration(a.spec.ttl) < now

-----------------------------------------------------------------------------
(* State *)

Contents(k) ==
    CASE k \in ConfigKeys   -> {k[2]}
      [] k = Deployment     -> {ConfigData(s, o) : s \in Specs, o \in Owners}
      [] k = StripPrefix    -> {mutateStripPrefixMiddleware(s) : s \in Specs}
      [] k \in DownloadKeys -> {mutateDownloadLinkMiddleware(s, k[2]) :
                                  s \in {t \in Specs : k[2] < Len(t.groups)}}
      [] k = IngressRoute   -> {mutateIngressRoute(s) : s \in Specs}
      [] k = Service        -> {mutateService}
      [] k = Headers        -> {mutateHeadersMiddleware}
      [] k = PDB            -> {mutatePodDisruptionBudget}

Statuses == {"None", "Finished", "Error"}
Atoms    == [uid : 1 .. MaxUid, spec : Specs, created : 0 .. Horizon, status : Statuses]
Kid(k)   == [owner : 1 .. MaxUid, content : Contents(k) \cup {Foreign}]

Versions(id) == {NoObj} \cup
    (CASE id = AtomId  -> Atoms
       [] id = OwnerId -> Owners
       [] id \in Kids  -> Kid(id))

ASSUME NoObjAssumption == /\ NoObj \notin Atoms \cup Owners
                          /\ \A k \in Kids : NoObj \notin Kid(k)

PCs  == {"idle", "owner", "ttl", "config", "deployment", "service", "strip", "headers",
         "downloads", "ingress", "pdb", "finish", "fail"}
Idle == [pc |-> "idle", atom |-> NoObj, owner |-> NoObj, pend |-> {}]

\* Reconcile's locals: the Atom and OwnerInfo it fetched, and the indices of the
\* download link groups that the range over the map has still to visit.
Recs == [pc : PCs, atom : Atoms \cup {NoObj}, owner : Owners \cup {NoObj}, pend : SUBSET Nat]

Budgets == [edits   : 0 .. MaxEdits,   tampers : 0 .. MaxTampers,
            touches : 0 .. MaxTouches, faults  : 0 .. MaxFaults, crashes : 0 .. MaxCrashes]

IsMap(f) == f = [id \in Ids |-> f[id]]

ApiOK   == IsMap(api)   /\ \A id \in Ids : api[id] \in Versions(id)
CacheOK == IsMap(cache) /\ \A id \in Ids : cache[id] \in Versions(id)
PipeOK  == IsMap(pipe)  /\ \A id \in Ids : pipe[id] \in Seq(Versions(id))
RecOK   == /\ rec \in Recs
           /\ rec.pc # "idle" => rec.atom # NoObj
           /\ rec.pc \notin {"idle", "owner"} => rec.owner # NoObj
           /\ rec.pc = "downloads" => rec.pend \subseteq Indices(rec.atom.spec)
EnvOK   == /\ queued \in BOOLEAN
           /\ now \in 0 .. Horizon
           /\ nextUid \in 1 .. (MaxUid + 1)
           /\ budget \in Budgets

\* The types of the state, and which locals of Reconcile are set at which point: it
\* never goes on without the Atom and the OwnerInfo it needs.
TypeOK == ApiOK /\ CacheOK /\ PipeOK /\ RecOK /\ EnvOK

Init ==
    /\ api \in {[id \in Ids |-> IF id = OwnerId THEN o ELSE NoObj] : o \in Owners \cup {NoObj}}
    /\ cache = api
    /\ pipe = [id \in Ids |-> <<>>]
    /\ queued = FALSE
    /\ rec = Idle
    /\ now = 0
    /\ nextUid = 1
    /\ budget = [edits |-> MaxEdits, tampers |-> MaxTampers, touches |-> MaxTouches,
                 faults |-> MaxFaults, crashes |-> MaxCrashes]

-----------------------------------------------------------------------------
(* The API server and the watch *)

\* Bound: only MaxLag events may be under way, so a write waits for room.
Room == Cardinality({e \in Ids \X (1 .. MaxLag) : e[2] <= Len(pipe[e[1]])}) < MaxLag

Write(id, v) == /\ Room
                /\ api'  = [api EXCEPT ![id] = v]
                /\ pipe' = [pipe EXCEPT ![id] = Append(@, v)]

\* A write that leaves the object as it was but for its resourceVersion.
Touch(id) == /\ Room
             /\ pipe' = [pipe EXCEPT ![id] = Append(@, api[id])]
             /\ UNCHANGED api

NoWrite == UNCHANGED <<api, pipe>>

Spend(what) == /\ budget[what] > 0
               /\ budget' = [budget EXCEPT ![what] = @ - 1]

\* ConfigMaps and Services have no metadata.generation, and a change of metadata only
\* (the owner reference) changes no object's generation.
GenerationChanged(k, old, new) == /\ k \notin ConfigKeys \cup {Service}
                                  /\ old.content # new.content

\* Mutant: the predicate drops deletions.
Enqueues_NoDelete(id, old, new) ==
    \/ id = AtomId
    \/ id \in Kids /\ old = NoObj
    \/ id \in Kids /\ old # NoObj /\ new # NoObj /\ GenerationChanged(id, old, new)

\* SetupWithManager: every Atom event, creations and deletions of owned objects, and
\* their updates that pass GenerationChangedPredicate.  No OwnerInfo has an Atom as
\* its controller, so its events enqueue nothing.
Enqueues(id, old, new) ==
    \/ id = AtomId
    \/ id \in Kids /\ (old = NoObj \/ new = NoObj)
    \/ id \in Kids /\ old # NoObj /\ new # NoObj /\ GenerationChanged(id, old, new)

Deliver(id) ==
    /\ pipe[id] # <<>>
    /\ cache'  = [cache EXCEPT ![id] = Head(pipe[id])]
    /\ pipe'   = [pipe EXCEPT ![id] = Tail(@)]
    /\ queued' = (queued \/ Enqueues(id, cache[id], Head(pipe[id])))
    /\ UNCHANGED <<api, rec, now, nextUid, budget>>

-----------------------------------------------------------------------------
(* Reconcile *)

FetchAtom ==
    /\ rec.pc = "idle"
    /\ queued
    /\ queued' = FALSE
    /\ rec' = IF cache[AtomId] = NoObj THEN Idle
              ELSE [Idle EXCEPT !.pc = "owner", !.atom = cache[AtomId]]
    /\ NoWrite /\ UNCHANGED <<cache, now, nextUid, budget>>

\* Mutant: the early return for a missing OwnerInfo is gone.
FetchOwnerInfo_NoReturn ==
    /\ rec.pc = "owner"
    /\ rec' = [rec EXCEPT !.pc = "ttl", !.owner = cache[OwnerId]]
    /\ NoWrite /\ UNCHANGED <<cache, queued, now, nextUid, budget>>

\* A missing OwnerInfo ends the call without an error: nothing requeues it.
FetchOwnerInfo ==
    /\ rec.pc = "owner"
    /\ rec' = IF cache[OwnerId] = NoObj THEN Idle
              ELSE [rec EXCEPT !.pc = "ttl", !.owner = cache[OwnerId]]
    /\ NoWrite /\ UNCHANGED <<cache, queued, now, nextUid, budget>>

\* The Delete has no precondition: it removes whatever Atom has the name by now.
CheckTTL ==
    /\ rec.pc = "ttl"
    /\ \/ /\ ~ ttlExpired(rec.atom)
          /\ rec' = [rec EXCEPT !.pc = "config"]
          /\ NoWrite /\ UNCHANGED <<queued, budget>>
       \/ /\ ttlExpired(rec.atom)
          /\ api[AtomId] # NoObj
          /\ Write(AtomId, NoObj)
          /\ rec' = Idle
          /\ UNCHANGED <<queued, budget>>
       \/ /\ ttlExpired(rec.atom)
          /\ api[AtomId] = NoObj
          /\ rec' = Idle
          /\ queued' = TRUE
          /\ NoWrite /\ UNCHANGED budget
       \/ /\ ttlExpired(rec.atom)
          /\ Spend("faults")
          /\ rec' = Idle
          /\ queued' = TRUE
          /\ NoWrite
    /\ UNCHANGED <<cache, now, nextUid>>

Goto(pc) == [rec EXCEPT !.pc = pc]

\* DeepEqual finds the mutated object equal to the cached one.  It never does for a
\* Deployment or a Service: the mutate functions drop what the API server defaults.
UpToDate(k, new) == cache[k] = new /\ k \notin {Deployment, Service}

\* A Create needs the name to be free, an Update the version that was read.
Accepted(k) == IF cache[k] = NoObj THEN api[k] = NoObj ELSE pipe[k] = <<>>

\* "the object has been modified" is an error for every object but the Deployment.
ConflictIgnored(k) == k = Deployment /\ cache[k] # NoObj /\ api[k] # NoObj

Put(k, new) == IF api[k] = new THEN NoWrite ELSE Write(k, new)

\* controllerutil.CreateOrUpdate and the check of its error: then is where Reconcile
\* goes on when the error is nil or ignored.
CreateOrUpdate(k, content, then) ==
    LET new == [owner |-> rec.atom.uid, content |-> content]
    IN  \/ /\ UpToDate(k, new)
           /\ rec' = then
           /\ NoWrite /\ UNCHANGED budget
        \/ /\ ~ UpToDate(k, new)
           /\ Accepted(k)
           /\ Put(k, new)
           /\ rec' = then
           /\ UNCHANGED budget
        \/ /\ ~ UpToDate(k, new)
           /\ ~ Accepted(k)
           /\ rec' = IF ConflictIgnored(k) THEN then ELSE Goto("fail")
           /\ NoWrite /\ UNCHANGED budget
        \/ /\ ~ UpToDate(k, new)
           /\ Spend("faults")
           /\ NoWrite \/ (Accepted(k) /\ Put(k, new))
           /\ rec' = Goto("fail")

spec == rec.atom.spec

MutateConfigMap ==
    /\ rec.pc = "config"
    /\ \/ /\ Generate(spec, rec.owner) = "ok"
          /\ LET d == ConfigData(spec, rec.owner)
             IN  CreateOrUpdate(ConfigMap(d), d, Goto("deployment"))
       \/ /\ Generate(spec, rec.owner) \in {"error", "panic"}
          /\ rec' = Goto("fail")
          /\ NoWrite /\ UNCHANGED budget
    /\ UNCHANGED <<cache, queued, now, nextUid>>

MutateDeployment ==
    /\ rec.pc = "deployment"
    /\ CreateOrUpdate(Deployment, mutateDeployment(ConfigData(spec, rec.owner)), Goto("service"))
    /\ UNCHANGED <<cache, queued, now, nextUid>>

MutateService ==
    /\ rec.pc = "service"
    /\ CreateOrUpdate(Service, mutateService, Goto("strip"))
    /\ UNCHANGED <<cache, queued, now, nextUid>>

\* Mutant: the middleware is created but never updated.
MutateStripPrefix_Once ==
    /\ rec.pc = "strip"
    /\ \/ /\ cache[StripPrefix] # NoObj
          /\ rec' = Goto("headers")
          /\ NoWrite /\ UNCHANGED budget
       \/ /\ cache[StripPrefix] = NoObj
          /\ CreateOrUpdate(StripPrefix, mutateStripPrefixMiddleware(spec), Goto("headers"))
    /\ UNCHANGED <<cache, queued, now, nextUid>>

MutateStripPrefix ==
    /\ rec.pc = "strip"
    /\ CreateOrUpdate(StripPrefix, mutateStripPrefixMiddleware(spec), Goto("headers"))
    /\ UNCHANGED <<cache, queued, now, nextUid>>

\* Mutant: the IngressRoute comes before the download link middlewares.
AfterDownload_Skip(pend) == [rec EXCEPT !.pc = "ingress", !.pend = pend]

\* Next the range over the map of download link groups, if there are any.
AfterDownload(pend) ==
    [rec EXCEPT !.pc = IF pend = {} THEN "ingress" ELSE "downloads", !.pend = pend]

MutateHeaders ==
    /\ rec.pc = "headers"
    /\ CreateOrUpdate(Headers, mutateHeadersMiddleware, AfterDownload(Indices(spec)))
    /\ UNCHANGED <<cache, queued, now, nextUid>>

\* Go ranges over a map in any order.
MutateDownloadLink ==
    /\ rec.pc = "downloads"
    /\ \E i \in rec.pend :
          CreateOrUpdate(Downloads(i), mutateDownloadLinkMiddleware(spec, i),
                         AfterDownload(rec.pend \ {i}))
    /\ UNCHANGED <<cache, queued, now, nextUid>>

MutateIngressRoute ==
    /\ rec.pc = "ingress"
    /\ CreateOrUpdate(IngressRoute, mutateIngressRoute(spec), Goto("pdb"))
    /\ UNCHANGED <<cache, queued, now, nextUid>>

\* Mutant: the call is forgotten.
MutatePodDisruptionBudget_Skip ==
    /\ rec.pc = "pdb"
    /\ rec' = Goto("finish")
    /\ NoWrite /\ UNCHANGED <<cache, queued, now, nextUid, budget>>

MutatePodDisruptionBudget ==
    /\ rec.pc = "pdb"
    /\ CreateOrUpdate(PDB, mutatePodDisruptionBudget, Goto("finish"))
    /\ UNCHANGED <<cache, queued, now, nextUid>>

\* LogAndUpdateStatus*: re-reads the Atom, writes the status if it differs, and only
\* logs an error, so that a conflict or a failed call loses the status.
UpdateStatus(s) ==
    LET seen    == cache[AtomId]
        changed == seen # NoObj /\ seen.status # s
    IN  \/ /\ changed /\ pipe[AtomId] = <<>>
           /\ Write(AtomId, [seen EXCEPT !.status = s])
           /\ UNCHANGED budget
        \/ /\ ~ changed \/ pipe[AtomId] # <<>>
           /\ NoWrite /\ UNCHANGED budget
        \/ /\ changed
           /\ Spend("faults")
           /\ NoWrite

Finish ==
    /\ rec.pc = "finish"
    /\ UpdateStatus("Finished")
    /\ rec' = Idle
    /\ UNCHANGED <<cache, queued, now, nextUid>>

\* Mutant: the error does not reach the status.
Fail_Silent ==
    /\ rec.pc = "fail"
    /\ rec' = Idle
    /\ queued' = TRUE
    /\ NoWrite /\ UNCHANGED <<cache, now, nextUid, budget>>

\* Reconcile returns the error, so the work queue retries the Atom.
Fail ==
    /\ rec.pc = "fail"
    /\ UpdateStatus("Error")
    /\ rec' = Idle
    /\ queued' = TRUE
    /\ UNCHANGED <<cache, now, nextUid>>

Reconcile ==
    \/ FetchAtom \/ FetchOwnerInfo \/ CheckTTL
    \/ MutateConfigMap \/ MutateDeployment \/ MutateService \/ MutateStripPrefix
    \/ MutateHeaders \/ MutateDownloadLink \/ MutateIngressRoute
    \/ MutatePodDisruptionBudget \/ Finish \/ Fail

\* The informer's periodic resync (10 hours unless the manager sets SyncPeriod) sends
\* an update event of the cached Atom; predicates drop it for every other object.
Resync ==
    /\ cache[AtomId] # NoObj
    /\ ~ queued
    /\ queued' = TRUE
    /\ UNCHANGED <<api, cache, pipe, rec, now, nextUid, budget>>

\* The manager process dies at any point; its successor lists every object, and each
\* of them is a create event.
Restart ==
    /\ Spend("crashes")
    /\ cache' = api
    /\ pipe' = [id \in Ids |-> <<>>]
    /\ rec' = Idle
    /\ queued' = TRUE
    /\ UNCHANGED <<api, now, nextUid>>

-----------------------------------------------------------------------------
(* Everybody else *)

\* What the validating webhook asks of the OwnerInfo, as its cached client shows it.
Admitted(s) == /\ cache[OwnerId] # NoObj
               /\ cache[OwnerId].hasAtom
               /\ s.links => cache[OwnerId].hasUrls

\* Mutant: the webhook lets URLs go.
URLsKept_Dropped(old, s) == TRUE

\* validateUpdate: no URL where the service is reached may disappear.
URLsKept(old, s) == old.urls \subseteq s.urls

CreateAtom(s) ==
    /\ api[AtomId] = NoObj
    /\ nextUid <= MaxUid
    /\ Admitted(s)
    /\ Spend("edits")
    /\ Write(AtomId, [uid |-> nextUid, spec |-> s, created |-> now, status |-> "None"])
    /\ nextUid' = nextUid + 1
    /\ UNCHANGED <<cache, queued, rec, now>>

UpdateAtom(s) ==
    /\ api[AtomId] # NoObj
    /\ api[AtomId].spec # s
    /\ Admitted(s)
    /\ URLsKept(api[AtomId].spec, s)
    /\ Spend("edits")
    /\ Write(AtomId, [api[AtomId] EXCEPT !.spec = s])
    /\ UNCHANGED <<cache, queued, rec, now, nextUid>>

DeleteAtom ==
    /\ api[AtomId] # NoObj
    /\ Spend("edits")
    /\ Write(AtomId, NoObj)
    /\ UNCHANGED <<cache, queued, rec, now, nextUid>>

SetOwnerInfo(o) ==
    /\ api[OwnerId] # o
    /\ Spend("edits")
    /\ Write(OwnerId, o)
    /\ UNCHANGED <<cache, queued, rec, now, nextUid>>

\* Somebody edits or deletes a child.  A ConfigMap is immutable.
Drift(k) ==
    /\ api[k] # NoObj
    /\ api[k].content # Foreign
    /\ k \notin ConfigKeys
    /\ k[1] \in DriftKinds
    /\ Spend("tampers")
    /\ Write(k, [api[k] EXCEPT !.content = Foreign])
    /\ UNCHANGED <<cache, queued, rec, now, nextUid>>

Remove(k) ==
    /\ api[k] # NoObj
    /\ Spend("tampers")
    /\ Write(k, NoObj)
    /\ UNCHANGED <<cache, queued, rec, now, nextUid>>

\* The deployment controller writes the Deployment's status, and the ReplicaSet event
\* handler the pod summary in the Atom's.
WriteStatus(id) ==
    /\ api[id] # NoObj
    /\ Spend("touches")
    /\ Touch(id)
    /\ UNCHANGED <<cache, queued, rec, now, nextUid>>

\* The garbage collector removes an object whose controller's uid is gone.
Collect(k) ==
    /\ api[k] # NoObj
    /\ api[AtomId] # NoObj => api[AtomId].uid # api[k].owner
    /\ Write(k, NoObj)
    /\ UNCHANGED <<cache, queued, rec, now, nextUid, budget>>

Tick ==
    /\ now < Horizon
    /\ now' = now + 1
    /\ UNCHANGED <<api, cache, pipe, queued, rec, nextUid, budget>>

Users == \/ "create" \in UserOps /\ \E s \in Specs : CreateAtom(s)
         \/ "update" \in UserOps /\ \E s \in Specs : UpdateAtom(s)
         \/ "delete" \in UserOps /\ DeleteAtom
         \/ "owner"  \in UserOps /\ \E o \in Owners \cup {NoObj} : SetOwnerInfo(o)

Others == \/ \E k \in Kids : Drift(k) \/ Remove(k)
          \/ \E id \in {AtomId, Deployment} : WriteStatus(id)

Next == \/ Reconcile
        \/ \E id \in Ids : Deliver(id)
        \/ Resync
        \/ Restart
        \/ Users
        \/ Others
        \/ \E k \in Kids : Collect(k)
        \/ Tick

Spec == Init /\ [][Next]_vars

(***************************************************************************)
(* Fairness.  The work queue hands out what it holds and Reconcile runs to *)
(* its end; watch connections are re-established; the garbage collector    *)
(* runs.  LiveSpec adds the periodic resync and the passing of time.       *)
(***************************************************************************)
EventSpec == /\ Spec
             /\ WF_vars(Reconcile)
             /\ WF_vars(\E id \in Ids : Deliver(id))
             /\ WF_vars(\E k \in Kids : Collect(k))

LiveSpec == EventSpec /\ WF_vars(Resync) /\ WF_vars(Tick)

-----------------------------------------------------------------------------
(* Properties *)

Live      == api[AtomId] # NoObj
Owned(k)  == api[k] # NoObj /\ api[k].owner = api[AtomId].uid
Untouched == budget.tampers = MaxTampers

\* What an object refers to by name, given its content.
Refs(k, content) ==
    CASE k = Deployment   -> {ConfigMap(content)}
      [] k = IngressRoute -> {Service, Headers, StripPrefix} \cup
                             {Downloads(i) : i \in 0 .. (content.downloads - 1)}
      [] OTHER            -> {}

\* Unless somebody else edits or deletes children, every object that the live Atom's
\* Deployment or IngressRoute names exists and belongs to the same Atom: the order of
\* the calls in createOrUpdateAllForAtom, the hashed ConfigMap names and never deleting
\* an old ConfigMap keep this so while specs change, calls fail, the manager restarts
\* half way, the cache is stale and the Atom is deleted and created again.
RefsResolve ==
    Live /\ Untouched =>
        \A k \in {Deployment, IngressRoute} :
            Owned(k) => \A r \in Refs(k, api[k].content) : Owned(r)

\* Unless others interfere, the middlewares of the live Atom are ready for every URL it
\* routes: the path of each URL in the IngressRoute is a prefix that StripPrefix strips
\* and an alternative in the regex of every download link middleware the route names.
\* That takes the order of the calls (middlewares before the IngressRoute), the rule of
\* the webhook that no URL is removed, and that no read is older than an earlier one.
RoutesPrepared ==
    Live /\ Untouched /\ Owned(IngressRoute) =>
        LET route == api[IngressRoute].content
        IN  /\ Owned(StripPrefix) /\ route.urls \subseteq api[StripPrefix].content
            /\ \A i \in 0 .. (route.downloads - 1) :
                  Owned(Downloads(i)) /\ route.urls \subseteq api[Downloads(i)].content.urls

Desired(s, o) == FixedKeys \cup {ConfigMap(ConfigData(s, o))} \cup {Downloads(i) : i \in Indices(s)}

\* The content each object should have for a spec and an OwnerInfo.
Reflects(s, o) ==
    /\ api[Deployment].content = ConfigData(s, o)
    /\ api[StripPrefix].content = s.urls
    /\ \A i \in Indices(s) : api[Downloads(i)].content = [files |-> s.groups[i + 1], urls |-> s.urls]
    /\ api[IngressRoute].content = [feeds |-> s.conf, urls |-> s.urls, downloads |-> Len(s.groups)]
    /\ \A k \in {Service, Headers, PDB} : api[k].content # Foreign

\* Does the stored OwnerInfo let the generator succeed (TRUE), fail (FALSE), or neither.
Generates(result) ==
    Live /\ api[OwnerId] # NoObj /\ (Generate(api[AtomId].spec, api[OwnerId]) = "ok") = result

ObjectsSettled ==
    /\ \A k \in Kids : api[k] # NoObj => Live /\ Owned(k)
    /\ Generates(TRUE) => /\ \A k \in Desired(api[AtomId].spec, api[OwnerId]) : Owned(k)
                          /\ Reflects(api[AtomId].spec, api[OwnerId])

StatusSettled == /\ Generates(TRUE)  => api[AtomId].status = "Finished"
                 /\ Generates(FALSE) => api[AtomId].status = "Error"

\* Once users and others leave the cluster alone, it comes to reflect the Atom and
\* stays so: all children exist, belong to the Atom and follow from its spec and its
\* OwnerInfo and the status says Finished; or the status says Error where no config can
\* be generated; or, without an Atom, nothing is left.  Whatever was lost to conflicts,
\* stale reads, failed calls and restarts on the way is repaired.
Converges == <>[](ObjectsSettled /\ StatusSettled)

\* The same of the objects alone, and without waiting for the periodic resync: the
\* watches and the retries of the work queue are enough, as long as the OwnerInfo stays
\* the same and others edit only objects that have a generation.
ConvergesOnEvents == <>[]ObjectsSettled

\* The TTL as the spec states it, in days since the creation.
TTLElapsed(a) == a.spec.ttl # NoTTL /\ a.created + a.spec.ttl < now

\* Reconcile deletes the stored Atom only if that Atom's TTL has elapsed.
DeletesOnlyExpired ==
    [][rec.pc = "ttl" /\ rec' # rec /\ Live /\ api'[AtomId] = NoObj => TTLElapsed(api[AtomId])]_vars

\* An Atom whose TTL has elapsed, and is not extended, is removed.
ExpiredIsRemoved == [](Live /\ TTLElapsed(api[AtomId]) => <>(~ Live \/ ~ TTLElapsed(api[AtomId])))

\* The same, for an Atom whose OwnerInfo is there.
ExpiredIsRemovedIfOwned ==
    [](Live /\ TTLElapsed(api[AtomId])
         => <>(~ Live \/ ~ TTLElapsed(api[AtomId]) \/ api[OwnerId] = NoObj))

\* When Reconcile reports that it finished, the Deployment mounts the config that was
\* generated in this call (unless others changed it).
FinishedMeansRolledOut ==
    rec.pc = "finish" /\ Untouched
        => api[Deployment] # NoObj /\ api[Deployment].content = ConfigData(spec, rec.owner)
=============================================================================
