# Verification of the Atom operator

TLA+ models of [PDOK/atom-operator](https://github.com/PDOK/atom-operator): a Kubernetes
operator that turns an `Atom` custom resource into a running INSPIRE Atom download service.
TLC checks the models on small instances; TLAPS proves the most important properties for
every instance.

## The system

| Part | State | Operations | Talks to |
|---|---|---|---|
| Reconciler (`internal/controller/atom_controller.go`) | none of its own: everything is in the API server, read through an informer cache; the work queue holds the names to reconcile | `Reconcile`: fetch Atom, fetch OwnerInfo, check the TTL, write ConfigMap, Deployment, Service, StripPrefix and Headers middlewares, one middleware per group of download links, IngressRoute, PodDisruptionBudget, then the status | API server, cache, queue |
| Builders (`deployment.go`, `service.go`, `middleware.go`, `ingressroute.go`, `poddisruptionbudget.go`, `atom_generator_configmap.go`) | – | pure `mutate*` functions from Atom (and config) to object | reconciler, Traefik by way of the objects |
| Mapper (`generator/mapper.go`) | – | `MapAtomV3ToAtomGeneratorConfig` | OwnerInfo |
| Admission (`internal/webhook/v3`, `api/v3/atom_validation.go`, CRD schema) | – | validate create, update, delete | cached OwnerInfo |
| Conversion (`api/v2beta1`) | – | `ToV3`, `ConvertFrom` | API server |
| Manager (`cmd/main.go`) | cache, leader lease | start, restart | everything |
| External | API server objects, watches, garbage collector, OwnerInfo, Traefik, the smooth-operator library | | |

Hard behaviours: every read is from a cache that lags; a reconcile writes up to a dozen
objects one after the other, any of which may fail or conflict; others write the same
objects (the deployment controller, the garbage collector, people); the process may die
anywhere; some errors are swallowed; some changes trigger no event. `PROJECT.json` lists
each hazard at its line.

What makes each part correct:

* *Reconciler*: no object refers to something that is not there; middlewares are ready for
  every URL that is routed; whatever happens in between, the cluster ends up reflecting
  the Atom and its OwnerInfo, and the status tells the truth; an expired Atom, and only an
  expired one, is removed.
* *Admission*: what is admitted can be mapped; a URL in use is never taken away; changing
  the base URL remains possible.
* *Mapper*: feeds and entries have ids of their own, the service feed describes the dataset
  feeds, and every link that is published leads somewhere.
* *Routing*: whatever mixture of old and new objects is in front of a client, a request for a
  document is answered by the Atom's own pods with that document, and one for a download with
  its blob or not at all.
* *Conversion*: what is applied as v2beta1 can be read back as it was, and reading and writing
  back loses nothing; the converted Atom is one the mapper can work with.

## Modules

| Module | Role |
|---|---|
| `AtomController` | the reconciler for one Atom name with cache, queue, API server, garbage collector, users and other writers |
| `MCAtomController` + `OwnerInfo`, `Events`, `TTL`, `TTLWithoutOwner`, `TTLStale`, `TTLOverflow`, `Conflict` `.cfg` | TLC instances |
| `AtomService` | what the operator promises about the URLs of an Atom, without caches and calls |
| `AtomRefinement` | the mapping by which `AtomController` implements `AtomService` |
| `MCAtomRefinement` + `Edits`, `Recreate` `.cfg` | TLC instances of both |
| `AtomAdmission` | CRD rules, webhook, and what the mapper and the IngressRoute make of an admitted Atom |
| `MCAtomAdmission` + `Admission.cfg` | TLC instance |
| `AtomFeeds` | the generator config: feeds, entries, links, relations, categories, ids |
| `AtomRouting` | the middlewares and the IngressRoute of several Atoms, in front of pods and storage, while they are replaced; composes `AtomFeeds` |
| `MCAtomRouting` + `Routing.cfg` | TLC instance |
| `AtomConversion` | v2beta1 to v3 and back, and users of both versions; composes `AtomFeeds` |
| `MCAtomConversion` + `Conversion.cfg` | TLC instance |
| `AtomControllerProofs`, `AtomServiceProofs`, `AtomRefinementProofs`, `AtomRoutesProofs`, `AtomAdmissionProofs`, `AtomRoutingProofs`, `AtomRequestsProofs`, `AtomConversionProofs` | theorems |

### AtomController

`api`, `cache` and `pipe` are maps from object ids to the stored version, the version the
informer shows, and the versions still on their way. A write puts the new version in `api`
and appends it to the object's `pipe`; `Deliver` moves one event into the cache and queues
the Atom if the filters of `SetupWithManager` let the event through. Events of one object
arrive in order, events of different objects in any order. A `resourceVersion` is only
ever compared to find out whether the cached object is the stored one; that is the case
iff its pipe is empty, so versions carry no number.

`rec` is the running `Reconcile` call. The source between two API calls is one atomic step;
`rec.pc` says which call comes next and `rec.atom`, `rec.owner`, `rec.pend` are the locals
that survive from one to the next:

| `rec.pc` | Action | Source |
|---|---|---|
| `idle` | `FetchAtom` | `Reconcile` 103-117 |
| `owner` | `FetchOwnerInfo` | 119-133 |
| `ttl` | `CheckTTL` | 143-148, `ttlExpired` |
| `config` | `MutateConfigMap` | 167-180, mapper failures, recovered panics |
| `deployment` | `MutateDeployment` | 182-190, with the ignored conflict |
| `service`, `strip`, `headers` | `MutateService`, `MutateStripPrefix`, `MutateHeaders` | 192-218 |
| `downloads` | `MutateDownloadLink` | 220-229, in any order of the map |
| `ingress`, `pdb` | `MutateIngressRoute`, `MutatePodDisruptionBudget` | 233-252 |
| `finish`, `fail` | `Finish`, `Fail` | 135-160, including the status update |

`CreateOrUpdate` has four outcomes: the mutated object equals the cached one and nothing is
written; the API server accepts the write; it refuses it (`AlreadyExists`, conflict, not
found); or the call fails, with or without the write having happened. A Deployment or a
Service never equals the cached one, because their mutate functions drop what the API
server defaults, but the API server ignores an update that changes nothing. Status updates
go through smooth-operator, which logs errors and returns nothing.

Data is abstracted to what these properties tell apart. A spec has `conf` (base URL, names,
titles), `urls` (where it is reached), `groups` (download links by blob prefix), `links`
(metadata templates are used) and `ttl`. The config is a tuple of what it depends on, and it
is also the name of its ConfigMap, whose real name carries a hash of the data. An object is
`[owner, content]`, where `owner` is the uid in its controller reference.

Reads from the cache do not fail but by not finding the object, so the branches for other
errors of `Get` (lines 113-116 and 129-132), which return the error and so retry, are not
distinct steps. One worker runs one call at a time, as the default `MaxConcurrentReconciles` does; a
retry's back-off is not modelled (the retry may come at any time).

### AtomService and AtomRefinement

`AtomService` knows the versions of the Atom from the one the operator sees to the stored
one, the version it works on, and what is published. `AtomRefinement` maps the cached Atom
and the events under way to the first, the Atom of the running call to the second and the
IngressRoute to the third. Steps of the reconciler correspond so:

| `AtomController` | `AtomService` |
|---|---|
| `CreateAtom`; `UpdateAtom`, `WriteStatus` of the Atom; `DeleteAtom` | `Create`; `Update`; `Delete` |
| `Deliver` of the Atom | `See` |
| `FetchAtom` that finds it | `Begin` |
| `MutateIngressRoute` that writes | `Publish` |
| `FetchOwnerInfo`, `CheckTTL`, `Finish`, `Fail` that end the call | `End` |
| `Restart` | `Restart` |
| `Drift`, `Remove` | `Tamper` |
| `Collect` of the IngressRoute | `Withdraw` |
| every other step | a stutter |

Two promises follow that the controller alone hardly shows: `PublishesStored` and
`URLsStayPublished`. Both end when somebody edits the children by hand (`touched`).

### AtomAdmission

One Atom, a set of OwnerInfos and the webhook's cached view of them. Every rule of
`ValidateAtom`, `validateDatasetFeeds`, `validateUpdate` and `ValidateOwnerInfo`, and the
CRD rules they rely on, are conjuncts of the guards of `CreateAtom` and `UpdateAtom`. The
mapper's lookups (`LookedUp`, with the early return for `onlyCSW`) are modelled apart from
the templates validation collects, so that the two can be compared. The four checks from
the smooth-operator library are external: they are modelled from the messages that
`atom_webhook_test.go` expects of them. Strings are compared for equality only.

### AtomFeeds and AtomRouting

`AtomFeeds` is `generator/mapper.go` as operators: from a spec to a sequence of feeds, the
service feed first. A path is a sequence of segments and a segment a sequence of parts, so
that a name can be the beginning of another one. The URL of a link to a download keeps the
blob it was made for (`data`), for properties to compare with.

`AtomRouting` runs several Atoms. A `Reconcile` call writes config and Deployment, Service,
StripPrefix, the download middlewares in any order and the IngressRoute, each in a step, and
may stop before any of them (`Stop`: a failed call, a restart). Pods start with the config of
the Deployment and go later (`StartPod`, `StopPod`), so old and new ones answer side by side.
That reads are stale and writes conflict only delays these writes; that is the subject of
`AtomController`. The builders are operators named as in the code. The Headers middleware is
left out, as it changes no path.

How Traefik reads the objects is external and modelled in `Answers`: any rule that matches
may answer; StripPrefix takes off the first listed prefix that matches; a download
middleware rewrites if its regex matches, which is not anchored at the end; a rule whose
middlewares are not all there answers nothing; a Service selects every pod that has its
labels.

### AtomConversion

`ToV3` and `ConvertFrom`, field by field, with `int32` as arithmetic modulo twice
`HalfRange` and floats as boxes that may lose digits (`Rounded`). Optional fields that are
absent (`None`) are kept apart from the empty string the code makes of them (`Empty`), and
times that cannot be parsed (`Bad`) make `ToV3` fail. Users apply Atoms of either version
(`Apply`, `ApplyV3`), read the stored one as v2beta1 (`Read`, which panics on an Atom without
metadata links) and write back what they have read, as it is or edited (`WriteBack`,
`EditBack`); the clock goes on in between. The actions are what an API server does that
calls the conversions; `cmd/main.go` registers only v3, and the CRD decides whether it does.
`ToV3` and `ConvertFrom` leave out `status`, `autoscaling`, `healthCheck` and `resources`,
which the code drops.

## What is checked

| Run | States | Checks |
|---|---|---|
| `Edits` | 433 000 | `RefsResolve`, `RoutesPrepared`, `PublishesStored`, `Converges`, `Implements`: create and update, one failed call, one status-only write |
| `OwnerInfo` | 455 000 | `TypeOK`, `Converges`: OwnerInfo changes, one edit or deletion of any child |
| `Recreate` | 555 000 | `RefsResolve`, `RoutesPrepared`, `Converges`, `Implements`, `URLsStayPublished`: create, update and delete, or create, delete and create again with other URLs; one restart |
| `Events` | 224 000 | `ConvergesOnEvents`: create and update with tampering, but no resync |
| `TTL` | 495 000 | `ExpiredIsRemovedIfOwned`: create, update, delete, OwnerInfo comes and goes, one failed call |
| `Admission` | 146 000 | `AdmissionTypeOK`, `BaseCanMove`, `AdmittedMaps`, `URLsStay`: lists of URLs, metadata links, feeds that break a rule, OwnerInfos |
| `Routing` | 446 000 | `RoutingTypeOK`, `DocumentsServed`, `LinksResolve`, `NeverWrongBlob`, `IdsDiffer`, `EntriesDescribeFeeds`, `PartsOrWhole`: rollouts of specs with other URLs, groups and feeds, next to a second Atom |
| `Conversion` | 4 000 | `ConversionTypeOK`, `ReadsBack`, `ConvertedPolygonsAgree`, `WriteBackKeeps`: users of both versions |

* `RefsResolve`: the ConfigMap the Deployment mounts, and the Service and middlewares the
  IngressRoute names, exist and belong to the live Atom.
* `RoutesPrepared`: for every URL in the IngressRoute, StripPrefix strips its path and every
  download middleware in use matches it. It holds because the middlewares are written
  first *and* the webhook lets no URL go: without the latter (the mutant `URLsKept_Dropped`)
  an update breaks the routes that are still there.
* `Converges`: `<>[]` of all children present, owned and up to date with the status
  `Finished`; or the status `Error`; or nothing left of a deleted Atom.
* `ConvergesOnEvents`: the same of the objects without the 10-hour resync. It needs its two
  exclusions, a changing OwnerInfo and edits of Services, because neither queues the Atom;
  it would also fail with a status-only write of the Deployment, by the ignored conflict.
* `Implements`: every step is one of `AtomService` or changes nothing of it. `PublishesStored`:
  the IngressRoute of the live Atom has no URL the stored spec does not ask for.
  `URLsStayPublished`: no step takes back a URL while the Atom exists, or goes back to an
  earlier Atom of the name. Each fails if the webhook lets a URL go (`URLsKept_Dropped`): a
  call that works on an old version then publishes what users have taken back.
* `ExpiredIsRemovedIfOwned`, `URLsStay`, `AdmittedMaps`: see the comments in the modules.
* `BaseCanMove`: as long as `ingressRouteUrls` has room, some admitted update changes the
  base URL to any other one.
* `DocumentsServed`: while objects of different specs are in use, a document that is routed and
  that all running pods have is what a request for it gets, from the Atom's own pods.
* `LinksResolve`: when a spec is rolled out, each link in its feeds leads, at each of the Atom's
  URLs, to the feed or the blob it was made for.
* `NeverWrongBlob`: during a rollout that changes indices and prefixes of the groups, every
  middleware that a rule names is there, and a download is answered with its blob or looked
  for where the storage has nothing: never with another blob.
* `IdsDiffer`, `EntriesDescribeFeeds`, `PartsOrWhole`: ids are unique, the service feed has each
  dataset's id and all its categories once, and a client can tell a download in parts from
  one in a single file.
* `ReadsBack`, `WriteBackKeeps`: the conversions are inverse to each other where they can be,
  and a user who reads, waits and writes back changes nothing but the author.
* `ConvertedPolygonsAgree`: the mapper takes a dataset's polygon from its first entry
  (`mapper.go:115`); in converted Atoms all entries have the same one.

### Exceptions the properties make

Where the code does not do what one may expect and no text of the repository says that it
should, the property names the exception, in an operator of its own where it can:

* `Nested`: StripPrefix takes off the first prefix that matches, so documents at a URL below
  another URL of the Atom that is listed earlier are not found.
  `test_data/maximum-atom/input/atom.yaml:9-10` has such URLs.
* `Shadowed`: a file whose name begins with that of a file in an earlier group (`roads.gml`,
  `roads.gml.zip`) is looked for in the wrong container.
* `Moves`: specs that place a file name, or the beginning of it, in different groups; then an old
  middleware may answer with the file of that name elsewhere.
* `Apart`: two Atoms share pods if the labels of one contain those of the other, and answer each
  other's requests if they share a URL, or one has a URL below the downloads of the other. The
  run gives each Atom a label and URLs of its own; `MCAtomRouting` checks that it is apart.
* `OtherRels`: a user who calls a link `alternate`, `section`, `self` or `up`, as the mapper calls
  its own, may give an entry both a whole and parts, or a feed a link that leads elsewhere.
* A feed called `index` has the id of the service feed, and entries of different feeds may
  share an id.
* A ttl of v2beta1 outside `int32` comes out as another one.
* The general part of v2beta1 is read back from labels: if these do not repeat it, it is lost,
  and with it the base URL once the Atom is written back.
* `ConvertFrom` panics on v3 Atoms without metadata links; a v2beta1 link without
  `contentType` gets the type `""`, which the pattern of v3 refuses.
* Polygons of v3 Atoms may differ within a feed, against the assumption of `mapper.go:115`.

Four runs are expected to fail; each shows a disagreement between the code and what the
repository says of it:

* `TTLWithoutOwner`: the TTL is checked only after the OwnerInfo was found, so an Atom whose
  OwnerInfo is gone outlives its TTL.
* `TTLStale`: the Atom is deleted on the strength of a cached spec, without a precondition,
  although its TTL was just lifted.
* `TTLOverflow`: from 106 752 days on the TTL wraps around and the Atom is deleted at once.
* `Conflict`: a conflict on the Deployment is taken for success and reported as finished.
  (`Converges` shows that a resync repairs it.)

### Bounds

Each bound is a constant. Two incarnations of the Atom (`MaxUid`), because a third one meets
the leftovers of its predecessor as the second does; two events under way (`MaxLag`), so
that two objects can be stale at once or one by two versions; two writes by users after
which a third would only repeat a situation the cache cannot tell from the first two; one
fault, one tampering, one status-only write and one restart, each at every possible point.
The specs differ in everything the controller tells apart, and the number of download
groups shrinks and grows. `TTL` uses days 0 to 2 and a TTL of one day; `HalfRange` is out
of reach but in `TTLOverflow`, where a range of 4 days stands for 106 752. `Recreate` has
three writes by users, so that an Atom is created, updated and deleted, or created, deleted
and created again with more or fewer URLs; there one event is under way, since each object is
stale once. Its specs, and those of `TTL`, have no download links: download middlewares come
and go in `Edits`, and the theorems cover them across recreations.

The lists of `Admission` are all sequences of up to three of three URLs, and `MaxRoutes` is 3
(30 in the schema), so the full list occurs. The candidates with metadata and feeds have one
URL and labels of their own, so that they do not multiply with these.

`Routing` has three specs that users update one to the next, so that groups swap and lose
indices and the base URL moves; specs for nested URLs and shadowed files; and 11 specs for the
shapes of feeds, each with a base URL of its own so that no two are updated into each
other. `MaxRunning` = 2 lets pods of two configs run, the least for a mixture. `MaxGroups` = 10
is an assumption rather than a bound: the IngressRoute lists middlewares in the order of
their names, which is that of their indices up to ten.

`Conversion` has `HalfRange` = 4, with ttl inside, at and beyond the range, and a clock of five
readings, more than the times that occur; manifests combine labels that repeat the general
part, differ or are absent with times that are present, inherited, absent or garbled.

The proofs do not depend on any of these numbers.

`CHECK_DEADLOCK FALSE` in the controller runs: an operator without an Atom has nothing to
do, and the environment's budget ends.

### Fairness

`EventSpec` has weak fairness of `Reconcile` (the work queue hands out what it holds, and a
call returns since every API call has a timeout), of `Deliver` (informers re-list after a lost
watch) and of `Collect` (the garbage collector). `LiveSpec` adds `Resync` (the informer's
resync, 10 hours by default, `cmd/main.go` sets no other) and `Tick`. Nothing is assumed of
users or of other writers. Faults are finitely many, which stands for "calls do not fail for
ever".

## What is proved

Eight modules hold theorems, proved for all values of the constants from the `ASSUME`s of the
modules, which TLC evaluates on every run, and what is said below. They state every invariant
and every action property of the passing runs; TLC alone checks liveness.

`AtomControllerProofs`:

* `TypeCorrect`: `Spec => []TypeOK`.
* `ReferencesResolve`: `Spec => []RefsResolve`. `RefsResolve` is not inductive: that a write
  leaves the references good depends on what the call did before and on what stale copies are
  around. The inductive invariant `IInv` adds
  * `UidInv`: the uid of an incarnation orders everything. The cache shows incarnations in
    order, a call works for one no newer than any it may see later, and no child belongs to
    a newer one than the call that may write it. So no one takes a child from the live Atom.
  * `OwnContent`: untampered objects have a content their mutate function can produce.
  * `KidSeen`: if any version of a child, stored, cached or under way, belongs to the live
    Atom, so does the stored one. This is why a stale "nothing to do" is harmless.
  * `PassedOwned`: what the running call has passed is there and belongs to its Atom.

  Every step of `Next` is first classified (`NextKinds`) by what it does to the objects, and
  each conjunct is shown to survive each kind.

`AtomServiceProofs` proves of the abstract service, for any number of versions it is behind,
`ServicePublishesStored` and `ServiceURLsStayPublished`. `ServiceInv` says that versions are in
order: along the way from what is published by what is worked on and seen to what is stored,
each belongs to an earlier incarnation than the next or to the same one with no more URLs.

`AtomRefinementProofs` proves `ImplementsPromise` (`Spec => Implements`): initial states map to
initial states and each action to a step or a stutter (`Refines`, one case per action). With
the theorems about the service, `OnlyStoredPublished` (`PublishesStored`) and
`PublishedStays` (`URLsStayPublished`) follow for the controller. `VersionAssumption`, that
`NoObj` is no Atom and no route, is an `ASSUME` of `AtomRefinement`.

`AtomRoutesProofs` proves `MiddlewaresPrepared` (`RoutesPrepared`). Its invariant, on top of `IInv`
and the order of versions that the refinement gives, is `RoutesInv`: the URLs in a child come
before those of every Atom that is yet to be seen or worked on (`KidsBefore`), the stored
version of a child knows at least the URLs of every other version around (`StoredLast`), so
the middlewares that a call has passed know the URLs of its spec even where it found a stale
copy up to date (`PassedHave`), and what the stored IngressRoute refers to knows its URLs
(`RouteHas`).

`AtomAdmissionProofs` proves `AdmissionTypes` (the stored Atom always satisfies the rules for a
new one), `URLsStayRouted` (`URLsStay`, by cases on which of the two lists is absent),
`AdmittedAtomsMap` (`AdmittedMaps`, from the lemma that what `addMetadataLinks` looks up is
among the templates validation collects) and `BaseStaysMovable` (`BaseCanMove`: the update is
given by a bijection that lists the routed URLs, the old base and the new one).

`AtomRoutingProofs` is about what is published. It rests on one invariant, `ConfigsInv`: every
config that pods run, or that is on its way to them, was made of a spec that validation
admitted. The rest is about the mapper's operators.

* `AdmittedIdsDiffer` (`IdsDiffer`): names that differ give ids that differ (`FilesDiffer`).
* `EntriesDescribe` (`EntriesDescribeFeeds`): the categories of a feed are listed by the rank of the
  first entry that has them; ranks in a finite set of numbers count up from 0 without gaps
  (`Ranks`), so each category is listed, and once (`EachOnce`).
* `PartsOrWholes` (`PartsOrWhole`), for specs with `OtherRels`: the links of an entry
  that name no relation all get the same one, `section` if there are several of them and
  `alternate` otherwise (`RelsOfEntry`).

`AtomRequestsProofs` is about what requests get, whatever mixture of old and new objects is in
front of a client. None of its properties is inductive: what a rule answers depends on which
specs the objects of an Atom were made of, and on how far the running call has come. The
invariant `RequestsInv` says

* what each object is made of: a StripPrefix of a spec of the Atom (`StripInv`), each download
  middleware of a group of one (`DownloadsInv`), and at most `MaxGroups` of these;
* that the IngressRoute is never ahead (`RoutedInv`): Service and StripPrefix are there for
  every URL in it, and neither the stored spec nor the running call takes one of them away.
  That is where the webhook's rule that no URL goes (`URLsKept`) is needed;
* what the running call has done (`CallInv`).

`PlacedInv` adds that every middleware named by a rule is there: the groups a call has visited
have their place filled, a place once filled is never emptied, and the call writes the
IngressRoute when it has visited all. From these follow

* `RoutingTypes` (`RoutingTypeOK`);
* `DocumentsAreServed` (`DocumentsServed`): exactly one Atom's rules match the request
  (`MatchingRules`), and StripPrefix leaves the document's name;
* `NeverAnotherBlob` (`NeverWrongBlob`): a middleware either leaves a path alone or turns it into
  the blob that the link is for (`RewriteOfDownload`), and once that has happened no other one
  matches (`RewriteOfBlob`), so the chain ends in either (`ServedDownload`);
* `OwnLinksResolve` (`LinksResolve`): the links of feeds and entries lead to documents and
  downloads under the base URL (`OwnLinksLeadHome`); at each URL the first middleware that
  matches is that of the link's own group, as no earlier one has a beginning of its name.

The last three assume `Apart`, the last one `OtherRels` as well. Neither is enforced by the code:
they are what it expects of users, stated next to the properties and checked to hold of the
instance in `MCAtomRouting`. Folds over middlewares and feeds are handled without an induction
theorem over operators: the library's folds are recursive functions on sets of indices. That
there is such a function (`FoldExists`), that it goes through the middlewares one by one
(`FoldSteps`), and that what each of them keeps the whole chain keeps (`FoldThrough`) is shown by
looking at the least number for which it would fail.

`AtomConversionProofs` proves `ConversionTypes`, `ReadBack` (`ReadsBack`), `WriteBackKept`
(`WriteBackKeeps`) and `PolygonsAgree` (`ConvertedPolygonsAgree`). `ConversionInv` says that the
stored Atom is `ToV3` of its manifest at some time and that the view is `ConvertFrom` of the
stored Atom; lemmas about each pair of operators give what comes back of a link, a download,
a feed and a manifest. The theorems assume `ObjAssumption`: that `NoObj` and `Panic` are no
Atoms and that metadata links are not `None`.

Only model-checked: `Converges`, `ConvergesOnEvents` and `ExpiredIsRemovedIfOwned`, since liveness
under fairness and `ENABLED` are out of the prover's reach.

## Not modelled

* Flags, TLS, metrics and probes of the manager; leader election (one manager at a time is
  assumed); log messages and warnings; generated deepcopy code; kustomize manifests; the
  contents of pods (atom-generator, lighttpd).
* Texts of the feeds: titles, subtitles, rights, authors, stylesheets, and the escaping of quotes
  in them (an entry's title is escaped at `mapper.go:265`, but not at line 338 in the titles of
  its downloads).
* Constant content of the children: probes, resources, security contexts, headers, annotations.
* Patterns and lengths of single fields in the CRD.
* That an Atom which is written back as v2beta1 passes the v3 webhook again.
* More than one Atom in `AtomController`: no object of one Atom is shared with another but
  through labels, which is a matter of `AtomRouting`.

## Plan

Done: the controller, its abstract service and the refinement, admission, feeds and routing,
conversion, and theorems for all their safety properties. What is left, in order of worth:

1. That the controller removes an Atom only when a version of it that was stored had expired: an
   action property weaker than `DeletesOnlyExpired`, which the code does not keep, and its theorem.
2. An abstract specification of what clients of an Atom may observe, which `AtomRouting` implements.
3. The schema of v3 in `AtomConversion`, to state which converted Atoms the API server admits.
