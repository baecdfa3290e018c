----------------------------- MODULE AtomRouting -----------------------------
(***************************************************************************)
(* What a client gets: the middlewares and the IngressRoute that the       *)
(* builders (internal/controller/middleware.go, ingressroute.go) make of   *)
(* Atoms, read as Traefik reads them, in front of the pods that serve the  *)
(* generated feeds and the storage that holds the downloads.               *)
(*                                                                         *)
(* The objects are written one after the other and a call may stop after   *)
(* any of them, so requests meet objects of different specs.  That reads   *)
(* lag and writes conflict only delays these writes (AtomController), so   *)
(* here a call reads what is stored and its writes succeed.                *)
(***************************************************************************)
EXTENDS AtomFeeds

CONSTANTS
    NoObj,    \* an object that does not exist
    Atoms,    \* the names of the Atoms in a namespace
    Labels,   \* the labels of each Atom
    Specs,    \* the specs users may apply to each Atom
    MaxRunning    \* how many configs the pods of an Atom may run at once (bound)

\* The middlewares are listed in the order of their names, which is that of their
\* indices up to ten groups.
MaxGroups == 10

\* Every blob has a container, a path in it and a name.
ASSUME RoutingAssumption ==
    \A a \in Atoms : \A s \in Specs[a] :
        LET links == Range(GetDownloadLinks(s))
        IN  /\ \A link \in links : Len(link.data) >= 3
            /\ Cardinality({GetBlobPrefix(link) : link \in links}) <= MaxGroups

IsSeq(q) == q \in Seq(Range(q))
IsURL(u) == u = URL(u.host, u.path) /\ IsSeq(u.path)

\* The shape of a spec.
ASSUME SequencesAssumption ==
    \A a \in Atoms : \A s \in Specs[a] :
        /\ IsURL(s.base) /\ IsSeq(s.routes) /\ \A u \in Range(s.routes) : IsURL(u)
        /\ s.meta # None => IsSeq(s.meta.templates)
        /\ IsSeq(s.feeds)
        /\ \A f \in Range(s.feeds) :
              /\ IsSeq(f.name) /\ IsSeq(f.links) /\ IsSeq(f.entries)
              /\ f.meta # None => IsSeq(f.meta.templates)
              /\ \A e \in Range(f.entries) :
                    /\ IsSeq(e.name) /\ IsSeq(e.links)
                    /\ \A link \in Range(e.links) : IsSeq(link.data) /\ IsSeq(GetBlobName(link))

VARIABLES
    atoms,    \* the stored spec of each Atom
    kids,     \* the objects the controller made for each Atom
    pods,     \* the configs that the running pods of each Atom were started with
    rec       \* the running Reconcile call

vars == <<atoms, kids, pods, rec>>

-----------------------------------------------------------------------------
(* Builders *)

\* The URLs where an Atom is reached.
RoutedURLs(s)  == IF s.routes = <<>> THEN <<s.base>> ELSE s.routes
Paths(urls)    == [i \in DOMAIN urls |-> urls[i].path]

\* Mutant: only the base URL's path is stripped.
mutateStripPrefixMiddleware_Base(s) == <<s.base.path>>

mutateStripPrefixMiddleware(s) == <<s.base.path>> \o Paths(s.routes)

\* Mutant: each group holds all file names.
getDownloadLinkGroups_AllFiles(links) ==
    LET prefixes == {GetBlobPrefix(links[i]) : i \in DOMAIN links}
        first    == [p \in prefixes |-> Min({i \in DOMAIN links : GetBlobPrefix(links[i]) = p})]
    IN  [p \in prefixes |->
            [index |-> Cardinality({q \in prefixes : first[q] < first[p]}),
             files |-> {GetBlobName(links[i]) : i \in DOMAIN links}]]

\* Download links grouped by blob prefix.  A group's index counts the groups that appear
\* before it.
getDownloadLinkGroups(links) ==
    LET prefixes == {GetBlobPrefix(links[i]) : i \in DOMAIN links}
        first    == [p \in prefixes |-> Min({i \in DOMAIN links : GetBlobPrefix(links[i]) = p})]
    IN  [p \in prefixes |->
            [index |-> Cardinality({q \in prefixes : first[q] < first[p]}),
             files |-> {GetBlobName(links[i]) : i \in {j \in DOMAIN links : GetBlobPrefix(links[j]) = p}}]]

GroupsOf(s) == getDownloadLinkGroups(GetDownloadLinks(s))

\* Mutant: the regex of a group that has routes only knows the base URL.
mutateDownloadLinkMiddleware_Base(s, prefix, files) ==
    [paths |-> <<s.base.path>>, files |-> files, prefix |-> prefix]

mutateDownloadLinkMiddleware(s, prefix, files) ==
    [paths |-> Paths(RoutedURLs(s)), files |-> files, prefix |-> prefix]

Rule(host, kind, path, backend, downloads) ==
    [host |-> host, kind |-> kind, path |-> path, backend |-> backend, downloads |-> downloads]

\* Mutant: the rule does not look at the host.
getDefaultRule_AnyHost(u, document) == Rule("localhost", "Path", Append(u.path, document), "service", 0)

\* A document is matched as a whole, what is under downloads by its beginning.
getDefaultRule(u, document) == Rule(u.host, "Path", Append(u.path, document), "service", 0)

getRoutesForURL(s, u, downloads) ==
    {getDefaultRule(u, document) : document \in {IndexXML} \cup {FeedXML(f.name) : f \in Range(s.feeds)}}
    \cup {Rule(u.host, "PathPrefix", Append(u.path, <<"downloads">>), "storage", downloads)}

\* The storage rules name the middlewares 0 .. downloads - 1.
mutateIngressRoute(s) ==
    LET downloads == Cardinality(DOMAIN GroupsOf(s))
    IN  UNION {getRoutesForURL(s, u, downloads) : u \in Range(RoutedURLs(s))}

\* NoObj is no spec and none of the objects made of one.
ASSUME NoObjAssumption ==
    \A s \in UNION {Specs[a] : a \in Atoms} :
        /\ NoObj # s /\ NoObj # MapAtomV3ToAtomGeneratorConfig(s)
        /\ NoObj # mutateStripPrefixMiddleware(s)
        /\ NoObj # mutateIngressRoute(s)
        /\ \A p \in DOMAIN GroupsOf(s) : NoObj # mutateDownloadLinkMiddleware(s, p, GroupsOf(s)[p].files)

-----------------------------------------------------------------------------
(* Admission, as far as it matters to what is published *)

Distinct(named) == \A i, j \in DOMAIN named : named[i].name = named[j].name => i = j

\* Mutant: feeds may share a name.
validateDatasetFeeds_Entries(s) == \A f \in Range(s.feeds) : Distinct(f.entries)

validateDatasetFeeds(s) == Distinct(s.feeds) /\ \A f \in Range(s.feeds) : Distinct(f.entries)

URLsKept(old, s) == Range(RoutedURLs(old)) \subseteq Range(RoutedURLs(s))

-----------------------------------------------------------------------------
(* State *)

NoKids == [config |-> NoObj, service |-> FALSE, strip |-> NoObj, downloads |-> <<>>, routes |-> NoObj]
Idle   == [pc |-> "idle", name |-> NoObj, spec |-> NoObj, pend |-> {}]

Init == /\ atoms = [a \in Atoms |-> NoObj]
        /\ kids = [a \in Atoms |-> NoKids]
        /\ pods = [a \in Atoms |-> {}]
        /\ rec = Idle

Apply(a, s) ==
    /\ atoms[a] # s
    /\ validateDatasetFeeds(s)
    /\ atoms[a] # NoObj => URLsKept(atoms[a], s)
    /\ atoms' = [atoms EXCEPT ![a] = s]
    /\ UNCHANGED <<kids, pods, rec>>

\* Mutant: an Atom that is not found is reconciled.
Reconcile_Any(a) ==
    /\ rec.pc = "idle"
    /\ rec' = [pc |-> "deployment", name |-> a, spec |-> atoms[a], pend |-> {}]
    /\ UNCHANGED <<atoms, kids, pods>>

Reconcile(a) ==
    /\ rec.pc = "idle"
    /\ atoms[a] # NoObj
    /\ rec' = [pc |-> "deployment", name |-> a, spec |-> atoms[a], pend |-> {}]
    /\ UNCHANGED <<atoms, kids, pods>>

\* Write gives one child of rec.name its content and goes on.
Write(child, content, next) ==
    /\ kids' = [kids EXCEPT ![rec.name][child] = content]
    /\ rec' = next
    /\ UNCHANGED <<atoms, pods>>

Goto(pc) == [rec EXCEPT !.pc = pc]

\* ConfigMap and Deployment: nothing sees the new ConfigMap before the Deployment does.
WriteDeployment ==
    /\ rec.pc = "deployment"
    /\ Write("config", MapAtomV3ToAtomGeneratorConfig(rec.spec), Goto("service"))

WriteService ==
    /\ rec.pc = "service"
    /\ Write("service", TRUE, Goto("strip"))

Groups == GroupsOf(rec.spec)

WriteStripPrefix ==
    /\ rec.pc = "strip"
    /\ Write("strip", mutateStripPrefixMiddleware(rec.spec),
             [rec EXCEPT !.pc = "downloads", !.pend = DOMAIN Groups])

\* The groups are visited in any order; downloads[i + 1] is the middleware with index i.
\* A middleware whose index is free yet leaves a gap, for which there is NoObj.
WriteDownloads ==
    /\ rec.pc = "downloads"
    /\ \E prefix \in rec.pend :
          LET old     == kids[rec.name].downloads
              at      == Groups[prefix].index + 1
              content == mutateDownloadLinkMiddleware(rec.spec, prefix, Groups[prefix].files)
          IN  Write("downloads",
                    [i \in 1 .. Max({Len(old), at}) |->
                        IF i = at THEN content ELSE IF i <= Len(old) THEN old[i] ELSE NoObj],
                    [rec EXCEPT !.pend = @ \ {prefix}])

WriteIngressRoute ==
    /\ rec.pc = "downloads"
    /\ rec.pend = {}
    /\ Write("routes", mutateIngressRoute(rec.spec), Idle)

\* A failed call or a restart of the manager: a later call starts from the beginning.
Stop ==
    /\ rec.pc # "idle"
    /\ rec' = Idle
    /\ UNCHANGED <<atoms, kids, pods>>

\* The Deployment starts pods with its config before it stops the last of the others.
StartPod(a) ==
    /\ kids[a].config # NoObj
    /\ kids[a].config \notin pods[a]
    /\ Cardinality(pods[a]) < MaxRunning
    /\ pods' = [pods EXCEPT ![a] = @ \cup {kids[a].config}]
    /\ UNCHANGED <<atoms, kids, rec>>

StopPod(a) ==
    /\ Cardinality(pods[a]) > 1
    /\ \E config \in pods[a] \ {kids[a].config} : pods' = [pods EXCEPT ![a] = @ \ {config}]
    /\ UNCHANGED <<atoms, kids, rec>>

Next == \/ \E a \in Atoms : \/ \E s \in Specs[a] : Apply(a, s)
                            \/ Reconcile(a) \/ StartPod(a) \/ StopPod(a)
        \/ WriteDeployment \/ WriteService \/ WriteStripPrefix \/ WriteDownloads
        \/ WriteIngressRoute \/ Stop

Spec == Init /\ [][Next]_vars

-----------------------------------------------------------------------------
(* Requests *)

\* The path p followed by a slash is how the path r begins.
Under(p, r) == IsStrictPrefix(p, r)

Tail_(p, r) == SubSeq(r, Len(p) + 1, Len(r))

\* StripPrefix: the first prefix that matches is taken off.
Strip(prefixes, path) ==
    LET hits == {i \in DOMAIN prefixes : Under(prefixes[i], path)}
    IN  IF hits = {} THEN path ELSE Tail_(prefixes[Min(hits)], path)

\* ReplacePathRegex with ^(paths)/downloads/(files): whatever follows the match stays, so
\* the file that matched only has to be how the name begins, and $2 with what follows it
\* is all that came after downloads.
Rewrite(path, middleware) ==
    LET hits == {i \in DOMAIN middleware.paths :
                    LET p == Append(middleware.paths[i], <<"downloads">>)
                    IN  /\ Under(p, path)
                        /\ \E file \in middleware.files : IsPrefix(file, path[Len(p) + 1])}
    IN  IF hits = {} THEN path
        ELSE middleware.prefix \o Tail_(Append(middleware.paths[Min(hits)], <<"downloads">>), path)

\* A Service sends requests to every pod whose labels include its selector.
Selected(a) == {b \in Atoms : Labels[a] \subseteq Labels[b]}

Files(config) == {Last(config[i].id.path) : i \in DOMAIN config}

Answer(at, path) == [at |-> at, path |-> path]
NotFound == Answer(NoObj, <<>>)

\* What a rule may answer; a rule whose middlewares are not all there answers nothing.
Serve(a, rule, path) ==
    IF rule.backend = "service"
    THEN IF kids[a].strip = NoObj \/ ~ kids[a].service THEN {NotFound}
         ELSE LET file == Strip(kids[a].strip, path)
              IN  UNION {{IF Len(file) = 1 /\ file[1] \in Files(config) THEN Answer(b, file) ELSE NotFound :
                             config \in pods[b]} : b \in Selected(a)}
    ELSE LET used == SubSeq(kids[a].downloads, 1, rule.downloads)
         IN  IF Len(kids[a].downloads) < rule.downloads \/ NoObj \in Range(used) THEN {NotFound}
             ELSE {Answer("storage", FoldLeft(Rewrite, path, used))}

Matches(rule, u) == /\ u.host \in {rule.host, "localhost"}
                    /\ IF rule.kind = "Path" THEN u.path = rule.path ELSE Under(rule.path, u.path)

Rules(a) == IF kids[a].routes = NoObj THEN {} ELSE kids[a].routes

\* Any rule that matches may take the request.
Answers(u) == UNION {UNION {Serve(a, rule, u.path) : rule \in {r \in Rules(a) : Matches(r, u)}} : a \in Atoms}

-----------------------------------------------------------------------------
(* Properties *)

Configs == {MapAtomV3ToAtomGeneratorConfig(s) : s \in UNION {Specs[a] : a \in Atoms}}

\* The types of the state; a call has a spec once it runs, and only the groups of that
\* spec are left to it.
RoutingTypeOK ==
    /\ \A a \in Atoms : atoms[a] \in Specs[a] \cup {NoObj}
    /\ \A a \in Atoms : /\ kids[a].config \in Configs \cup {NoObj}
                        /\ kids[a].service \in BOOLEAN
                        /\ Len(kids[a].downloads) <= MaxGroups
    /\ pods \in [Atoms -> SUBSET Configs]
    /\ rec.pc # "idle" => rec.spec \in Specs[rec.name] /\ rec.pend \subseteq DOMAIN Groups

\* The URLs where users may put an Atom.
URLsOf(a) == UNION {Range(RoutedURLs(s)) : s \in Specs[a]}

\* What the theorems about requests ask of users: the Atoms of a namespace share no URL and
\* no pods, no URL is below the downloads of another, and no blob has a path that begins
\* as the URLs of its Atom's downloads do.
Apart ==
    /\ \A a, b \in Atoms : Labels[a] \subseteq Labels[b] => a = b
    /\ \A a, b \in Atoms : \A u \in URLsOf(a), v \in URLsOf(b) :
          /\ u.host # "localhost"
          /\ u = v => a = b
          /\ u.host = v.host \/ a = b => ~ IsPrefix(Append(v.path, <<"downloads">>), u.path)
    /\ \A a \in Atoms : \A s \in Specs[a], u \in URLsOf(a) : \A link \in Range(GetDownloadLinks(s)) :
          ~ IsPrefix(Append(u.path, <<"downloads">>), link.data)

\* They may give any relation to their links: here none that the mapper gives.
OtherRels ==
    \A s \in UNION {Specs[a] : a \in Atoms} :
        /\ \A link \in Range(GetDownloadLinks(s)) : link.rel \notin {"alternate", "section"}
        /\ \A f \in Range(s.feeds) : \A link \in Range(f.links) :
              ~ "data" \in DOMAIN link /\ link.rel \notin {"self", "up", "alternate"}

\* StripPrefix lists a beginning of path p before p itself.
Nested(prefixes, p) ==
    \E i \in DOMAIN prefixes : /\ Under(prefixes[i], p)
                               /\ \A j \in DOMAIN prefixes : prefixes[j] = p => i < j

\* At every point of a rollout, and wherever it stopped, a document that is routed and
\* that all running pods have is what a request for it gets, and nobody else's pods
\* answer: the IngressRoute is never ahead of StripPrefix or of the pods.  Only below a
\* URL that is nested in another one of the Atom the documents may be lost.
DocumentsServed ==
    \A a \in Atoms : \A rule \in {r \in Rules(a) : r.backend = "service"} :
        LET file == Last(rule.path)
        IN  /\ pods[a] # {} /\ \A config \in pods[a] : file \in Files(config)
            /\ ~ Nested(kids[a].strip, Front(rule.path))
            => Answers(URL(rule.host, rule.path)) = {Answer(a, <<file>>)}

\* Everything in front of the Atom's clients has been made of its stored spec.
Settled(a) ==
    LET s      == atoms[a]
        groups == GroupsOf(s)
    IN  /\ s # NoObj
        /\ kids[a].config = MapAtomV3ToAtomGeneratorConfig(s)
        /\ pods[a] = {kids[a].config}
        /\ kids[a].strip = mutateStripPrefixMiddleware(s)
        /\ kids[a].routes = mutateIngressRoute(s)
        /\ \A p \in DOMAIN groups :
              /\ groups[p].index < Len(kids[a].downloads)
              /\ kids[a].downloads[groups[p].index + 1] =
                    mutateDownloadLinkMiddleware(s, p, groups[p].files)

\* A file of a group with a lower index has the beginning of the link's name.
Shadowed(s, link) ==
    LET groups == GroupsOf(s)
    IN  \E p \in DOMAIN groups : /\ groups[p].index < groups[GetBlobPrefix(link)].index
                                 /\ \E file \in groups[p].files : IsPrefix(file, GetBlobName(link))

Links(config) ==
    UNION {Range(feed.links) \cup UNION {Range(entry.links) : entry \in Range(feed.entries)} :
               feed \in Range(config)}

IsDownload(link) == "data" \in DOMAIN link

\* The links of a config that lead to the Atom itself.
OwnLinks(config) == {link \in Links(config) : IsDownload(link) \/ link.rel \in {"self", "up", "alternate"}}

\* Once a spec is rolled out, the mapper, which writes the links, and the builders, which
\* route them, agree: at each of the Atom's URLs every link that its feeds publish leads
\* to the feed, or to the very blob, that it was made for.  The exceptions are feeds at a
\* nested URL and downloads whose name begins with that of one in an earlier group.
LinksResolve ==
    \A a \in {b \in Atoms : Settled(b)} :
        LET s == atoms[a]
        IN  \A u \in Range(RoutedURLs(s)), link \in OwnLinks(kids[a].config) :
                LET answers == Answers(JoinPath(u, Tail_(s.base.path, link.href.path)))
                IN  IF IsDownload(link)
                    THEN ~ Shadowed(s, link) => answers = {Answer("storage", link.data)}
                    ELSE ~ Nested(kids[a].strip, u.path) => answers = {Answer(a, <<Last(link.href.path)>>)}

\* Where the specs of an Atom place the files it may ever offer.
Places == [a \in Atoms |-> {<<GetBlobName(link), GetBlobPrefix(link)>> :
                               link \in UNION {Range(GetDownloadLinks(s)) : s \in Specs[a]}}]

\* Some spec of the Atom has the link's name, or the beginning of it, elsewhere.
Moves(a, link) ==
    \E place \in Places[a] : IsPrefix(place[1], GetBlobName(link)) /\ place[2] # GetBlobPrefix(link)

\* While groups come, go and change their indices, and middlewares of different specs
\* are mixed, no rule names a middleware that is not there, and a download of the stored
\* spec is answered with its blob or with nothing, as the storage has nothing at the path
\* of the request: never with another blob.
NeverWrongBlob ==
    \A a \in {b \in Atoms : atoms[b] # NoObj} :
        \A rule \in {r \in Rules(a) : r.backend = "storage"}, link \in Range(GetDownloadLinks(atoms[a])) :
            LET path == Append(rule.path, GetBlobName(link))
            IN  ~ Moves(a, link) =>
                    Answers(URL(rule.host, path)) \subseteq
                        {Answer("storage", link.data), Answer("storage", path)}

-----------------------------------------------------------------------------
(* Properties of the published feeds *)

Running == UNION {pods[a] : a \in Atoms}

DifferentIds(things) == \A i, j \in DOMAIN things : things[i].id = things[j].id => i = j

\* What validation admits has different ids: the feeds of an Atom, unless one is called
\* index, and the entries of each feed.
IdsDiffer ==
    \A config \in Running :
        /\ (\A i \in 2 .. Len(config) : config[i].id # config[1].id) => DifferentIds(config)
        /\ \A feed \in Range(config) : DifferentIds(feed.entries)

\* The service feed describes the dataset feeds it points to: entry by entry the id, and
\* as categories those of all entries there, each of them once.
EntriesDescribeFeeds ==
    \A config \in Running :
        /\ Len(config[1].entries) = Len(config) - 1
        /\ \A i \in 1 .. (Len(config) - 1) :
              LET entry == config[1].entries[i]
                  feed  == config[i + 1]
              IN  /\ entry.id = feed.id
                  /\ Range(entry.categories) = UNION {Range(e.categories) : e \in Range(feed.entries)}
                  /\ Cardinality(Range(entry.categories)) = Len(entry.categories)

RelCount(entry, rel) == Cardinality({i \in DOMAIN entry.links : entry.links[i].rel = rel})

\* Unless the user says so, a dataset entry has one alternate or several sections, not
\* both: a client can tell a download that comes in parts from one in a single file.
PartsOrWhole ==
    \A config \in Running : \A i \in 2 .. Len(config) : \A e \in Range(config[i].entries) :
        /\ RelCount(e, "alternate") <= 1
        /\ RelCount(e, "section") # 1
        /\ RelCount(e, "alternate") = 0 \/ RelCount(e, "section") = 0
=============================================================================
