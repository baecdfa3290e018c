-------------------------- MODULE AtomRequestsProofs --------------------------
(***************************************************************************)
(* Theorems about AtomRouting, for all Atoms and specs: what requests get. *)
(***************************************************************************)
EXTENDS AtomRoutingProofs

-----------------------------------------------------------------------------
(* Download links and their groups *)

\* The prefixes of links, and the names of those with one prefix.
PrefixesIn(links)  == {GetBlobPrefix(link) : link \in links}
NamesIn(links, p) == {GetBlobName(link) : link \in {l \in links : GetBlobPrefix(l) = p}}

\* The groups of links partition them and their indices count up from 0.
LEMMA GroupProperties ==
    ASSUME NEW S, NEW links \in Seq(S)
    PROVE  LET groups == getDownloadLinkGroups(links)
               n == Cardinality(DOMAIN groups)
           IN  /\ DOMAIN groups = PrefixesIn(Range(links))
               /\ \A p \in DOMAIN groups : groups[p].files = NamesIn(Range(links), p)
               /\ n \in Nat
               /\ \A p \in DOMAIN groups : groups[p].index \in 0 .. (n - 1)
               /\ \A p, q \in DOMAIN groups : groups[p].index = groups[q].index => p = q
               /\ \A i \in 0 .. (n - 1) : \E p \in DOMAIN groups : groups[p].index = i
<1> DEFINE prefixes == {GetBlobPrefix(links[i]) : i \in DOMAIN links}
           having(p) == {i \in DOMAIN links : GetBlobPrefix(links[i]) = p}
           first == [p \in prefixes |-> Min(having(p))]
           rank(p) == Rank(prefixes, first, p)
           groups == getDownloadLinkGroups(links)
<1>0. Len(links) \in Nat /\ DOMAIN links = 1 .. Len(links)
  OBVIOUS
<1>1. /\ DOMAIN groups = prefixes
      /\ \A p \in prefixes : /\ groups[p].index = rank(p)
                             /\ groups[p].files = {GetBlobName(links[i]) : i \in having(p)}
  BY DEF getDownloadLinkGroups, Rank
<1>2. IsFiniteSet(prefixes)
  <2> DEFINE f == [i \in DOMAIN links |-> GetBlobPrefix(links[i])]
  <2>1. f \in Surjection(DOMAIN links, prefixes)
    BY DEF Surjection
  <2>2. IsFiniteSet(DOMAIN links)
    BY <1>0, FS_Interval
  <2> HIDE DEF f, prefixes
  <2> QED
    BY <2>1, <2>2, FS_Surjection
<1>3. \A p \in prefixes : first[p] \in Nat /\ first[p] \in having(p)
  <2> SUFFICES ASSUME NEW p \in prefixes PROVE first[p] \in Nat /\ first[p] \in having(p)
    OBVIOUS
  <2>1. having(p) \in SUBSET Nat /\ having(p) # {}
    BY <1>0
  <2>2. first[p] = Min(having(p))
    OBVIOUS
  <2> HIDE DEF having, first
  <2> QED
    BY <2>1, <2>2, LeastNatural
<1>4. \A p, q \in prefixes : first[p] = first[q] => p = q
  BY <1>3
<1> HIDE DEF first, having, groups
<1>5. /\ Cardinality(prefixes) \in Nat
      /\ \A p \in prefixes : rank(p) \in 0 .. (Cardinality(prefixes) - 1)
      /\ \A p, q \in prefixes : rank(p) = rank(q) => p = q
      /\ \A i \in 0 .. (Cardinality(prefixes) - 1) : \E p \in prefixes : rank(p) = i
  <2> HIDE DEF prefixes
  <2> QED
    BY <1>2, <1>3, <1>4, Ranks
<1>6. prefixes = PrefixesIn(Range(links))
  BY DEF Range, PrefixesIn
<1>7. \A p \in prefixes : {GetBlobName(links[i]) : i \in having(p)}
                         = NamesIn(Range(links), p)
  BY DEF Range, NamesIn, having
<1> HIDE DEF rank, prefixes
<1> QED
  <2>1. /\ DOMAIN groups = PrefixesIn(Range(links))
        /\ \A p \in DOMAIN groups : groups[p].index = rank(p) /\ groups[p].files = NamesIn(Range(links), p)
    BY <1>1, <1>6, <1>7
  <2> QED
    BY <1>1, <1>5, <2>1 DEF groups

\* The groups of a spec, and that there are no more than the IngressRoute can order.
LEMMA GroupsOfSpec ==
    ASSUME NEW a \in Atoms, NEW s \in Specs[a]
    PROVE  /\ DOMAIN GroupsOf(s) = PrefixesIn(LinksIn(s))
           /\ \A p \in DOMAIN GroupsOf(s) : GroupsOf(s)[p].files = NamesIn(LinksIn(s), p)
           /\ Cardinality(DOMAIN GroupsOf(s)) \in 0 .. MaxGroups
           /\ \A p \in DOMAIN GroupsOf(s) : GroupsOf(s)[p].index \in 0 .. (Cardinality(DOMAIN GroupsOf(s)) - 1)
           /\ \A p, q \in DOMAIN GroupsOf(s) : GroupsOf(s)[p].index = GroupsOf(s)[q].index => p = q
           /\ \A i \in 0 .. (Cardinality(DOMAIN GroupsOf(s)) - 1) :
                 \E p \in DOMAIN GroupsOf(s) : GroupsOf(s)[p].index = i
<1> DEFINE links == GetDownloadLinks(s)
<1>1. links \in Seq(LinksIn(s)) /\ Range(links) = LinksIn(s)
  BY LinksFlat
<1>2. Cardinality(PrefixesIn(Range(links))) <= MaxGroups
  BY RoutingAssumption DEF PrefixesIn
<1>3. GroupsOf(s) = getDownloadLinkGroups(links)
  BY DEF GroupsOf
<1> HIDE DEF links
<1>4. LET groups == getDownloadLinkGroups(links)
          n == Cardinality(DOMAIN groups)
      IN  /\ DOMAIN groups = PrefixesIn(Range(links))
          /\ \A p \in DOMAIN groups : groups[p].files = NamesIn(Range(links), p)
          /\ n \in Nat
          /\ \A p \in DOMAIN groups : groups[p].index \in 0 .. (n - 1)
          /\ \A p, q \in DOMAIN groups : groups[p].index = groups[q].index => p = q
          /\ \A i \in 0 .. (n - 1) : \E p \in DOMAIN groups : groups[p].index = i
  BY <1>1, GroupProperties
<1>5. MaxGroups \in Nat
  BY DEF MaxGroups
<1> QED
  BY <1>1, <1>2, <1>3, <1>4, <1>5

-----------------------------------------------------------------------------
(* The objects in front of the clients *)

URLs(s) == Range(RoutedURLs(s))

PathsOf(s) == {u.path : u \in {s.base} \cup Range(s.routes)}

\* StripPrefix lists the paths of the base URL and of all routed URLs.
LEMMA StripShape ==
    ASSUME NEW a \in Atoms, NEW s \in Specs[a]
    PROVE  /\ mutateStripPrefixMiddleware(s) \in Seq(PathsOf(s))
           /\ \A u \in URLs(s) : u.path \in Range(mutateStripPrefixMiddleware(s))
<1> DEFINE S == PathsOf(s)
           n == Len(s.routes)
           head == <<s.base.path>>
           paths == Paths(s.routes)
<1>1. n \in Nat /\ DOMAIN s.routes = 1 .. n
  <2>1. IsSeq(s.routes)
    BY SequencesAssumption
  <2> QED
    BY <2>1 DEF IsSeq
<1>2. s.base.path \in S /\ \A i \in 1 .. n : s.routes[i].path \in S
  BY <1>1 DEF PathsOf, Range
<1>3. paths = [i \in 1 .. n |-> s.routes[i].path]
  BY <1>1 DEF Paths
<1> HIDE DEF S, n, paths
<1>4. paths \in Seq(S) /\ Len(paths) = n /\ Range(paths) = {s.routes[i].path : i \in 1 .. n}
  <2>1. paths \in [1 .. n -> S]
    BY <1>2, <1>3
  <2> QED
    BY <1>1, <1>3, <2>1 DEF Range
<1>5. head \in Seq(S) /\ Range(head) = {s.base.path}
  BY <1>2 DEF Range
<1> HIDE DEF head
<1>6. head \o paths \in Seq(S) /\ Range(head \o paths) = Range(head) \cup Range(paths)
  BY <1>4, <1>5, ConcatProperties, RangeConcatenation
<1>7. ASSUME NEW u \in URLs(s) PROVE u.path \in Range(head) \cup Range(paths)
  <2>1. CASE s.routes = <<>>
    BY <1>5, <2>1 DEF URLs, RoutedURLs, Range
  <2>2. CASE s.routes # <<>>
    BY <1>1, <1>4, <2>2 DEF URLs, RoutedURLs, Range
  <2> QED
    BY <2>1, <2>2
<1> QED
  BY <1>6, <1>7 DEF mutateStripPrefixMiddleware, S, head, paths

\* A middleware of a group of some spec of the Atom.
Made(a, m) ==
    \E s \in Specs[a] : \E p \in DOMAIN GroupsOf(s) :
        m = mutateDownloadLinkMiddleware(s, p, GroupsOf(s)[p].files)

DownloadsInv ==
    \A a \in Atoms : LET d == kids[a].downloads
                     IN  /\ Len(d) \in 0 .. MaxGroups /\ d = [i \in 1 .. Len(d) |-> d[i]]
                         /\ \A i \in 1 .. Len(d) : d[i] = NoObj \/ Made(a, d[i])

StripInv ==
    \A a \in Atoms : kids[a].strip # NoObj => \E s \in Specs[a] : kids[a].strip = mutateStripPrefixMiddleware(s)

\* Service and StripPrefix are there for the URLs.
ReadyFor(a, urls) ==
    /\ kids[a].service = TRUE /\ kids[a].strip # NoObj
    /\ \A u \in urls : u.path \in Range(kids[a].strip)

\* What is routed is ready, and neither the running call nor a later one will take a URL of it back.
RoutedInv ==
    \A a \in Atoms : kids[a].routes # NoObj =>
        \E s \in Specs[a] : /\ kids[a].routes = mutateIngressRoute(s)
                            /\ ReadyFor(a, URLs(s))
                            /\ atoms[a] # NoObj /\ URLs(s) \subseteq URLs(atoms[a])
                            /\ rec.pc # "idle" /\ rec.name = a => URLs(s) \subseteq URLs(rec.spec)

\* How far the running call has come.
CallInv ==
    /\ \A a \in Atoms : atoms[a] \in Specs[a] \cup {NoObj} /\ kids[a].service \in BOOLEAN
    /\ rec.pc # "idle" =>
          /\ rec.pc \in {"deployment", "service", "strip", "downloads"}
          /\ rec.spec \in Specs[rec.name] /\ rec.pend \subseteq DOMAIN Groups
          /\ atoms[rec.name] # NoObj /\ URLs(rec.spec) \subseteq URLs(atoms[rec.name])
          /\ rec.pc \in {"strip", "downloads"} => kids[rec.name].service
          /\ rec.pc = "downloads" => kids[rec.name].strip = mutateStripPrefixMiddleware(rec.spec)

RequestsInv == ConfigsInv /\ DownloadsInv /\ StripInv /\ RoutedInv /\ CallInv

\* A write changes one child of the Atom of the call.
LEMMA WriteEffect ==
    ASSUME ConfigsInv, rec.pc # "idle",
           NEW child \in {"config", "service", "strip", "downloads", "routes"},
           NEW content, NEW next, Write(child, content, next)
    PROVE  /\ atoms' = atoms /\ pods' = pods /\ rec' = next /\ rec.name \in Atoms
           /\ \A a \in Atoms : a # rec.name => kids'[a] = kids[a]
           /\ kids'[rec.name][child] = content
           /\ \A c \in {"config", "service", "strip", "downloads", "routes"} \ {child} :
                 kids'[rec.name][c] = kids[rec.name][c]
<1>1. /\ rec.name \in Atoms /\ DOMAIN kids = Atoms
      /\ DOMAIN kids[rec.name] = {"config", "service", "strip", "downloads", "routes"}
  BY DEF ConfigsInv
<1>2. /\ kids' = [kids EXCEPT ![rec.name][child] = content] /\ rec' = next
      /\ atoms' = atoms /\ pods' = pods
  BY DEF Write
<1>3. kids'[rec.name] = [kids[rec.name] EXCEPT ![child] = content]
  BY <1>1, <1>2
<1> QED
  BY <1>1, <1>2, <1>3

LEMMA RequestsInit == Init => RequestsInv
<1> SUFFICES ASSUME Init PROVE RequestsInv
  OBVIOUS
<1>1. rec.pc = "idle"
  BY DEF Init, Idle
<1>2. \A a \in Atoms : /\ kids[a].service = FALSE /\ kids[a].strip = NoObj
                       /\ kids[a].downloads = <<>> /\ kids[a].routes = NoObj
  BY DEF Init, NoKids
<1>3. DownloadsInv
  BY <1>2 DEF DownloadsInv, MaxGroups
<1>4. StripInv /\ RoutedInv /\ CallInv
  BY <1>1, <1>2 DEF Init, StripInv, RoutedInv, CallInv
<1> QED
  BY <1>3, <1>4, ConfigsInit DEF RequestsInv

\* Steps that leave the objects and the call alone, and of an Atom at most add URLs.
LEMMA StoredStep ==
    ASSUME RequestsInv, kids' = kids, rec' = rec,
           \A a \in Atoms : \/ atoms'[a] = atoms[a]
                            \/ /\ atoms'[a] \in Specs[a] /\ atoms'[a] # NoObj
                               /\ atoms[a] # NoObj => URLs(atoms[a]) \subseteq URLs(atoms'[a])
    PROVE  DownloadsInv' /\ StripInv' /\ RoutedInv' /\ CallInv'
<1>1. DownloadsInv' /\ StripInv'
  BY DEF RequestsInv, DownloadsInv, StripInv
<1>2. RoutedInv'
  <2> SUFFICES ASSUME NEW a \in Atoms, kids[a].routes # NoObj
               PROVE  (\E s \in Specs[a] :
                         /\ kids[a].routes = mutateIngressRoute(s)
                         /\ ReadyFor(a, URLs(s))
                         /\ atoms[a] # NoObj /\ URLs(s) \subseteq URLs(atoms[a])
                         /\ rec.pc # "idle" /\ rec.name = a => URLs(s) \subseteq URLs(rec.spec))'
    BY DEF RoutedInv
  <2>1. PICK s \in Specs[a] :
           /\ kids[a].routes = mutateIngressRoute(s)
           /\ ReadyFor(a, URLs(s))
           /\ atoms[a] # NoObj /\ URLs(s) \subseteq URLs(atoms[a])
           /\ rec.pc # "idle" /\ rec.name = a => URLs(s) \subseteq URLs(rec.spec)
    BY DEF RequestsInv, RoutedInv
  <2>2. atoms'[a] # NoObj /\ URLs(s) \subseteq URLs(atoms'[a])
    BY <2>1
  <2> QED
    BY <2>1, <2>2 DEF ReadyFor
<1>3. CallInv'
  <2>1. rec.pc # "idle" => rec.name \in Atoms
    BY DEF RequestsInv, ConfigsInv
  <2>2. rec.pc # "idle" => atoms'[rec.name] # NoObj /\ URLs(rec.spec) \subseteq URLs(atoms'[rec.name])
    BY <2>1 DEF RequestsInv, CallInv
  <2> QED
    BY <2>2 DEF RequestsInv, CallInv, Groups
<1> QED
  BY <1>1, <1>2, <1>3

\* Steps of a call that leave the objects alone.
LEMMA CallStep ==
    ASSUME RequestsInv, kids' = kids, atoms' = atoms,
           \/ rec'.pc = "idle"
           \/ /\ rec'.pc = "deployment" /\ rec'.name \in Atoms /\ rec'.pend = {}
              /\ rec'.spec = atoms[rec'.name] /\ atoms[rec'.name] # NoObj
    PROVE  DownloadsInv' /\ StripInv' /\ RoutedInv' /\ CallInv'
<1>1. DownloadsInv' /\ StripInv'
  BY DEF RequestsInv, DownloadsInv, StripInv
<1>2. RoutedInv'
  <2> SUFFICES ASSUME NEW a \in Atoms, kids[a].routes # NoObj
               PROVE  (\E s \in Specs[a] :
                         /\ kids[a].routes = mutateIngressRoute(s)
                         /\ ReadyFor(a, URLs(s))
                         /\ atoms[a] # NoObj /\ URLs(s) \subseteq URLs(atoms[a])
                         /\ rec.pc # "idle" /\ rec.name = a => URLs(s) \subseteq URLs(rec.spec))'
    BY DEF RoutedInv
  <2>1. PICK s \in Specs[a] :
           /\ kids[a].routes = mutateIngressRoute(s)
           /\ ReadyFor(a, URLs(s))
           /\ atoms[a] # NoObj /\ URLs(s) \subseteq URLs(atoms[a])
    BY DEF RequestsInv, RoutedInv
  <2>2. rec'.pc # "idle" /\ rec'.name = a => URLs(s) \subseteq URLs(rec'.spec)
    BY <2>1
  <2> QED
    BY <2>1, <2>2 DEF ReadyFor
<1>3. CallInv'
  <2>1. ASSUME rec'.pc # "idle"
        PROVE  /\ rec'.pc = "deployment" /\ rec'.pend = {} /\ rec'.name \in Atoms
               /\ rec'.spec \in Specs[rec'.name] /\ atoms'[rec'.name] # NoObj
               /\ URLs(rec'.spec) = URLs(atoms'[rec'.name])
    BY <2>1 DEF RequestsInv, CallInv
  <2> QED
    BY <2>1 DEF RequestsInv, CallInv
<1> QED
  BY <1>1, <1>2, <1>3

\* A write of another child than StripPrefix and the IngressRoute leaves what is routed alone.
LEMMA OtherWrite ==
    ASSUME RequestsInv, rec.pc # "idle", NEW child \in {"config", "service", "downloads"},
           NEW content, NEW next, Write(child, content, next),
           child = "service" => content = TRUE,
           next.name = rec.name, next.spec = rec.spec
    PROVE  StripInv' /\ RoutedInv'
<1>1. ConfigsInv
  BY DEF RequestsInv
<1>2. /\ atoms' = atoms /\ rec' = next /\ rec.name \in Atoms
      /\ \A a \in Atoms : a # rec.name => kids'[a] = kids[a]
      /\ kids'[rec.name].strip = kids[rec.name].strip /\ kids'[rec.name].routes = kids[rec.name].routes
      /\ kids'[rec.name].service = kids[rec.name].service \/ kids'[rec.name].service = TRUE
  BY <1>1, WriteEffect
<1>3. \A a \in Atoms : /\ kids'[a].strip = kids[a].strip /\ kids'[a].routes = kids[a].routes
                       /\ kids'[a].service = kids[a].service \/ kids'[a].service = TRUE
  BY <1>2
<1>4. StripInv'
  BY <1>3 DEF RequestsInv, StripInv
<1>5. RoutedInv'
  <2> SUFFICES ASSUME NEW a \in Atoms, kids'[a].routes # NoObj
               PROVE  (\E s \in Specs[a] :
                         /\ kids[a].routes = mutateIngressRoute(s)
                         /\ ReadyFor(a, URLs(s))
                         /\ atoms[a] # NoObj /\ URLs(s) \subseteq URLs(atoms[a])
                         /\ rec.pc # "idle" /\ rec.name = a => URLs(s) \subseteq URLs(rec.spec))'
    BY DEF RoutedInv
  <2>1. PICK s \in Specs[a] :
           /\ kids[a].routes = mutateIngressRoute(s)
           /\ ReadyFor(a, URLs(s))
           /\ atoms[a] # NoObj /\ URLs(s) \subseteq URLs(atoms[a])
           /\ rec.name = a => URLs(s) \subseteq URLs(rec.spec)
    BY <1>3 DEF RequestsInv, RoutedInv
  <2>2. ReadyFor(a, URLs(s))'
    BY <1>3, <2>1 DEF ReadyFor
  <2> QED
    BY <1>2, <1>3, <2>1, <2>2
<1> QED
  BY <1>4, <1>5

\* A write of another child than the download middlewares.
LEMMA DownloadsKept ==
    ASSUME RequestsInv, rec.pc # "idle", NEW child \in {"config", "service", "strip", "routes"},
           NEW content, NEW next, Write(child, content, next)
    PROVE  DownloadsInv'
<1>1. ConfigsInv
  BY DEF RequestsInv
<1>2. \A a \in Atoms : kids'[a].downloads = kids[a].downloads
  BY <1>1, WriteEffect
<1> QED
  BY <1>2 DEF RequestsInv, DownloadsInv

\* The call goes on.
LEMMA CallGoesOn ==
    ASSUME RequestsInv, rec.pc # "idle",
           NEW child \in {"config", "service", "strip", "downloads", "routes"},
           NEW content, NEW next, Write(child, content, next),
           next.name = rec.name, next.spec = rec.spec,
           next.pc \in {"service", "strip", "downloads"}, next.pend \subseteq DOMAIN Groups,
           child = "service" => content = TRUE,
           next.pc \in {"strip", "downloads"} => child = "service" \/ kids[rec.name].service,
           next.pc = "downloads" =>
              \/ child = "strip" /\ content = mutateStripPrefixMiddleware(rec.spec)
              \/ child # "strip" /\ kids[rec.name].strip = mutateStripPrefixMiddleware(rec.spec)
    PROVE  CallInv'
<1>1. ConfigsInv /\ CallInv
  BY DEF RequestsInv
<1>2. /\ atoms' = atoms /\ rec' = next /\ rec.name \in Atoms
      /\ \A a \in Atoms : a # rec.name => kids'[a] = kids[a]
      /\ kids'[rec.name][child] = content
      /\ child # "service" => kids'[rec.name].service = kids[rec.name].service
      /\ child # "strip" => kids'[rec.name].strip = kids[rec.name].strip
  BY <1>1, WriteEffect
<1>3. \A a \in Atoms : atoms'[a] \in Specs[a] \cup {NoObj} /\ kids'[a].service \in BOOLEAN
  BY <1>1, <1>2 DEF CallInv
<1>4. /\ next.pc \in {"strip", "downloads"} => kids'[rec.name].service
      /\ next.pc = "downloads" => kids'[rec.name].strip = mutateStripPrefixMiddleware(rec.spec)
  BY <1>2
<1>5. Groups' = Groups
  BY <1>2 DEF Groups
<1> QED
  BY <1>1, <1>2, <1>3, <1>4, <1>5 DEF CallInv

LEMMA RequestsWriteDeployment ==
    ASSUME RequestsInv, WriteDeployment
    PROVE  DownloadsInv' /\ StripInv' /\ RoutedInv' /\ CallInv'
<1> DEFINE content == MapAtomV3ToAtomGeneratorConfig(rec.spec)
           next == Goto("service")
<1>1. /\ rec.pc = "deployment" /\ Write("config", content, next)
      /\ next.name = rec.name /\ next.spec = rec.spec /\ next.pend = rec.pend /\ next.pc = "service"
  BY DEF WriteDeployment, Goto, RequestsInv, ConfigsInv
<1>2. rec.pend \subseteq DOMAIN Groups
  BY <1>1 DEF RequestsInv, CallInv
<1> HIDE DEF content, next
<1> QED
  BY <1>1, <1>2, OtherWrite, DownloadsKept, CallGoesOn

LEMMA RequestsWriteService ==
    ASSUME RequestsInv, WriteService
    PROVE  DownloadsInv' /\ StripInv' /\ RoutedInv' /\ CallInv'
<1> DEFINE next == Goto("strip")
<1>1. /\ rec.pc = "service" /\ Write("service", TRUE, next)
      /\ next.name = rec.name /\ next.spec = rec.spec /\ next.pend = rec.pend /\ next.pc = "strip"
  BY DEF WriteService, Goto, RequestsInv, ConfigsInv
<1>2. rec.pend \subseteq DOMAIN Groups
  BY <1>1 DEF RequestsInv, CallInv
<1> HIDE DEF next
<1> QED
  BY <1>1, <1>2, OtherWrite, DownloadsKept, CallGoesOn

\* StripPrefix knows the URLs that are routed already: the webhook let none of them go.
LEMMA RequestsWriteStripPrefix ==
    ASSUME RequestsInv, WriteStripPrefix
    PROVE  DownloadsInv' /\ StripInv' /\ RoutedInv' /\ CallInv'
<1> DEFINE content == mutateStripPrefixMiddleware(rec.spec)
           next == [rec EXCEPT !.pc = "downloads", !.pend = DOMAIN Groups]
<1>0. ConfigsInv
  BY DEF RequestsInv
<1>1. /\ rec.pc = "strip" /\ Write("strip", content, next)
      /\ next.name = rec.name /\ next.spec = rec.spec /\ next.pend = DOMAIN Groups
      /\ next.pc = "downloads"
  BY DEF WriteStripPrefix, RequestsInv, ConfigsInv
<1>2. rec.name \in Atoms /\ rec.spec \in Specs[rec.name] /\ kids[rec.name].service = TRUE
  BY <1>1 DEF RequestsInv, CallInv, ConfigsInv
<1>3. /\ content # NoObj /\ content = mutateStripPrefixMiddleware(rec.spec)
      /\ \A u \in URLs(rec.spec) : u.path \in Range(content)
  BY <1>2, NoObjAssumption, StripShape
<1> HIDE DEF content, next
<1>4. DownloadsInv' /\ CallInv'
  BY <1>1, <1>2, <1>3, DownloadsKept, CallGoesOn
<1>5. /\ atoms' = atoms /\ rec' = next
      /\ \A a \in Atoms : a # rec.name => kids'[a] = kids[a]
      /\ kids'[rec.name].strip = content
      /\ kids'[rec.name].routes = kids[rec.name].routes
      /\ kids'[rec.name].service = kids[rec.name].service
  BY <1>0, <1>1, WriteEffect
<1>6. StripInv'
  BY <1>2, <1>3, <1>5 DEF RequestsInv, StripInv
<1>7. RoutedInv'
  <2> SUFFICES ASSUME NEW a \in Atoms, kids'[a].routes # NoObj
               PROVE  (\E s \in Specs[a] :
                         /\ kids[a].routes = mutateIngressRoute(s)
                         /\ ReadyFor(a, URLs(s))
                         /\ atoms[a] # NoObj /\ URLs(s) \subseteq URLs(atoms[a])
                         /\ rec.pc # "idle" /\ rec.name = a => URLs(s) \subseteq URLs(rec.spec))'
    BY DEF RoutedInv
  <2>0. kids'[a].routes = kids[a].routes
    BY <1>5
  <2>1. PICK s \in Specs[a] :
           /\ kids[a].routes = mutateIngressRoute(s)
           /\ ReadyFor(a, URLs(s))
           /\ atoms[a] # NoObj /\ URLs(s) \subseteq URLs(atoms[a])
           /\ rec.name = a => URLs(s) \subseteq URLs(rec.spec)
    BY <1>1, <2>0 DEF RequestsInv, RoutedInv
  <2>2. ReadyFor(a, URLs(s))'
    <3>1. CASE a = rec.name
      BY <1>2, <1>3, <1>5, <2>1, <3>1 DEF ReadyFor
    <3>2. CASE a # rec.name
      BY <1>5, <2>1, <3>2 DEF ReadyFor
    <3> QED
      BY <3>1, <3>2
  <2> QED
    BY <1>1, <1>5, <2>0, <2>1, <2>2
<1> QED
  BY <1>4, <1>6, <1>7

LEMMA RequestsWriteDownloads ==
    ASSUME RequestsInv, WriteDownloads
    PROVE  DownloadsInv' /\ StripInv' /\ RoutedInv' /\ CallInv'
<1> DEFINE old == kids[rec.name].downloads
           m(p) == mutateDownloadLinkMiddleware(rec.spec, p, Groups[p].files)
           place(p) == Groups[p].index + 1
           new(p) == [i \in 1 .. Max({Len(old), place(p)}) |->
                        IF i = place(p) THEN m(p) ELSE IF i <= Len(old) THEN old[i] ELSE NoObj]
           next(p) == [rec EXCEPT !.pend = @ \ {p}]
<1>0. ConfigsInv /\ DownloadsInv
  BY DEF RequestsInv
<1>1. PICK prefix \in rec.pend : Write("downloads", new(prefix), next(prefix))
  BY DEF WriteDownloads
<1> DEFINE content == new(prefix)
           at == place(prefix)
<1>2. /\ rec.pc = "downloads" /\ rec.name \in Atoms /\ rec.spec \in Specs[rec.name]
      /\ rec.pend \subseteq DOMAIN Groups
      /\ kids[rec.name].service /\ kids[rec.name].strip = mutateStripPrefixMiddleware(rec.spec)
  BY DEF WriteDownloads, RequestsInv, CallInv, ConfigsInv
<1>3. /\ next(prefix).name = rec.name /\ next(prefix).spec = rec.spec
      /\ next(prefix).pend = rec.pend \ {prefix} /\ next(prefix).pc = "downloads"
  BY <1>0, <1>2 DEF ConfigsInv
<1>4. at \in 1 .. MaxGroups /\ prefix \in DOMAIN GroupsOf(rec.spec)
  <2>1. prefix \in DOMAIN GroupsOf(rec.spec)
    BY <1>2 DEF Groups
  <2>2. /\ GroupsOf(rec.spec)[prefix].index \in 0 .. (Cardinality(DOMAIN GroupsOf(rec.spec)) - 1)
        /\ Cardinality(DOMAIN GroupsOf(rec.spec)) \in 0 .. MaxGroups
    BY <1>2, <2>1, GroupsOfSpec
  <2> QED
    BY <2>1, <2>2 DEF Groups, MaxGroups
<1>5. Made(rec.name, m(prefix))
  BY <1>2, <1>4 DEF Made, Groups
<1>6. /\ Len(old) \in 0 .. MaxGroups
      /\ \A i \in 1 .. Len(old) : old[i] = NoObj \/ Made(rec.name, old[i])
  BY <1>0, <1>2 DEF DownloadsInv
<1>7. Max({Len(old), at}) \in 1 .. MaxGroups
  <2>1. ASSUME NEW i \in 0 .. MaxGroups, NEW j \in 1 .. MaxGroups PROVE Max({i, j}) \in 1 .. MaxGroups
    <3>1. Max({i, j}) = IF i >= j THEN i ELSE j
      BY MaxOfTwo DEF MaxGroups
    <3> QED
      BY <3>1 DEF MaxGroups
  <2> HIDE DEF old, at
  <2> QED
    BY <1>4, <1>6, <2>1
<1>8. /\ Len(content) \in 0 .. MaxGroups /\ content = [i \in 1 .. Len(content) |-> content[i]]
      /\ \A i \in 1 .. Len(content) : content[i] = NoObj \/ Made(rec.name, content[i])
  <2> DEFINE n == Max({Len(old), at})
  <2> HIDE DEF n, m
  <2>1. n \in Nat /\ Len(content) = n
    BY <1>7 DEF n, MaxGroups
  <2>2. \A i \in 1 .. n : content[i] = NoObj \/ Made(rec.name, content[i])
    BY <1>5, <1>6 DEF n
  <2>3. content = [i \in 1 .. n |-> content[i]]
    BY DEF n
  <2>4. n \in 0 .. MaxGroups
    BY <1>7 DEF n, MaxGroups
  <2> HIDE DEF content
  <2> QED
    BY <2>1, <2>2, <2>3, <2>4
<1> HIDE DEF content, new, next
<1>9. /\ \A a \in Atoms : a # rec.name => kids'[a].downloads = kids[a].downloads
      /\ kids'[rec.name].downloads = content
  BY <1>0, <1>1, <1>2, WriteEffect DEF content
<1>10. DownloadsInv'
  <2> SUFFICES ASSUME NEW a \in Atoms
               PROVE  LET d == kids'[a].downloads
                      IN  /\ Len(d) \in 0 .. MaxGroups /\ d = [i \in 1 .. Len(d) |-> d[i]]
                          /\ \A i \in 1 .. Len(d) : d[i] = NoObj \/ Made(a, d[i])
    BY DEF DownloadsInv
  <2>1. CASE a = rec.name
    BY <1>8, <1>9, <2>1
  <2>2. CASE a # rec.name
    BY <1>0, <1>9, <2>2 DEF DownloadsInv
  <2> QED
    BY <2>1, <2>2
<1>11. StripInv' /\ RoutedInv'
  BY <1>1, <1>2, <1>3, OtherWrite
<1>12. CallInv'
  BY <1>1, <1>2, <1>3, CallGoesOn
<1> QED
  BY <1>10, <1>11, <1>12

\* What is routed from now on is ready: Service and StripPrefix are of the same call.
LEMMA RequestsWriteIngressRoute ==
    ASSUME RequestsInv, WriteIngressRoute
    PROVE  DownloadsInv' /\ StripInv' /\ RoutedInv' /\ CallInv'
<1> DEFINE content == mutateIngressRoute(rec.spec)
<1>0. ConfigsInv /\ CallInv
  BY DEF RequestsInv
<1>1. rec.pc = "downloads" /\ Write("routes", content, Idle) /\ Idle.pc = "idle"
  BY DEF WriteIngressRoute, Idle
<1>2. /\ rec.name \in Atoms /\ rec.spec \in Specs[rec.name] /\ kids[rec.name].service = TRUE
      /\ kids[rec.name].strip = mutateStripPrefixMiddleware(rec.spec)
      /\ atoms[rec.name] # NoObj /\ URLs(rec.spec) \subseteq URLs(atoms[rec.name])
  BY <1>0, <1>1 DEF CallInv, ConfigsInv
<1>3. ReadyFor(rec.name, URLs(rec.spec))
  BY <1>2, NoObjAssumption, StripShape DEF ReadyFor
<1>4. content = mutateIngressRoute(rec.spec)
  OBVIOUS
<1> HIDE DEF content
<1>5. DownloadsInv'
  BY <1>1, DownloadsKept
<1>6. /\ atoms' = atoms /\ rec' = Idle
      /\ \A a \in Atoms : a # rec.name => kids'[a] = kids[a]
      /\ kids'[rec.name].routes = content
      /\ kids'[rec.name].strip = kids[rec.name].strip
      /\ kids'[rec.name].service = kids[rec.name].service
  BY <1>0, <1>1, WriteEffect
<1>7. StripInv'
  BY <1>6 DEF RequestsInv, StripInv
<1>8. RoutedInv'
  <2> SUFFICES ASSUME NEW a \in Atoms, kids'[a].routes # NoObj
               PROVE  (\E s \in Specs[a] :
                         /\ kids[a].routes = mutateIngressRoute(s)
                         /\ ReadyFor(a, URLs(s))
                         /\ atoms[a] # NoObj /\ URLs(s) \subseteq URLs(atoms[a])
                         /\ rec.pc # "idle" /\ rec.name = a => URLs(s) \subseteq URLs(rec.spec))'
    BY DEF RoutedInv
  <2>1. PICK s \in Specs[a] :
           /\ kids'[a].routes = mutateIngressRoute(s)
           /\ ReadyFor(a, URLs(s))
           /\ atoms[a] # NoObj /\ URLs(s) \subseteq URLs(atoms[a])
    <3>1. CASE a = rec.name
      BY <1>2, <1>3, <1>4, <1>6, <3>1
    <3>2. CASE a # rec.name
      BY <1>6, <3>2 DEF RequestsInv, RoutedInv
    <3> QED
      BY <3>1, <3>2
  <2>2. ReadyFor(a, URLs(s))'
    BY <1>6, <2>1 DEF ReadyFor
  <2> QED
    BY <1>1, <1>6, <2>1, <2>2
<1>9. CallInv'
  BY <1>0, <1>1, <1>2, <1>6 DEF CallInv
<1> QED
  BY <1>5, <1>7, <1>8, <1>9

LEMMA RequestsNext == RequestsInv /\ [Next]_vars => RequestsInv'
<1> SUFFICES ASSUME RequestsInv, [Next]_vars
             PROVE  DownloadsInv' /\ StripInv' /\ RoutedInv' /\ CallInv'
  BY ConfigsNext DEF RequestsInv
<1>0. ConfigsInv
  BY DEF RequestsInv
<1>1. ASSUME NEW a \in Atoms, NEW s \in Specs[a], Apply(a, s)
      PROVE  DownloadsInv' /\ StripInv' /\ RoutedInv' /\ CallInv'
  <2>1. /\ kids' = kids /\ rec' = rec /\ s # NoObj
        /\ atoms'[a] = s /\ \A b \in Atoms : b # a => atoms'[b] = atoms[b]
        /\ atoms[a] # NoObj => URLs(atoms[a]) \subseteq URLs(s)
    BY <1>0, <1>1, NoObjAssumption DEF Apply, ConfigsInv, URLsKept, URLs
  <2> QED
    BY <2>1, StoredStep
<1>2. ASSUME NEW a \in Atoms, Reconcile(a)
      PROVE  DownloadsInv' /\ StripInv' /\ RoutedInv' /\ CallInv'
  BY <1>2, CallStep DEF Reconcile
<1>3. ASSUME NEW a \in Atoms, StartPod(a) \/ StopPod(a)
      PROVE  DownloadsInv' /\ StripInv' /\ RoutedInv' /\ CallInv'
  BY <1>3, StoredStep DEF StartPod, StopPod
<1>4. CASE Stop
  BY <1>4, CallStep DEF Stop, Idle
<1>5. CASE UNCHANGED vars
  BY <1>5, StoredStep DEF vars
<1> QED
  BY <1>1, <1>2, <1>3, <1>4, <1>5, RequestsWriteDeployment, RequestsWriteService,
     RequestsWriteStripPrefix, RequestsWriteDownloads, RequestsWriteIngressRoute DEF Next

LEMMA RequestsInvariant == Spec => []RequestsInv
  BY RequestsInit, RequestsNext, PTL DEF Spec

\* The types of the objects, of the pods and of the running call.  That there are never
\* more download middlewares than MaxGroups rests on the indices counting the groups
\* (getDownloadLinkGroups, middleware.go).
THEOREM RoutingTypes == Spec => []RoutingTypeOK
<1> DEFINE PodsInv == pods \in [Atoms -> SUBSET Configs]
<1>1. Init => PodsInv
  BY DEF Init
<1>2. ConfigsInv /\ PodsInv /\ [Next]_vars => PodsInv'
  <2> SUFFICES ASSUME ConfigsInv, PodsInv, [Next]_vars PROVE PodsInv'
    OBVIOUS
  <2>1. ASSUME NEW a \in Atoms, StartPod(a) PROVE PodsInv'
    <3>1. kids[a].config \in Configs
      BY <2>1 DEF StartPod, ConfigsInv, AdmittedConfigs, Admitted, Configs
    <3>2. pods[a] \cup {kids[a].config} \in SUBSET Configs
      BY <3>1
    <3> QED
      BY <2>1, <3>2 DEF StartPod
  <2>2. ASSUME NEW a \in Atoms, StopPod(a) PROVE PodsInv'
    <3>1. PICK config : pods' = [pods EXCEPT ![a] = @ \ {config}]
      BY <2>2 DEF StopPod
    <3>2. pods[a] \ {config} \in SUBSET Configs
      OBVIOUS
    <3> QED
      BY <3>1, <3>2
  <2>3. ASSUME pods' = pods PROVE PodsInv'
    BY <2>3
  <2> QED
    BY <2>1, <2>2, <2>3 DEF Next, vars, Apply, Reconcile, Write, WriteDeployment, WriteService,
       WriteStripPrefix, WriteDownloads, WriteIngressRoute, Stop
<1>3. RequestsInv /\ PodsInv => RoutingTypeOK
  <2> SUFFICES ASSUME RequestsInv, PodsInv PROVE RoutingTypeOK
    OBVIOUS
  <2>1. \A a \in Atoms : /\ kids[a].config \in Configs \cup {NoObj}
                         /\ kids[a].service \in BOOLEAN
                         /\ Len(kids[a].downloads) <= MaxGroups
    <3>1. AdmittedConfigs \subseteq Configs
      BY DEF AdmittedConfigs, Admitted, Configs
    <3>2. \A a \in Atoms : kids[a].config \in AdmittedConfigs \cup {NoObj} /\ kids[a].service \in BOOLEAN
      BY DEF RequestsInv, ConfigsInv, CallInv
    <3>3. \A a \in Atoms : Len(kids[a].downloads) \in 0 .. MaxGroups
      BY DEF RequestsInv, DownloadsInv
    <3>4. \A i \in 0 .. MaxGroups : i <= MaxGroups
      BY DEF MaxGroups
    <3> QED
      BY <3>1, <3>2, <3>3, <3>4
  <2>2. /\ \A a \in Atoms : atoms[a] \in Specs[a] \cup {NoObj}
        /\ rec.pc # "idle" => rec.spec \in Specs[rec.name] /\ rec.pend \subseteq DOMAIN Groups
    BY DEF RequestsInv, CallInv
  <2> QED
    BY <2>1, <2>2 DEF RoutingTypeOK
<1> HIDE DEF PodsInv
<1>4. RequestsInv => ConfigsInv
  BY DEF RequestsInv
<1> QED
  BY <1>1, <1>2, <1>3, <1>4, RequestsInvariant, PTL DEF Spec

-----------------------------------------------------------------------------
(* Paths *)

LEMMA SeqAppend ==
    ASSUME NEW p, IsSeq(p), NEW x
    PROVE  /\ IsSeq(Append(p, x)) /\ Len(p) \in Nat /\ Len(Append(p, x)) = Len(p) + 1
           /\ DOMAIN p = 1 .. Len(p)
           /\ \A i \in 1 .. Len(p) : Append(p, x)[i] = p[i]
           /\ Append(p, x)[Len(p) + 1] = x
<1> DEFINE S == Range(p) \cup {x}
<1>1. p \in Seq(S) /\ x \in S
  <2>1. p \in Seq(Range(p))
    BY DEF IsSeq
  <2>2. p \in Seq(Range(p) \cup {x})
    BY <2>1, SeqOfMore
  <2> QED
    BY <2>2
<1> HIDE DEF S
<1>2. /\ Append(p, x) \in Seq(S) /\ Len(p) \in Nat /\ Len(Append(p, x)) = Len(p) + 1
      /\ DOMAIN p = 1 .. Len(p)
      /\ \A i \in 1 .. Len(p) : Append(p, x)[i] = p[i]
      /\ Append(p, x)[Len(p) + 1] = x
  BY <1>1, AppendProperties
<1>3. IsSeq(Append(p, x))
  BY <1>2, SeqOfRange DEF IsSeq
<1> QED
  BY <1>2, <1>3

LEMMA SameSeq ==
    ASSUME NEW p, IsSeq(p), NEW q, IsSeq(q), Len(p) = Len(q), \A i \in 1 .. Len(p) : p[i] = q[i]
    PROVE  p = q
<1> DEFINE S == Range(p) \cup Range(q)
<1>1. p \in Seq(S) /\ q \in Seq(S)
  BY SeqOfMore DEF IsSeq
<1> HIDE DEF S
<1> QED
  BY <1>1, SeqEqual

LEMMA PrefixPointwise ==
    ASSUME NEW p, IsSeq(p), NEW q, IsSeq(q)
    PROVE  IsPrefix(p, q) <=> Len(p) <= Len(q) /\ \A i \in 1 .. Len(p) : p[i] = q[i]
<1> DEFINE S == Range(p) \cup Range(q)
<1>1. p \in Seq(S) /\ q \in Seq(S)
  BY SeqOfMore DEF IsSeq
<1> HIDE DEF S
<1> DEFINE n == Len(p)
<1>2. n \in Nat /\ Len(q) \in Nat
  BY <1>1
<1>3. ASSUME n <= Len(q)
      PROVE  /\ SubSeq(p, 1, n) \in Seq(S) /\ SubSeq(q, 1, n) \in Seq(S)
             /\ Len(SubSeq(p, 1, n)) = n /\ Len(SubSeq(q, 1, n)) = n
             /\ \A i \in 1 .. n : SubSeq(p, 1, n)[i] = p[i] /\ SubSeq(q, 1, n)[i] = q[i]
  BY <1>1, <1>2, <1>3
<1>4. ASSUME n <= Len(q), \A i \in 1 .. n : p[i] = q[i]
      PROVE  SubSeq(p, 1, n) = SubSeq(q, 1, n)
  BY <1>3, <1>4, SeqEqual
<1> QED
  BY <1>3, <1>4 DEF IsPrefix

LEMMA AppendSame ==
    ASSUME NEW p, IsSeq(p), NEW q, IsSeq(q), NEW x, NEW y, Append(p, x) = Append(q, y)
    PROVE  p = q /\ x = y
<1>1. Len(p) = Len(q) /\ Len(p) \in Nat
  BY SeqAppend
<1>2. \A i \in 1 .. Len(p) : p[i] = q[i]
  BY <1>1, SeqAppend
<1>3. x = y
  BY <1>1, SeqAppend
<1> QED
  BY <1>1, <1>2, <1>3, SameSeq

\* A beginning of a path with one more segment is a beginning of the path or all of it.
LEMMA PrefixOfAppend ==
    ASSUME NEW p, IsSeq(p), NEW q, IsSeq(q), NEW x
    PROVE  /\ IsPrefix(p, q) => IsStrictPrefix(p, Append(q, x))
           /\ IsStrictPrefix(p, Append(q, x)) => IsPrefix(p, q)
           /\ IsPrefix(p, p)
<1> DEFINE r == Append(q, x)
<1>1. /\ IsSeq(r) /\ Len(r) = Len(q) + 1 /\ Len(q) \in Nat /\ Len(p) \in Nat
      /\ \A i \in 1 .. Len(q) : r[i] = q[i]
  BY SeqAppend
<1> HIDE DEF r
<1>2. ASSUME IsPrefix(p, q) PROVE IsStrictPrefix(p, r)
  <2>1. Len(p) <= Len(q) /\ \A i \in 1 .. Len(p) : p[i] = q[i]
    BY <1>2, PrefixPointwise
  <2>2. Len(p) <= Len(r) /\ \A i \in 1 .. Len(p) : p[i] = r[i]
    BY <1>1, <2>1
  <2>3. p # r
    BY <1>1, <2>1
  <2> QED
    BY <1>1, <2>2, <2>3, PrefixPointwise DEF IsStrictPrefix
<1>3. ASSUME IsStrictPrefix(p, r) PROVE IsPrefix(p, q)
  <2>1. p # r /\ Len(p) <= Len(r) /\ \A i \in 1 .. Len(p) : p[i] = r[i]
    BY <1>1, <1>3, PrefixPointwise DEF IsStrictPrefix
  <2>2. Len(p) # Len(r)
    BY <1>1, <2>1, SameSeq
  <2>3. Len(p) <= Len(q) /\ \A i \in 1 .. Len(p) : p[i] = q[i]
    BY <1>1, <2>1, <2>2
  <2> QED
    BY <2>3, PrefixPointwise
<1>4. IsPrefix(p, p)
  BY <1>1, PrefixPointwise
<1> QED
  BY <1>2, <1>3, <1>4 DEF r

\* The same where downloads and a name follow both.
LEMMA PrefixOfDownload ==
    ASSUME NEW p, IsSeq(p), NEW q, IsSeq(q), NEW d, NEW x,
           IsStrictPrefix(Append(p, d), Append(Append(q, d), x))
    PROVE  p = q \/ IsPrefix(Append(p, d), q)
<1>1. IsSeq(Append(p, d)) /\ IsSeq(Append(q, d))
  BY SeqAppend
<1>2. IsPrefix(Append(p, d), Append(q, d))
  BY <1>1, PrefixOfAppend
<1>3. CASE Append(p, d) = Append(q, d)
  BY <1>3, AppendSame
<1>4. CASE Append(p, d) # Append(q, d)
  BY <1>1, <1>2, <1>4, PrefixOfAppend DEF IsStrictPrefix
<1> QED
  BY <1>3, <1>4

LEMMA FrontAndLast ==
    ASSUME NEW p, IsSeq(p), NEW x
    PROVE  Front(Append(p, x)) = p /\ Last(Append(p, x)) = x /\ Tail_(p, Append(p, x)) = <<x>>
<1> DEFINE S == Range(p) \cup {x}
           r == Append(p, x)
           n == Len(p)
<1>1. p \in Seq(S)
  BY SeqOfMore DEF IsSeq
<1>2. x \in S
  OBVIOUS
<1> HIDE DEF S
<1>3. /\ r \in Seq(S) /\ Len(r) = n + 1 /\ n \in Nat /\ r[n + 1] = x
      /\ \A i \in 1 .. n : r[i] = p[i]
  BY <1>1, <1>2, AppendProperties
<1> HIDE DEF r
<1>4. SubSeq(r, 1, n) = p
  <2>1. SubSeq(r, 1, n) \in Seq(S) /\ Len(SubSeq(r, 1, n)) = n
        /\ \A i \in 1 .. n : SubSeq(r, 1, n)[i] = p[i]
    BY <1>3
  <2> QED
    BY <1>1, <2>1, SeqEqual
<1>5. SubSeq(r, n + 1, n + 1) = <<x>>
  <2>1. SubSeq(r, n + 1, n + 1) \in Seq(S) /\ Len(SubSeq(r, n + 1, n + 1)) = 1
        /\ SubSeq(r, n + 1, n + 1)[1] = x
    BY <1>3
  <2>2. <<x>> \in Seq(S) /\ Len(<<x>>) = 1 /\ <<x>>[1] = x
    BY <1>2
  <2>3. \A t, u \in Seq(S) : Len(t) = 1 /\ Len(u) = 1 /\ t[1] = u[1] => t = u
    <3> SUFFICES ASSUME NEW t \in Seq(S), NEW u \in Seq(S), Len(t) = 1, Len(u) = 1, t[1] = u[1]
                 PROVE  t = u
      OBVIOUS
    <3>1. \A i \in 1 .. Len(t) : t[i] = u[i]
      OBVIOUS
    <3> QED
      BY <3>1, SeqEqual
  <2> QED
    BY <2>1, <2>2, <2>3
<1> QED
  BY <1>3, <1>4, <1>5 DEF Front, Last, Tail_, r

-----------------------------------------------------------------------------
(* What is routed *)

Downloads == <<"downloads">>

LEMMA URLShape ==
    ASSUME NEW a \in Atoms, NEW s \in Specs[a], NEW u \in URLs(s)
    PROVE  u = URL(u.host, u.path) /\ IsSeq(u.path) /\ u \in URLsOf(a)
<1>1. IsURL(s.base) /\ \A v \in Range(s.routes) : IsURL(v)
  BY SequencesAssumption
<1>2. u = s.base \/ u \in Range(s.routes)
  BY DEF URLs, RoutedURLs, Range
<1> QED
  BY <1>1, <1>2 DEF IsURL, URLs, URLsOf

\* A rule is for a document or for the downloads of one of the URLs.
LEMMA RuleKinds ==
    ASSUME NEW s, NEW rule \in mutateIngressRoute(s)
    PROVE  \E u \in URLs(s) :
              \/ \E document : rule = getDefaultRule(u, document)
              \/ rule = Rule(u.host, "PathPrefix", Append(u.path, Downloads), "storage", Cardinality(DOMAIN GroupsOf(s)))
<1> DEFINE n == Cardinality(DOMAIN GroupsOf(s))
<1>1. PICK u \in URLs(s) : rule \in getRoutesForURL(s, u, n)
  BY DEF mutateIngressRoute, URLs
<1> HIDE DEF n
<1> QED
  BY <1>1 DEF getRoutesForURL, Downloads, n

\* What an Atom routes is of a spec for which Service and StripPrefix are ready.
LEMMA Routed ==
    ASSUME RequestsInv, NEW a \in Atoms, NEW rule \in Rules(a)
    PROVE  \E s \in Specs[a] :
              /\ Rules(a) = mutateIngressRoute(s) /\ ReadyFor(a, URLs(s))
              /\ \E t \in Specs[a] : kids[a].strip = mutateStripPrefixMiddleware(t)
<1>1. kids[a].routes # NoObj /\ Rules(a) = kids[a].routes
  BY DEF Rules
<1>2. PICK s \in Specs[a] : kids[a].routes = mutateIngressRoute(s) /\ ReadyFor(a, URLs(s))
  BY <1>1 DEF RequestsInv, RoutedInv
<1>3. \E t \in Specs[a] : kids[a].strip = mutateStripPrefixMiddleware(t)
  BY <1>2 DEF RequestsInv, StripInv, ReadyFor
<1> QED
  BY <1>1, <1>2, <1>3

\* Of a path that is listed, and has no beginning that is listed before it, the document
\* is what is left.
LEMMA Stripped ==
    ASSUME NEW S, NEW prefixes \in Seq(S), \A q \in S : IsSeq(q),
           NEW p \in Range(prefixes), ~ Nested(prefixes, p), NEW x
    PROVE  Strip(prefixes, Append(p, x)) = <<x>>
<1> DEFINE path == Append(p, x)
           hits == {i \in DOMAIN prefixes : Under(prefixes[i], path)}
           m == Min(hits)
<1>1. /\ DOMAIN prefixes \subseteq Nat /\ IsSeq(p)
      /\ \A i \in DOMAIN prefixes : IsSeq(prefixes[i])
  <2>1. \A i \in DOMAIN prefixes : i \in Nat /\ prefixes[i] \in S
    OBVIOUS
  <2> QED
    BY <2>1 DEF Range
<1>2. \A i \in DOMAIN prefixes : Under(prefixes[i], path) <=> IsPrefix(prefixes[i], p)
  BY <1>1, PrefixOfAppend DEF Under
<1>3. PICK j \in DOMAIN prefixes : prefixes[j] = p
  BY DEF Range
<1>4. j \in hits
  BY <1>1, <1>2, <1>3, PrefixOfAppend
<1>5. hits \in SUBSET Nat /\ hits # {}
  BY <1>1, <1>4
<1>6. m \in hits /\ \A i \in hits : m <= i
  <2> HIDE DEF hits
  <2> QED
    BY <1>5, LeastNatural
<1> HIDE DEF m
<1>7. prefixes[m] = p
  <2> SUFFICES ASSUME prefixes[m] # p PROVE FALSE
    OBVIOUS
  <2>1. m \in DOMAIN prefixes /\ Under(prefixes[m], p)
    BY <1>2, <1>6 DEF Under, IsStrictPrefix
  <2>2. PICK i \in DOMAIN prefixes : prefixes[i] = p /\ ~ m < i
    BY <2>1 DEF Nested
  <2>3. i \in hits
    BY <1>1, <1>2, <2>2, PrefixOfAppend
  <2>4. m <= i /\ m \in Nat /\ i \in Nat
    BY <1>1, <1>6, <2>1, <2>3
  <2> QED
    BY <2>2, <2>4
<1>8. Strip(prefixes, path) = Tail_(prefixes[m], path)
  BY <1>5 DEF Strip, m
<1> QED
  BY <1>1, <1>7, <1>8, FrontAndLast

\* What the Service of an Atom answers to a request for a document that all pods have.
LEMMA ServedDocument ==
    ASSUME Apart, NEW a \in Atoms, NEW s \in Specs[a], kids[a].strip = mutateStripPrefixMiddleware(s),
           NEW p \in Range(kids[a].strip), ~ Nested(kids[a].strip, p), NEW x,
           kids[a].service = TRUE, kids[a].strip # NoObj,
           pods[a] # {}, \A config \in pods[a] : x \in Files(config),
           NEW rule, rule.backend = "service"
    PROVE  Serve(a, rule, Append(p, x)) = {Answer(a, <<x>>)}
<1> DEFINE file == Strip(kids[a].strip, Append(p, x))
<1>1. file = <<x>>
  <2>1. \A q \in PathsOf(s) : IsSeq(q)
    BY SequencesAssumption DEF PathsOf, IsURL
  <2>2. kids[a].strip \in Seq(PathsOf(s))
    BY StripShape
  <2> QED
    BY <2>1, <2>2, Stripped
<1>2. Selected(a) = {a}
  BY DEF Selected, Apart
<1>3. Serve(a, rule, Append(p, x)) =
        UNION {{IF Len(file) = 1 /\ file[1] \in Files(config) THEN Answer(b, file) ELSE NotFound :
                   config \in pods[b]} : b \in Selected(a)}
  BY DEF Serve
<1> HIDE DEF file
<1>4. Len(file) = 1 /\ file[1] = x
  BY <1>1
<1>5. {IF Len(file) = 1 /\ file[1] \in Files(config) THEN Answer(a, file) ELSE NotFound : config \in pods[a]}
        = {Answer(a, <<x>>)}
  BY <1>1, <1>4
<1> QED
  BY <1>2, <1>3, <1>5

\* The rules that match a request at a URL of an Atom are the Atom's own.
LEMMA MatchingRules ==
    ASSUME Apart, RequestsInv, NEW a \in Atoms, NEW s \in Specs[a], NEW u \in URLs(s),
           NEW b \in Atoms, NEW r \in Rules(b), NEW x
    PROVE  /\ Matches(r, URL(u.host, Append(u.path, x))) => b = a /\ r.backend = "service"
           /\ Matches(r, URL(u.host, Append(Append(u.path, Downloads), x))) => b = a /\ r.backend = "storage"
<1>1. PICK t \in Specs[b] : r \in mutateIngressRoute(t)
  BY Routed
<1>2. PICK v \in URLs(t) :
         \/ \E document : r = getDefaultRule(v, document)
         \/ r = Rule(v.host, "PathPrefix", Append(v.path, Downloads), "storage", Cardinality(DOMAIN GroupsOf(t)))
  BY <1>1, RuleKinds
<1>3. /\ u = URL(u.host, u.path) /\ IsSeq(u.path) /\ u \in URLsOf(a)
      /\ v = URL(v.host, v.path) /\ IsSeq(v.path) /\ v \in URLsOf(b)
  BY URLShape
<1>4. /\ u.host # "localhost" /\ (u = v => a = b)
      /\ u.host = v.host => /\ ~ IsPrefix(Append(v.path, Downloads), u.path)
                            /\ ~ IsPrefix(Append(u.path, Downloads), v.path)
  BY <1>3 DEF Apart, Downloads
<1>5. r.host = v.host
  BY <1>2 DEF getDefaultRule, Rule
<1>6. \A path : Matches(r, URL(u.host, path)) => u.host = v.host
  BY <1>4, <1>5 DEF Matches, URL
<1>7. IsSeq(Append(u.path, Downloads)) /\ IsSeq(Append(v.path, Downloads))
  BY <1>3, SeqAppend
<1>8. ASSUME NEW document, r = getDefaultRule(v, document)
      PROVE  /\ Matches(r, URL(u.host, Append(u.path, x))) => b = a
             /\ ~ Matches(r, URL(u.host, Append(Append(u.path, Downloads), x)))
  <2>1. r.kind = "Path" /\ r.path = Append(v.path, document)
    BY <1>8 DEF getDefaultRule, Rule
  <2>2. ASSUME Matches(r, URL(u.host, Append(u.path, x))) PROVE b = a
    <3>1. Append(u.path, x) = Append(v.path, document)
      BY <2>1, <2>2 DEF Matches, URL
    <3>2. u.path = v.path
      BY <1>3, <3>1, AppendSame
    <3>3. u.host = v.host
      BY <1>6, <2>2
    <3>4. u = v
      BY <1>3, <3>2, <3>3
    <3> QED
      BY <1>4, <3>4
  <2>3. ASSUME Matches(r, URL(u.host, Append(Append(u.path, Downloads), x))) PROVE FALSE
    <3>1. Append(Append(u.path, Downloads), x) = Append(v.path, document)
      BY <2>1, <2>3 DEF Matches, URL
    <3>2. \A p : IsSeq(p) /\ Append(p, x) = Append(v.path, document) => p = v.path
      BY <1>3, AppendSame
    <3>3. Append(u.path, Downloads) = v.path
      BY <1>7, <3>1, <3>2
    <3> QED
      BY <1>3, <1>4, <1>6, <2>3, <3>3, PrefixOfAppend
  <2> QED
    BY <2>2, <2>3
<1>9. ASSUME r = Rule(v.host, "PathPrefix", Append(v.path, Downloads), "storage", Cardinality(DOMAIN GroupsOf(t)))
      PROVE  /\ ~ Matches(r, URL(u.host, Append(u.path, x)))
             /\ Matches(r, URL(u.host, Append(Append(u.path, Downloads), x))) => b = a
  <2>1. \A path : Matches(r, URL(u.host, path)) => IsStrictPrefix(Append(v.path, Downloads), path)
    <3>1. r.kind = "PathPrefix" /\ r.path = Append(v.path, Downloads)
      BY <1>9 DEF Rule
    <3> QED
      BY <3>1 DEF Matches, URL, Under
  <2>2. ASSUME Matches(r, URL(u.host, Append(u.path, x))) PROVE FALSE
    BY <1>3, <1>4, <1>6, <1>7, <2>1, <2>2, PrefixOfAppend
  <2>3. ASSUME Matches(r, URL(u.host, Append(Append(u.path, Downloads), x))) PROVE b = a
    <3>1. v.path = u.path \/ IsPrefix(Append(v.path, Downloads), u.path)
      BY <1>3, <2>1, <2>3, PrefixOfDownload
    <3> QED
      BY <1>3, <1>4, <1>6, <2>3, <3>1
  <2> QED
    BY <2>2, <2>3
<1>10. /\ \A document : r = getDefaultRule(v, document) => r.backend = "service"
       /\ r = Rule(v.host, "PathPrefix", Append(v.path, Downloads), "storage", Cardinality(DOMAIN GroupsOf(t)))
             => r.backend = "storage"
  BY DEF getDefaultRule, Rule
<1> QED
  BY <1>2, <1>8, <1>9, <1>10

\* The answers to a request at a URL of an Atom are those of the rules that match.
LEMMA AnswersOf ==
    ASSUME NEW req
    PROVE  \A answer : answer \in Answers(req) <=>
              \E a \in Atoms : \E r \in Rules(a) : Matches(r, req) /\ answer \in Serve(a, r, req.path)
BY DEF Answers

\* A document that is routed and that all running pods have is what a request for it gets
\* (service.go, middleware.go and ingressroute.go as createOrUpdateAllForAtom calls them):
\* StripPrefix knew the URL before the IngressRoute did, and forgets none that is routed.
\* So for Atoms whose users keep them apart.
THEOREM DocumentsAreServed == ASSUME Apart PROVE Spec => []DocumentsServed
<1>1. RequestsInv => DocumentsServed
  <2> SUFFICES ASSUME RequestsInv, NEW a \in Atoms, NEW rule \in Rules(a), rule.backend = "service",
                      pods[a] # {}, \A config \in pods[a] : Last(rule.path) \in Files(config),
                      ~ Nested(kids[a].strip, Front(rule.path))
               PROVE  Answers(URL(rule.host, rule.path)) = {Answer(a, <<Last(rule.path)>>)}
    BY DEF DocumentsServed
  <2>1. PICK s \in Specs[a] :
           /\ Rules(a) = mutateIngressRoute(s) /\ ReadyFor(a, URLs(s))
           /\ \E t \in Specs[a] : kids[a].strip = mutateStripPrefixMiddleware(t)
    BY Routed
  <2>2. PICK t \in Specs[a] : kids[a].strip = mutateStripPrefixMiddleware(t)
    BY <2>1
  <2>3. PICK u \in URLs(s) : \E document : rule = getDefaultRule(u, document)
    <3>1. PICK u \in URLs(s) :
             \/ \E document : rule = getDefaultRule(u, document)
             \/ rule = Rule(u.host, "PathPrefix", Append(u.path, Downloads), "storage",
                            Cardinality(DOMAIN GroupsOf(s)))
      BY <2>1, RuleKinds
    <3> QED
      BY <3>1 DEF Rule
  <2>4. PICK document : rule = getDefaultRule(u, document)
    BY <2>3
  <2>5. /\ rule.host = u.host /\ rule.kind = "Path" /\ rule.path = Append(u.path, document)
        /\ u.host # "localhost" /\ IsSeq(u.path)
    <3>1. IsSeq(u.path) /\ u \in URLsOf(a)
      BY URLShape
    <3>2. u.host # "localhost"
      BY <3>1 DEF Apart
    <3> QED
      BY <2>4, <3>1, <3>2 DEF getDefaultRule, Rule
  <2>6. Front(rule.path) = u.path /\ Last(rule.path) = document
    BY <2>5, FrontAndLast
  <2> DEFINE req == URL(rule.host, rule.path)
  <2>7. req.path = rule.path /\ req.host = rule.host
    BY DEF URL
  <2>8. ASSUME NEW r, r.backend = "service"
        PROVE  Serve(a, r, req.path) = {Answer(a, <<document>>)}
    BY <2>1, <2>2, <2>5, <2>6, <2>7, <2>8, ServedDocument DEF ReadyFor
  <2>9. Matches(rule, req)
    BY <2>5, <2>7 DEF Matches
  <2>10. ASSUME NEW b \in Atoms, NEW r \in Rules(b), Matches(r, req)
         PROVE  b = a /\ r.backend = "service"
    <3>1. req = URL(u.host, Append(u.path, document))
      BY <2>5
    <3> HIDE DEF req
    <3>2. Matches(r, URL(u.host, Append(u.path, document))) => b = a /\ r.backend = "service"
      BY MatchingRules
    <3> QED
      BY <2>10, <3>1, <3>2
  <2> HIDE DEF req
  <2>11. Answer(a, <<document>>) \in Answers(req)
    BY <2>8, <2>9, AnswersOf
  <2>12. ASSUME NEW answer \in Answers(req) PROVE answer = Answer(a, <<document>>)
    BY <2>8, <2>10, AnswersOf
  <2> QED
    BY <2>6, <2>11, <2>12 DEF req
<1> QED
  BY <1>1, RequestsInvariant, PTL
-----------------------------------------------------------------------------
(* What the middlewares do *)

\* A blob's path is its prefix and its name.
LEMMA LinkData ==
    ASSUME NEW a \in Atoms, NEW s \in Specs[a], NEW link \in Range(GetDownloadLinks(s))
    PROVE  /\ IsSeq(link.data) /\ IsSeq(GetBlobName(link))
           /\ GetBlobPrefix(link) \o <<GetBlobName(link)>> = link.data
<1> DEFINE q == link.data
           S == Range(q)
           n == Len(q)
<1>1. IsSeq(q) /\ IsSeq(GetBlobName(link))
  <2>1. link \in LinksIn(s)
    BY LinksFlat
  <2>2. PICK f \in Range(s.feeds) : \E e \in Range(f.entries) : link \in Range(e.links)
    BY <2>1 DEF LinksIn
  <2>3. PICK e \in Range(f.entries) : link \in Range(e.links)
    BY <2>2
  <2> QED
    BY <2>3, SequencesAssumption
<1>2. n \in Nat /\ n >= 3
  <2>1. Len(link.data) >= 3
    BY RoutingAssumption
  <2>2. Len(link.data) \in Nat
    BY <1>1 DEF IsSeq
  <2> QED
    BY <2>1, <2>2
<1>3. q \in Seq(S)
  BY <1>1 DEF IsSeq
<1> DEFINE front == SubSeq(q, 1, n - 1)
<1>4. q[n] \in S
  BY <1>2, <1>3 DEF Range
<1> HIDE DEF q, S
<1>5. /\ front \in Seq(S) /\ Len(front) = n - 1
      /\ \A i \in 1 .. (n - 1) : front[i] = q[i]
  BY <1>2, <1>3
<1>6. Append(front, q[n]) \in Seq(S) /\ Len(Append(front, q[n])) = n
      /\ \A i \in 1 .. n : Append(front, q[n])[i] = q[i]
  <2> HIDE DEF front, n
  <2>1. /\ Append(front, q[n]) \in Seq(S) /\ Len(Append(front, q[n])) = Len(front) + 1
        /\ \A i \in 1 .. Len(front) : Append(front, q[n])[i] = front[i]
        /\ Append(front, q[n])[Len(front) + 1] = q[n]
    BY <1>4, <1>5, AppendProperties
  <2> QED
    BY <1>2, <1>5, <2>1
<1>7. Append(front, q[n]) = q
  <2> HIDE DEF front
  <2> QED
    BY <1>3, <1>6, SeqEqual
<1>8. front \o <<q[n]>> = q
  <2> HIDE DEF front, n
  <2> QED
    BY <1>4, <1>5, <1>7, AppendIsConcat
<1> QED
  BY <1>1, <1>8 DEF GetBlobPrefix, GetBlobName, Front, Last, q

\* The paths that a middleware or StripPrefix lists are those of the routed URLs.
LEMMA PathsShape ==
    ASSUME NEW a \in Atoms, NEW s \in Specs[a]
    PROVE  /\ DOMAIN Paths(RoutedURLs(s)) \subseteq Nat
           /\ \A i \in DOMAIN Paths(RoutedURLs(s)) : \E v \in URLs(s) : Paths(RoutedURLs(s))[i] = v.path
           /\ \A v \in URLs(s) : \E i \in DOMAIN Paths(RoutedURLs(s)) : Paths(RoutedURLs(s))[i] = v.path
<1> DEFINE urls == RoutedURLs(s)
<1>1. DOMAIN urls \subseteq Nat
  <2>1. IsSeq(s.routes)
    BY SequencesAssumption
  <2>2. DOMAIN s.routes \subseteq Nat
    BY <2>1 DEF IsSeq
  <2>3. DOMAIN <<s.base>> \subseteq Nat
    OBVIOUS
  <2> QED
    BY <2>2, <2>3 DEF RoutedURLs
<1> HIDE DEF urls
<1>2. /\ DOMAIN Paths(urls) = DOMAIN urls
      /\ \A i \in DOMAIN urls : Paths(urls)[i] = urls[i].path
  BY DEF Paths
<1>3. \A v : v \in Range(urls) <=> \E i \in DOMAIN urls : v = urls[i]
  BY DEF Range
<1> QED
  BY <1>1, <1>2, <1>3 DEF URLs, urls

\* The rewrite of a download at a URL of the Atom takes its group's middleware to list
\* the URL and to know a beginning of its name; then it leads to the group's prefix.
LEMMA RewriteOfDownload ==
    ASSUME Apart, NEW a \in Atoms, NEW s \in Specs[a], NEW u \in URLs(s),
           NEW t \in Specs[a], NEW m, m.paths = Paths(RoutedURLs(t)), NEW x
    PROVE  LET path == Append(Append(u.path, Downloads), x)
               known == \E file \in m.files : IsPrefix(file, x)
           IN  /\ Rewrite(path, m) = path \/ (known /\ Rewrite(path, m) = m.prefix \o <<x>>)
               /\ u \in URLs(t) /\ known => Rewrite(path, m) = m.prefix \o <<x>>
<1> DEFINE q == Append(u.path, Downloads)
           path == Append(q, x)
           known == \E file \in m.files : IsPrefix(file, x)
           below(i) == Append(m.paths[i], Downloads)
           hits == {i \in DOMAIN m.paths :
                       /\ Under(below(i), path)
                       /\ \E file \in m.files : IsPrefix(file, path[Len(below(i)) + 1])}
<1>1. IsSeq(u.path) /\ u \in URLsOf(a)
  BY URLShape
<1>2. IsSeq(q) /\ path[Len(q) + 1] = x /\ Tail_(q, path) = <<x>>
  <2>1. IsSeq(q)
    BY <1>1, SeqAppend
  <2> HIDE DEF q
  <2> QED
    BY <2>1, SeqAppend, FrontAndLast
<1>3. /\ DOMAIN m.paths \subseteq Nat
      /\ \A i \in DOMAIN m.paths : \E v \in URLs(t) : m.paths[i] = v.path
      /\ \A v \in URLs(t) : \E i \in DOMAIN m.paths : m.paths[i] = v.path
  BY PathsShape
<1>4. ASSUME NEW i \in DOMAIN m.paths, Under(below(i), path)
      PROVE  below(i) = q
  <2>1. PICK v \in URLs(t) : m.paths[i] = v.path
    BY <1>3
  <2>2. IsSeq(v.path) /\ v \in URLsOf(a)
    BY URLShape
  <2>3. v.path = u.path \/ IsPrefix(Append(v.path, Downloads), u.path)
    BY <1>1, <1>4, <2>1, <2>2, PrefixOfDownload DEF Under
  <2>4. ~ IsPrefix(Append(v.path, Downloads), u.path)
    BY <1>1, <2>2 DEF Apart, Downloads
  <2> QED
    BY <2>1, <2>3, <2>4
<1>5. ASSUME NEW i \in hits PROVE below(i) = q /\ known
  <2>1. i \in DOMAIN m.paths /\ Under(below(i), path) /\ \E file \in m.files : IsPrefix(file, path[Len(below(i)) + 1])
    OBVIOUS
  <2>2. below(i) = q
    BY <1>4, <2>1
  <2> HIDE DEF below, path, q
  <2> QED
    BY <1>2, <2>1, <2>2
<1>6. ASSUME u \in URLs(t), known PROVE hits # {}
  <2>1. PICK i \in DOMAIN m.paths : m.paths[i] = u.path
    BY <1>3, <1>6
  <2>2. below(i) = q
    BY <2>1
  <2>3. Under(q, path)
    <3> HIDE DEF q
    <3> QED
      BY <1>2, PrefixOfAppend DEF Under
  <2>4. i \in hits
    <3> HIDE DEF below, q, path
    <3> QED
      BY <1>2, <1>6, <2>2, <2>3
  <2> QED
    BY <2>4
<1>7. Rewrite(path, m) = IF hits = {} THEN path ELSE m.prefix \o Tail_(below(Min(hits)), path)
  BY DEF Rewrite, Downloads
<1>8. hits # {} => Min(hits) \in hits
  <2>1. hits \in SUBSET Nat
    BY <1>3
  <2> HIDE DEF hits
  <2> QED
    BY <2>1, LeastNatural
<1>9. hits # {} => known /\ Rewrite(path, m) = m.prefix \o <<x>>
  <2> HIDE DEF hits, below, q, path, known
  <2> QED
    BY <1>2, <1>5, <1>7, <1>8
<1> HIDE DEF hits, known
<1> QED
  BY <1>6, <1>7, <1>9 DEF known

\* No middleware of an Atom takes the path of a blob for one of its downloads.
LEMMA RewriteOfBlob ==
    ASSUME Apart, NEW a \in Atoms, NEW s \in Specs[a], NEW link \in Range(GetDownloadLinks(s)),
           NEW t \in Specs[a], NEW m, m.paths = Paths(RoutedURLs(t))
    PROVE  Rewrite(link.data, m) = link.data
<1>1. ASSUME NEW i \in DOMAIN m.paths PROVE ~ Under(Append(m.paths[i], Downloads), link.data)
  <2>1. PICK v \in URLs(t) : m.paths[i] = v.path
    BY PathsShape
  <2>2. v \in URLsOf(a)
    BY URLShape
  <2>3. ~ IsPrefix(Append(v.path, Downloads), link.data)
    BY <2>2 DEF Apart, Downloads
  <2> QED
    BY <2>1, <2>3 DEF Under, IsStrictPrefix
<1> QED
  BY <1>1 DEF Rewrite, Downloads
-----------------------------------------------------------------------------
(* The middlewares that rules name *)

\* The places where there is a middleware; place i + 1 is that of index i.
Filled(a) == {i \in 1 .. Len(kids[a].downloads) : kids[a].downloads[i] # NoObj}

PlacedInv ==
    /\ \A a \in Atoms : \A r \in Rules(a) : r.backend = "storage" => 1 .. r.downloads \subseteq Filled(a)
    /\ rec.pc = "downloads" =>
          \A p \in DOMAIN Groups \ rec.pend : Groups[p].index + 1 \in Filled(rec.name)

\* A write of a middleware takes none away and fills its own place.
LEMMA PlaceFilled ==
    ASSUME RequestsInv, WriteDownloads
    PROVE  /\ atoms' = atoms /\ rec'.pc = rec.pc /\ rec'.name = rec.name /\ rec'.spec = rec.spec
           /\ \A a \in Atoms : kids'[a].routes = kids[a].routes /\ Filled(a) \subseteq Filled(a)'
           /\ \E p \in rec.pend : /\ rec'.pend = rec.pend \ {p}
                                  /\ Groups[p].index + 1 \in Filled(rec.name)'
<1> DEFINE old == kids[rec.name].downloads
           m(p) == mutateDownloadLinkMiddleware(rec.spec, p, Groups[p].files)
           place(p) == Groups[p].index + 1
           new(p) == [i \in 1 .. Max({Len(old), place(p)}) |->
                        IF i = place(p) THEN m(p) ELSE IF i <= Len(old) THEN old[i] ELSE NoObj]
           next(p) == [rec EXCEPT !.pend = @ \ {p}]
<1>0. ConfigsInv /\ DownloadsInv
  BY DEF RequestsInv
<1>1. PICK p \in rec.pend : Write("downloads", new(p), next(p))
  BY DEF WriteDownloads
<1> DEFINE content == new(p)
           at == place(p)
           top == Max({Len(old), at})
<1>2. rec.pc = "downloads" /\ rec.name \in Atoms /\ rec.spec \in Specs[rec.name] /\ p \in DOMAIN Groups
  BY DEF WriteDownloads, RequestsInv, CallInv, ConfigsInv
<1>3. /\ next(p).name = rec.name /\ next(p).spec = rec.spec
      /\ next(p).pend = rec.pend \ {p} /\ next(p).pc = rec.pc
  BY <1>0 DEF ConfigsInv
<1>4. at \in Nat /\ at >= 1
  <2>1. p \in DOMAIN GroupsOf(rec.spec)
    BY <1>2 DEF Groups
  <2>2. /\ GroupsOf(rec.spec)[p].index \in 0 .. (Cardinality(DOMAIN GroupsOf(rec.spec)) - 1)
        /\ Cardinality(DOMAIN GroupsOf(rec.spec)) \in 0 .. MaxGroups
    BY <1>2, <2>1, GroupsOfSpec
  <2> QED
    BY <2>1, <2>2 DEF Groups, MaxGroups
<1>5. m(p) # NoObj
  BY <1>2, NoObjAssumption DEF Groups
<1>6. Len(old) \in Nat
  BY <1>0, <1>2 DEF DownloadsInv, MaxGroups
<1>7. top \in Nat /\ top >= Len(old) /\ top >= at
  <2>1. \A i, j \in Nat : Max({i, j}) = IF i >= j THEN i ELSE j
    BY MaxOfTwo
  <2> HIDE DEF old, at
  <2> QED
    BY <1>4, <1>6, <2>1
<1>8. /\ Len(content) = top
      /\ \A i \in 1 .. top : content[i] = IF i = at THEN m(p) ELSE IF i <= Len(old) THEN old[i] ELSE NoObj
  <2> HIDE DEF top, m
  <2> QED
    BY <1>7 DEF top
<1> HIDE DEF content, new, next, top
<1>9. /\ \A a \in Atoms : a # rec.name => kids'[a] = kids[a]
      /\ kids'[rec.name].downloads = content /\ kids'[rec.name].routes = kids[rec.name].routes
      /\ atoms' = atoms /\ rec' = next(p)
  BY <1>0, <1>1, <1>2, WriteEffect DEF content
<1> HIDE DEF m, place
<1>10. \A i \in 1 .. Len(old) : old[i] # NoObj => i \in 1 .. top /\ content[i] # NoObj
  <2> HIDE DEF old, at
  <2> QED
    BY <1>4, <1>5, <1>6, <1>7, <1>8
<1>11. at \in 1 .. top /\ content[at] # NoObj
  <2> HIDE DEF old, at
  <2> QED
    BY <1>4, <1>5, <1>7, <1>8
<1>12. ASSUME NEW a \in Atoms PROVE kids'[a].routes = kids[a].routes /\ Filled(a) \subseteq Filled(a)'
  <2>1. CASE a = rec.name
    BY <1>8, <1>9, <1>10, <2>1 DEF Filled
  <2>2. CASE a # rec.name
    BY <1>9, <2>2 DEF Filled
  <2> QED
    BY <2>1, <2>2
<1>13. Groups[p].index + 1 \in Filled(rec.name)'
  <2>1. rec'.name = rec.name
    BY <1>3, <1>9
  <2> QED
    BY <1>8, <1>9, <1>11, <2>1 DEF Filled, place
<1> QED
  BY <1>3, <1>9, <1>12, <1>13

\* A call writes the middlewares of all groups before it writes the rules that name them.
LEMMA PlacedInvariant == Spec => []PlacedInv
<1>1. Init => PlacedInv
  BY DEF Init, NoKids, Idle, PlacedInv, Rules
<1>2. RequestsInv /\ PlacedInv /\ [Next]_vars => PlacedInv'
  <2> SUFFICES ASSUME RequestsInv, PlacedInv, [Next]_vars PROVE PlacedInv'
    OBVIOUS
  <2>0. ConfigsInv
    BY DEF RequestsInv
  <2>1. ASSUME \A a \in Atoms : kids'[a].routes = kids[a].routes /\ kids'[a].downloads = kids[a].downloads,
               rec'.pc = "downloads" => rec' = rec
        PROVE  PlacedInv'
    <3>1. \A a \in Atoms : Rules(a)' = Rules(a) /\ Filled(a)' = Filled(a)
      BY <2>1 DEF Rules, Filled
    <3>2. ASSUME rec'.pc = "downloads"
          PROVE  \A p \in DOMAIN Groups' \ rec'.pend : Groups'[p].index + 1 \in Filled(rec.name)'
      <4>1. rec' = rec /\ rec.name \in Atoms
        BY <2>0, <2>1, <3>2 DEF ConfigsInv
      <4>2. Groups' = Groups
        BY <4>1 DEF Groups
      <4>3. Filled(rec.name)' = Filled(rec.name)
        BY <2>1, <4>1 DEF Filled
      <4> QED
        BY <3>2, <4>1, <4>2, <4>3 DEF PlacedInv
    <3> QED
      BY <3>1, <3>2 DEF PlacedInv
  <2>2. ASSUME NEW child \in {"config", "service", "strip"}, NEW content, NEW next,
               rec.pc # "idle", Write(child, content, next), next.pc # "downloads"
        PROVE  PlacedInv'
    <3>1. /\ rec' = next
          /\ \A a \in Atoms : kids'[a].routes = kids[a].routes /\ kids'[a].downloads = kids[a].downloads
      BY <2>0, <2>2, WriteEffect
    <3> QED
      BY <2>1, <2>2, <3>1
  <2>3. CASE WriteDeployment
    BY <2>0, <2>2, <2>3 DEF WriteDeployment, Goto, ConfigsInv
  <2>4. CASE WriteService
    BY <2>0, <2>2, <2>4 DEF WriteService, Goto, ConfigsInv
  <2>5. CASE WriteStripPrefix
    <3> DEFINE content == mutateStripPrefixMiddleware(rec.spec)
               next == [rec EXCEPT !.pc = "downloads", !.pend = DOMAIN Groups]
    <3>1. /\ rec.pc # "idle" /\ Write("strip", content, next)
          /\ next.pend = DOMAIN Groups /\ next.spec = rec.spec
      BY <2>0, <2>5 DEF WriteStripPrefix, ConfigsInv
    <3> HIDE DEF content, next
    <3>2. /\ rec' = next
          /\ \A a \in Atoms : kids'[a].routes = kids[a].routes /\ kids'[a].downloads = kids[a].downloads
      BY <2>0, <3>1, WriteEffect
    <3>3. Groups' = Groups
      BY <3>1, <3>2 DEF Groups
    <3>4. \A a \in Atoms : Rules(a)' = Rules(a) /\ Filled(a)' = Filled(a)
      BY <3>2 DEF Rules, Filled
    <3> QED
      BY <3>1, <3>2, <3>3, <3>4 DEF PlacedInv
  <2>6. CASE WriteDownloads
    <3>1. /\ rec'.pc = rec.pc /\ rec'.name = rec.name /\ rec'.spec = rec.spec
          /\ \A a \in Atoms : kids'[a].routes = kids[a].routes /\ Filled(a) \subseteq Filled(a)'
      BY <2>6, PlaceFilled
    <3>2. PICK p \in rec.pend : rec'.pend = rec.pend \ {p} /\ Groups[p].index + 1 \in Filled(rec.name)'
      BY <2>6, PlaceFilled
    <3>3. Groups' = Groups
      BY <3>1 DEF Groups
    <3>4. \A a \in Atoms : Rules(a)' = Rules(a)
      BY <3>1 DEF Rules
    <3>5. rec.pc = "downloads" /\ rec.name \in Atoms
      BY <2>0, <2>6 DEF WriteDownloads, ConfigsInv
    <3>6. ASSUME NEW q \in DOMAIN Groups \ rec'.pend PROVE Groups[q].index + 1 \in Filled(rec.name)'
      <4>1. CASE q = p
        BY <3>2, <4>1
      <4>2. CASE q # p
        <5>1. Groups[q].index + 1 \in Filled(rec.name)
          BY <3>2, <3>5, <3>6, <4>2 DEF PlacedInv
        <5>2. Filled(rec.name) \subseteq {i \in 1 .. Len(kids'[rec.name].downloads) :
                                             kids'[rec.name].downloads[i] # NoObj}
          BY <3>1, <3>5 DEF Filled
        <5> QED
          BY <3>1, <5>1, <5>2 DEF Filled
      <4> QED
        BY <4>1, <4>2
    <3>7. \A a \in Atoms : \A r \in Rules(a) : r.backend = "storage" => 1 .. r.downloads \subseteq Filled(a)'
      BY <3>1 DEF PlacedInv
    <3> QED
      BY <3>3, <3>4, <3>6, <3>7 DEF PlacedInv
  <2>7. CASE WriteIngressRoute
    <3> DEFINE content == mutateIngressRoute(rec.spec)
               n == Cardinality(DOMAIN GroupsOf(rec.spec))
    <3>1. rec.pc = "downloads" /\ rec.pend = {} /\ Write("routes", content, Idle) /\ Idle.pc = "idle"
      BY <2>7 DEF WriteIngressRoute, Idle
    <3>2. rec.name \in Atoms /\ rec.spec \in Specs[rec.name]
      BY <2>0, <3>1 DEF RequestsInv, CallInv, ConfigsInv
    <3>3. 1 .. n \subseteq Filled(rec.name)
      <4> SUFFICES ASSUME NEW i \in 1 .. n PROVE i \in Filled(rec.name)
        OBVIOUS
      <4>1. n \in 0 .. MaxGroups
        BY <3>2, GroupsOfSpec
      <4>2. i - 1 \in 0 .. (n - 1)
        BY <4>1 DEF MaxGroups
      <4>3. PICK p \in DOMAIN GroupsOf(rec.spec) : GroupsOf(rec.spec)[p].index = i - 1
        BY <3>2, <4>2, GroupsOfSpec
      <4>4. Groups[p].index + 1 \in Filled(rec.name)
        BY <3>1, <4>3 DEF PlacedInv, Groups
      <4>5. Groups[p].index + 1 = i
        BY <4>1, <4>3 DEF Groups, MaxGroups
      <4> QED
        BY <4>4, <4>5
    <3>4. \A r \in content : r.backend = "storage" => r.downloads = n
      BY RuleKinds DEF getDefaultRule, Rule
    <3> HIDE DEF content, n
    <3>5. /\ \A a \in Atoms : a # rec.name => kids'[a] = kids[a]
          /\ kids'[rec.name].routes = content
          /\ kids'[rec.name].downloads = kids[rec.name].downloads /\ rec' = Idle
      BY <2>0, <3>1, WriteEffect
    <3>6. ASSUME NEW a \in Atoms, NEW r \in Rules(a)', r.backend = "storage"
          PROVE  1 .. r.downloads \subseteq Filled(a)'
      <4>1. CASE a = rec.name
        <5>1. r \in content
          BY <3>5, <3>6, <4>1 DEF Rules
        <5>2. Filled(a)' = Filled(a)
          BY <3>5, <4>1 DEF Filled
        <5> QED
          BY <3>3, <3>4, <3>6, <4>1, <5>1, <5>2
      <4>2. CASE a # rec.name
        <5>1. Filled(a)' = Filled(a) /\ Rules(a)' = Rules(a)
          BY <3>5, <4>2 DEF Filled, Rules
        <5> QED
          BY <3>6, <5>1 DEF PlacedInv
      <4> QED
        BY <4>1, <4>2
    <3> QED
      BY <3>1, <3>5, <3>6 DEF PlacedInv
  <2>8. ASSUME NEW a \in Atoms, NEW s \in Specs[a], Apply(a, s) PROVE PlacedInv'
    BY <2>1, <2>8 DEF Apply
  <2>9. ASSUME NEW a \in Atoms, Reconcile(a) PROVE PlacedInv'
    BY <2>1, <2>9 DEF Reconcile
  <2>10. ASSUME NEW a \in Atoms, StartPod(a) \/ StopPod(a) PROVE PlacedInv'
    BY <2>1, <2>10 DEF StartPod, StopPod
  <2>11. CASE Stop
    BY <2>1, <2>11 DEF Stop, Idle
  <2>12. CASE UNCHANGED vars
    BY <2>1, <2>12 DEF vars
  <2> QED
    BY <2>3, <2>4, <2>5, <2>6, <2>7, <2>8, <2>9, <2>10, <2>11, <2>12 DEF Next
<1> QED
  BY <1>1, <1>2, RequestsInvariant, PTL DEF Spec
-----------------------------------------------------------------------------
(* Downloads *)

\* What each rewrite keeps within bounds, their fold does.
LEMMA FoldThrough ==
    ASSUME NEW path, NEW seq, NEW n \in Nat, DOMAIN seq = 1 .. n, NEW I, path \in I[0],
           \A i \in 1 .. n : \A q \in I[i - 1] : Rewrite(q, seq[i]) \in I[i]
    PROVE  Rewritten(path, seq) \in I[n]
<1>0. PICK r : Steps(path, seq, n, r)
  BY FoldSteps
<1>1. /\ r[0] = path
      /\ \A i \in 1 .. n : r[i] = Rewrite(r[i - 1], seq[i])
      /\ Rewritten(path, seq) = r[n]
  BY <1>0 DEF Steps
<1> DEFINE out == {i \in 0 .. n : r[i] \notin I[i]}
           m == Min(out)
<1> SUFFICES ASSUME out # {} PROVE FALSE
  BY <1>1
<1>2. out \in SUBSET Nat
  OBVIOUS
<1>3. m \in out /\ \A i \in out : m <= i
  <2> HIDE DEF out
  <2> QED
    BY <1>2, LeastNatural
<1> HIDE DEF m
<1>4. m # 0
  BY <1>1, <1>3
<1>5. m \in 1 .. n /\ m - 1 \in 0 .. n /\ ~ m <= m - 1
  BY <1>3, <1>4
<1>6. r[m - 1] \in I[m - 1]
  BY <1>3, <1>5
<1> QED
  BY <1>1, <1>3, <1>5, <1>6

\* The rule of an Atom that is for its downloads has all its middlewares.
LEMMA ServedDownload ==
    ASSUME RequestsInv, PlacedInv, NEW a \in Atoms, NEW r \in Rules(a), r.backend = "storage", NEW path
    PROVE  LET used == SubSeq(kids[a].downloads, 1, r.downloads)
           IN  /\ r.downloads \in Nat /\ DOMAIN used = 1 .. r.downloads
               /\ \A i \in 1 .. r.downloads : used[i] = kids[a].downloads[i] /\ Made(a, used[i])
               /\ Serve(a, r, path) = {Answer("storage", Rewritten(path, used))}
<1> DEFINE d == kids[a].downloads
           n == r.downloads
           used == SubSeq(d, 1, n)
<1>1. n \in Nat
  <2>1. PICK s \in Specs[a] : r \in mutateIngressRoute(s)
    BY Routed
  <2>2. r.downloads = Cardinality(DOMAIN GroupsOf(s))
    BY <2>1, RuleKinds DEF getDefaultRule, Rule
  <2> QED
    BY <2>2, GroupsOfSpec DEF MaxGroups
<1>2. 1 .. n \subseteq Filled(a)
  BY DEF PlacedInv
<1>3. /\ Len(d) \in Nat /\ d = [i \in 1 .. Len(d) |-> d[i]]
      /\ \A i \in 1 .. Len(d) : d[i] = NoObj \/ Made(a, d[i])
  <2>1. DownloadsInv
    BY DEF RequestsInv
  <2>2. /\ Len(d) \in 0 .. MaxGroups /\ d = [i \in 1 .. Len(d) |-> d[i]]
        /\ \A i \in 1 .. Len(d) : d[i] = NoObj \/ Made(a, d[i])
    BY <2>1 DEF DownloadsInv
  <2> HIDE DEF d
  <2> QED
    BY <2>2 DEF MaxGroups
<1>4. \A i \in 1 .. n : i \in 1 .. Len(d) /\ d[i] # NoObj /\ Made(a, d[i])
  BY <1>2, <1>3 DEF Filled
<1>5. n <= Len(d)
  BY <1>1, <1>3, <1>4
<1> HIDE DEF d, n
<1>6. DOMAIN used = 1 .. n /\ \A i \in 1 .. n : used[i] = d[i]
  <2>1. d \in Seq(Range(d))
    <3>1. \A i \in 1 .. Len(d) : d[i] \in Range(d)
      BY <1>3 DEF Range
    <3> QED
      BY <1>3, <3>1
  <2> QED
    BY <1>1, <1>3, <1>5, <2>1
<1>7. NoObj \notin Range(used)
  BY <1>4, <1>6 DEF Range
<1>8. Serve(a, r, path) = IF Len(d) < n \/ NoObj \in Range(used) THEN {NotFound}
                          ELSE {Answer("storage", Rewritten(path, used))}
  BY DEF Serve, Rewritten, d, n
<1> HIDE DEF used
<1>9. ~ Len(d) < n
  BY <1>1, <1>3, <1>5
<1>10. Serve(a, r, path) = {Answer("storage", Rewritten(path, used))}
  BY <1>7, <1>8, <1>9
<1> QED
  BY <1>1, <1>4, <1>6, <1>10 DEF used, d, n

\* The download middlewares of different specs of an Atom may be mixed while
\* createOrUpdateAllForAtom (atom_controller.go:203) writes them one by one, but the rules
\* name no more than there are, and a download goes to its own blob or to no blob at all.
\* So for Atoms whose users keep them apart.
THEOREM NeverAnotherBlob == ASSUME Apart PROVE Spec => []NeverWrongBlob
<1>1. RequestsInv /\ PlacedInv => NeverWrongBlob
  <2> SUFFICES ASSUME RequestsInv, PlacedInv, NEW a \in Atoms, atoms[a] # NoObj,
                      NEW rule \in Rules(a), rule.backend = "storage",
                      NEW link \in Range(GetDownloadLinks(atoms[a])), ~ Moves(a, link)
               PROVE  Answers(URL(rule.host, Append(rule.path, GetBlobName(link)))) \subseteq
                         {Answer("storage", link.data),
                          Answer("storage", Append(rule.path, GetBlobName(link)))}
    BY DEF NeverWrongBlob
  <2> DEFINE x == GetBlobName(link)
             path == Append(rule.path, x)
             req == URL(rule.host, path)
             P == {path, link.data}
  <2>1. atoms[a] \in Specs[a]
    BY DEF RequestsInv, CallInv
  <2>2. PICK s \in Specs[a] : rule \in mutateIngressRoute(s)
    BY Routed
  <2>3. PICK u \in URLs(s) : rule.host = u.host /\ rule.path = Append(u.path, Downloads)
    BY <2>2, RuleKinds DEF getDefaultRule, Rule
  <2>4. path = Append(Append(u.path, Downloads), x) /\ req = URL(u.host, path) /\ req.path = path
    BY <2>3 DEF URL
  <2>5. ASSUME NEW m, Made(a, m) PROVE \A q \in P : Rewrite(q, m) \in P
    <3>1. PICK t \in Specs[a] : \E p \in DOMAIN GroupsOf(t) :
                                   m = mutateDownloadLinkMiddleware(t, p, GroupsOf(t)[p].files)
      BY <2>5 DEF Made
    <3>2. PICK p \in DOMAIN GroupsOf(t) : m = mutateDownloadLinkMiddleware(t, p, GroupsOf(t)[p].files)
      BY <3>1
    <3>3. m.paths = Paths(RoutedURLs(t)) /\ m.prefix = p /\ m.files = NamesIn(LinksIn(t), p)
      BY <3>2, GroupsOfSpec DEF mutateDownloadLinkMiddleware
    <3>4. Rewrite(link.data, m) = link.data
      BY <2>1, <3>3, RewriteOfBlob
    <3>5. \/ Rewrite(path, m) = path
          \/ (\E file \in m.files : IsPrefix(file, x)) /\ Rewrite(path, m) = m.prefix \o <<x>>
      BY <2>4, <3>3, RewriteOfDownload
    <3>6. ASSUME NEW file \in m.files, IsPrefix(file, x) PROVE m.prefix = GetBlobPrefix(link)
      <4>1. PICK l \in LinksIn(t) : GetBlobPrefix(l) = p /\ GetBlobName(l) = file
        BY <3>3 DEF NamesIn
      <4>2. l \in UNION {Range(GetDownloadLinks(w)) : w \in Specs[a]}
        BY <4>1, LinksFlat
      <4>3. <<file, p>> \in Places[a]
        BY <4>1, <4>2 DEF Places
      <4> QED
        BY <3>3, <3>6, <4>3 DEF Moves
    <3>7. GetBlobPrefix(link) \o <<x>> = link.data
      BY <2>1, LinkData
    <3> HIDE DEF path, x
    <3>8. Rewrite(path, m) \in P
      BY <3>5, <3>6, <3>7
    <3> QED
      BY <3>4, <3>8
  <2>6. ASSUME NEW r \in Rules(a), r.backend = "storage"
        PROVE  Serve(a, r, path) \subseteq {Answer("storage", q) : q \in P}
    <3> DEFINE used == SubSeq(kids[a].downloads, 1, r.downloads)
               n == r.downloads
               I == [i \in 0 .. n |-> P]
    <3>1. /\ n \in Nat /\ DOMAIN used = 1 .. n
          /\ \A i \in 1 .. n : Made(a, used[i])
          /\ Serve(a, r, path) = {Answer("storage", Rewritten(path, used))}
      <4> HIDE DEF path
      <4> QED
        BY <2>6, ServedDownload
    <3>2. path \in I[0] /\ I[n] = P
      <4>1. n \in Nat /\ path \in P
        BY <3>1
      <4> HIDE DEF n, P
      <4>2. 0 \in 0 .. n /\ n \in 0 .. n
        BY <4>1
      <4> QED
        BY <4>1, <4>2
    <3>3. \A i \in 1 .. n : \A q \in I[i - 1] : Rewrite(q, used[i]) \in I[i]
      <4> SUFFICES ASSUME NEW i \in 1 .. n, NEW q \in I[i - 1] PROVE Rewrite(q, used[i]) \in I[i]
        OBVIOUS
      <4>1. I[i - 1] = P /\ I[i] = P
        <5>1. n \in Nat
          BY <3>1
        <5> HIDE DEF n, P
        <5>2. i - 1 \in 0 .. n /\ i \in 0 .. n
          BY <5>1
        <5> QED
          BY <5>2
      <4>2. Made(a, used[i])
        BY <3>1
      <4> HIDE DEF I, P, used
      <4>3. Rewrite(q, used[i]) \in P
        BY <2>5, <4>1, <4>2
      <4> QED
        BY <4>1, <4>3
    <3> HIDE DEF I, used, n, P, path
    <3>4. Rewritten(path, used) \in I[n]
      BY <3>1, <3>2, <3>3, FoldThrough
    <3> QED
      BY <3>1, <3>2, <3>4
  <2>7. ASSUME NEW b \in Atoms, NEW r \in Rules(b), Matches(r, req)
        PROVE  b = a /\ r.backend = "storage"
    <3>1. req = URL(u.host, Append(Append(u.path, Downloads), x))
      BY <2>4
    <3> HIDE DEF req, x
    <3>2. Matches(r, URL(u.host, Append(Append(u.path, Downloads), x))) => b = a /\ r.backend = "storage"
      BY MatchingRules
    <3> QED
      BY <2>7, <3>1, <3>2
  <2> HIDE DEF req
  <2>8. Answers(req) \subseteq {Answer("storage", q) : q \in P}
    <3> SUFFICES ASSUME NEW answer \in Answers(req) PROVE answer \in {Answer("storage", q) : q \in P}
      OBVIOUS
    <3>1. PICK b \in Atoms : \E r \in Rules(b) : Matches(r, req) /\ answer \in Serve(b, r, req.path)
      BY AnswersOf
    <3>2. PICK r \in Rules(b) : Matches(r, req) /\ answer \in Serve(b, r, req.path)
      BY <3>1
    <3>3. b = a /\ r.backend = "storage"
      BY <2>7, <3>2
    <3> HIDE DEF P, path
    <3> QED
      BY <2>4, <2>6, <3>2, <3>3
  <2> QED
    BY <2>8 DEF req
<1> QED
  BY <1>1, RequestsInvariant, PlacedInvariant, PTL
-----------------------------------------------------------------------------
(* The links of the published feeds *)

LEMMA SeqConcat ==
    ASSUME NEW p, IsSeq(p), NEW q, IsSeq(q)
    PROVE  /\ IsSeq(p \o q) /\ Range(p \o q) = Range(p) \cup Range(q)
           /\ Tail_(p, p \o q) = q
<1> DEFINE S == Range(p) \cup Range(q)
           r == p \o q
           m == Len(p)
           n == Len(q)
<1>1. p \in Seq(S) /\ q \in Seq(S)
  BY SeqOfMore DEF IsSeq
<1> HIDE DEF S
<1>2. m \in Nat /\ n \in Nat
  BY <1>1
<1>3. /\ r \in Seq(S) /\ Len(r) = m + n
      /\ \A i \in 1 .. n : r[m + i] = q[i]
  <2>1. /\ r \in Seq(S) /\ Len(r) = m + n
        /\ \A i \in 1 .. Len(r) : r[i] = IF i <= m THEN p[i] ELSE q[i - m]
    BY <1>1, ConcatProperties
  <2> HIDE DEF r, m, n
  <2>2. ASSUME NEW i \in 1 .. n PROVE r[m + i] = q[i]
    <3>1. m + i \in 1 .. Len(r) /\ ~ m + i <= m /\ (m + i) - m = i
      BY <1>2, <2>1
    <3> QED
      BY <2>1, <3>1
  <2> QED
    BY <2>1, <2>2
<1>4. Range(r) = Range(p) \cup Range(q)
  BY <1>1, RangeConcatenation
<1>5. IsSeq(r)
  BY <1>3, SeqOfRange DEF IsSeq
<1> HIDE DEF r
<1>6. SubSeq(r, m + 1, m + n) = q
  <2> HIDE DEF m, n
  <2>1. /\ SubSeq(r, m + 1, m + n) \in Seq(S) /\ Len(SubSeq(r, m + 1, m + n)) = n
        /\ \A i \in 1 .. n : SubSeq(r, m + 1, m + n)[i] = r[m + i]
    BY <1>2, <1>3
  <2>2. \A i \in 1 .. n : SubSeq(r, m + 1, m + n)[i] = q[i]
    BY <1>3, <2>1
  <2> QED
    BY <1>1, <2>1, <2>2, SeqEqual DEF n
<1> QED
  BY <1>3, <1>4, <1>5, <1>6 DEF Tail_, r

LEMMA SeqOne ==
    ASSUME NEW x
    PROVE  IsSeq(<<x>>) /\ Range(<<x>>) = {x}
<1>1. DOMAIN <<x>> = {1} /\ <<x>>[1] = x
  OBVIOUS
<1>2. Range(<<x>>) = {x}
  BY <1>1 DEF Range
<1> QED
  BY <1>2 DEF IsSeq

\* Links to metadata lead elsewhere.
LEMMA MetadataLinks ==
    ASSUME NEW m, m # None => IsSeq(m.templates), NEW onlyCSW
    PROVE  /\ IsSeq(addMetadataLinks(m, onlyCSW))
           /\ \A link \in Range(addMetadataLinks(m, onlyCSW)) :
                 ~ IsDownload(link) /\ link.rel \notin {"self", "up", "alternate"}
<1>1. CASE m = None
  <2>1. addMetadataLinks(m, onlyCSW) = <<>>
    BY <1>1 DEF addMetadataLinks
  <2>2. Range(<<>>) = {} /\ IsSeq(<<>>)
    BY DEF Range, IsSeq
  <2> QED
    BY <2>1, <2>2
<1>2. CASE m # None
  <2> DEFINE csw  == {i \in DOMAIN m.templates : m.templates[i] = "csw"}
             upto == IF onlyCSW /\ csw # {} THEN Min(csw) ELSE Len(m.templates)
             links == [i \in 1 .. upto |-> MetadataLink(m, m.templates[i])]
  <2>1. addMetadataLinks(m, onlyCSW) = links
    BY <1>2 DEF addMetadataLinks
  <2>2. upto \in Nat
    <3>1. Len(m.templates) \in Nat /\ csw \in SUBSET Nat
      BY <1>2 DEF IsSeq
    <3>2. csw # {} => Min(csw) \in Nat
      <4> HIDE DEF csw
      <4> QED
        BY <3>1, LeastNatural
    <3> QED
      BY <3>1, <3>2
  <2> HIDE DEF upto
  <2>3. \A template : /\ ~ IsDownload(MetadataLink(m, template))
                      /\ MetadataLink(m, template).rel \notin {"self", "up", "alternate"}
    BY DEF MetadataLink, Link, IsDownload
  <2>4. IsSeq(links)
    <3>1. \A i \in 1 .. upto : links[i] \in Range(links)
      BY DEF Range
    <3>2. links = [i \in 1 .. upto |-> links[i]]
      OBVIOUS
    <3> HIDE DEF links
    <3> QED
      BY <2>2, <3>1, <3>2 DEF IsSeq
  <2>5. \A link \in Range(links) : \E i \in 1 .. upto : link = MetadataLink(m, m.templates[i])
    BY DEF Range
  <2> QED
    BY <2>1, <2>3, <2>4, <2>5
<1> QED
  BY <1>1, <1>2

Documents(s) == {IndexXML} \cup {FeedXML(f.name) : f \in Range(s.feeds)}

\* Where an Atom's own links lead: to one of its documents or to one of its blobs.
LeadsHome(s, link) ==
    \/ /\ ~ IsDownload(link)
       /\ \E document \in Documents(s) : link.href = JoinPath(s.base, <<document>>)
    \/ /\ IsDownload(link)
       /\ \E l \in Range(GetDownloadLinks(s)) : link.data = l.data /\ link.href = getDownloadLinkHref(s, l)

Own(link) == IsDownload(link) \/ link.rel \in {"self", "up", "alternate"}

LEMMA LinkKinds ==
    ASSUME NEW s, NEW rel, NEW document \in Documents(s)
    PROVE  LeadsHome(s, Link(rel, JoinPath(s.base, <<document>>)))
BY DEF LeadsHome, Link, IsDownload

LEMMA ServiceLinks ==
    ASSUME NEW a \in Atoms, NEW s \in Specs[a], NEW link, Own(link)
    PROVE  /\ link \in Range(ServiceFeed(s).links) => LeadsHome(s, link)
           /\ \A entry \in Range(ServiceFeed(s).entries) : link \in Range(entry.links) => LeadsHome(s, link)
<1>1. ASSUME link \in Range(ServiceFeed(s).links) PROVE LeadsHome(s, link)
  <2> DEFINE meta == addMetadataLinks(s.meta, FALSE)
  <2>1. s.meta # None => IsSeq(s.meta.templates)
    BY SequencesAssumption
  <2>2. IsSeq(meta) /\ link \notin Range(meta)
    BY <2>1, MetadataLinks DEF Own
  <2>3. ServiceFeed(s).links = <<getSelfLink(s)>> \o meta
    BY DEF ServiceFeed
  <2> HIDE DEF meta
  <2>4. Range(<<getSelfLink(s)>> \o meta) = {getSelfLink(s)} \cup Range(meta)
    BY <2>2, SeqOne, SeqConcat
  <2>5. link = getSelfLink(s)
    BY <1>1, <2>2, <2>3, <2>4
  <2>6. IndexXML \in Documents(s)
    BY DEF Documents
  <2> QED
    BY <2>5, <2>6, LinkKinds DEF getSelfLink, IndexURL
<1>2. ASSUME NEW entry \in Range(ServiceFeed(s).entries), link \in Range(entry.links)
      PROVE  LeadsHome(s, link)
  <2>1. PICK i \in DOMAIN s.feeds : entry = getServiceEntries(s)[i]
    BY <1>2, ServiceEntryIds DEF ServiceFeed, Range
  <2> DEFINE feed == s.feeds[i]
             meta == addMetadataLinks(feed.meta, TRUE)
             last == Link("alternate", FeedURL(s, feed.name))
  <2>2. entry.links = Append(meta, last)
    BY <2>1 DEF getServiceEntries
  <2>3. feed \in Range(s.feeds)
    BY DEF Range
  <2> HIDE DEF feed
  <2>4. feed.meta # None => IsSeq(feed.meta.templates)
    BY <2>3, SequencesAssumption
  <2>5. IsSeq(meta) /\ link \notin Range(meta)
    BY <2>4, MetadataLinks DEF Own
  <2> HIDE DEF meta, last
  <2>6. /\ DOMAIN Append(meta, last) = 1 .. (Len(meta) + 1) /\ Len(meta) \in Nat
        /\ \A j \in 1 .. Len(meta) : Append(meta, last)[j] = meta[j]
        /\ Append(meta, last)[Len(meta) + 1] = last /\ DOMAIN meta = 1 .. Len(meta)
    <3>1. IsSeq(Append(meta, last)) /\ Len(Append(meta, last)) = Len(meta) + 1
      BY <2>5, SeqAppend
    <3>2. DOMAIN Append(meta, last) = 1 .. (Len(meta) + 1)
      BY <3>1 DEF IsSeq
    <3> QED
      BY <2>5, <3>2, SeqAppend
  <2>7. link = last
    <3>1. PICK j \in 1 .. (Len(meta) + 1) : link = Append(meta, last)[j]
      BY <1>2, <2>2, <2>6 DEF Range
    <3>2. j \in 1 .. Len(meta) \/ j = Len(meta) + 1
      BY <2>6
    <3>3. j \notin 1 .. Len(meta)
      BY <2>5, <2>6, <3>1 DEF Range
    <3> QED
      BY <2>6, <3>1, <3>2, <3>3
  <2>8. FeedXML(feed.name) \in Documents(s)
    BY <2>3 DEF Documents
  <2> QED
    BY <2>7, <2>8, LinkKinds DEF last, FeedURL
<1> QED
  BY <1>1, <1>2

LEMMA DatasetLinks ==
    ASSUME OtherRels, NEW a \in Atoms, NEW s \in Specs[a], NEW feed \in Range(s.feeds),
           NEW link, Own(link)
    PROVE  /\ link \in Range(DatasetFeed(s, feed).links) => LeadsHome(s, link)
           /\ \A entry \in Range(DatasetFeed(s, feed).entries) : link \in Range(entry.links) => LeadsHome(s, link)
<1>1. ASSUME link \in Range(DatasetFeed(s, feed).links) PROVE LeadsHome(s, link)
  <2> DEFINE self == Link("self", FeedURL(s, feed.name))
             up   == Link("up", IndexURL(s))
             meta == addMetadataLinks(feed.meta, FALSE)
  <2>1. (feed.meta # None => IsSeq(feed.meta.templates)) /\ IsSeq(feed.links)
    BY SequencesAssumption
  <2>2. IsSeq(meta) /\ link \notin Range(meta)
    BY <2>1, MetadataLinks DEF Own
  <2>3. link \notin Range(feed.links)
    <3>1. s \in UNION {Specs[b] : b \in Atoms}
      OBVIOUS
    <3> QED
      BY <3>1 DEF OtherRels, Own, IsDownload
  <2>4. DatasetFeed(s, feed).links = <<self, up>> \o meta \o feed.links
    BY DEF DatasetFeed, getDatasetLinks
  <2> HIDE DEF self, up, meta
  <2>5. IsSeq(<<self, up>>) /\ Range(<<self, up>>) = {self, up}
    <3>1. DOMAIN <<self, up>> = {1, 2} /\ <<self, up>>[1] = self /\ <<self, up>>[2] = up
      OBVIOUS
    <3>2. Range(<<self, up>>) = {self, up}
      BY <3>1 DEF Range
    <3> QED
      BY <3>2 DEF IsSeq
  <2>6. IsSeq(<<self, up>> \o meta) /\ Range(<<self, up>> \o meta) = {self, up} \cup Range(meta)
    BY <2>2, <2>5, SeqConcat
  <2>7. Range(<<self, up>> \o meta \o feed.links) = {self, up} \cup Range(meta) \cup Range(feed.links)
    BY <2>1, <2>6, SeqConcat
  <2>8. link = self \/ link = up
    BY <1>1, <2>2, <2>3, <2>4, <2>7
  <2>9. IndexXML \in Documents(s) /\ FeedXML(feed.name) \in Documents(s)
    BY DEF Documents
  <2> QED
    BY <2>8, <2>9, LinkKinds DEF self, up, FeedURL, IndexURL
<1>2. ASSUME NEW entry \in Range(DatasetFeed(s, feed).entries), link \in Range(entry.links)
      PROVE  LeadsHome(s, link)
  <2>1. PICK j \in DOMAIN feed.entries : entry = getDatasetEntries(s, feed)[j]
    <3>1. entry \in Range(getDatasetEntries(s, feed))
      BY FeedParts
    <3>2. DOMAIN getDatasetEntries(s, feed) = DOMAIN feed.entries
      BY EntryIds
    <3> QED
      BY <3>1, <3>2 DEF Range
  <2> DEFINE links == feed.entries[j].links
  <2>2. PICK i \in DOMAIN links : link = entry.links[i]
    BY <1>2, <2>1 DEF getDatasetEntries, Range
  <2>3. /\ IsDownload(link) /\ link.data = links[i].data
        /\ link.href = getDownloadLinkHref(s, links[i])
    BY <2>1, <2>2 DEF getDatasetEntries, IsDownload
  <2>4. links[i] \in LinksIn(s)
    BY DEF LinksIn, Range
  <2>5. links[i] \in Range(GetDownloadLinks(s))
    BY <2>4, LinksFlat
  <2> QED
    BY <2>3, <2>5 DEF LeadsHome
<1> QED
  BY <1>1, <1>2

LEMMA OwnLinksLeadHome ==
    ASSUME OtherRels, NEW s \in Admitted,
           NEW link \in OwnLinks(MapAtomV3ToAtomGeneratorConfig(s))
    PROVE  LeadsHome(s, link)
<1> DEFINE config == MapAtomV3ToAtomGeneratorConfig(s)
<1>1. PICK a \in Atoms : s \in Specs[a]
  BY DEF Admitted
<1>2. Own(link) /\ link \in Links(config)
  BY DEF OwnLinks, Own
<1>3. DOMAIN s.feeds = 1 .. Len(s.feeds) /\ Len(s.feeds) \in Nat
  BY <1>1, SequencesAssumption DEF IsSeq
<1>4. /\ DOMAIN config = 1 .. (Len(s.feeds) + 1)
      /\ config[1] = ServiceFeed(s)
      /\ \A i \in 1 .. Len(s.feeds) : config[i + 1] = DatasetFeed(s, s.feeds[i])
  BY ConfigParts
<1> HIDE DEF config
<1>5. PICK feed \in Range(config) :
         \/ link \in Range(feed.links)
         \/ \E entry \in Range(feed.entries) : link \in Range(entry.links)
  BY <1>2 DEF Links
<1>6. feed = ServiceFeed(s) \/ \E f \in Range(s.feeds) : feed = DatasetFeed(s, f)
  <2>1. PICK i \in 1 .. (Len(s.feeds) + 1) : feed = config[i]
    BY <1>4 DEF Range
  <2>2. CASE i = 1
    BY <1>4, <2>1, <2>2
  <2>3. CASE i # 1
    <3> DEFINE n == Len(s.feeds)
               k == i - 1
    <3>1. k \in 1 .. n /\ k + 1 = i
      <4>1. n \in Nat /\ i \in 1 .. (n + 1)
        BY <1>3
      <4> HIDE DEF n
      <4> QED
        BY <2>3, <4>1
    <3> HIDE DEF k
    <3>2. s.feeds[k] \in Range(s.feeds)
      BY <1>3, <3>1 DEF Range
    <3> QED
      BY <1>4, <2>1, <3>1, <3>2
  <2> QED
    BY <2>2, <2>3
<1> QED
  BY <1>1, <1>2, <1>5, <1>6, ServiceLinks, DatasetLinks
-----------------------------------------------------------------------------
(* Links that resolve *)

LEMMA AppendTwo ==
    ASSUME NEW p, IsSeq(p), NEW d, NEW x
    PROVE  p \o <<d, x>> = Append(Append(p, d), x)
<1> DEFINE S == Range(p) \cup {d, x}
<1>1. p \in Seq(S) /\ d \in S /\ x \in S
  BY SeqOfMore DEF IsSeq
<1> HIDE DEF S
<1>2. <<d>> \in Seq(S) /\ <<x>> \in Seq(S) /\ Append(p, d) \in Seq(S)
  BY <1>1
<1>3. <<d, x>> = <<d>> \o <<x>>
  <2>1. Append(<<d>>, x) = <<d, x>>
    <3> DEFINE q == Append(<<d>>, x)
               r == <<d, x>>
    <3>1. q \in Seq(S) /\ Len(q) = 2 /\ q[1] = d /\ q[2] = x
      <4>1. Len(<<d>>) = 1 /\ <<d>>[1] = d
        OBVIOUS
      <4>2. /\ q \in Seq(S) /\ Len(q) = Len(<<d>>) + 1
            /\ \A i \in 1 .. Len(<<d>>) : q[i] = <<d>>[i]
            /\ q[Len(<<d>>) + 1] = x
        BY <1>1, <1>2, AppendProperties
      <4> HIDE DEF q
      <4> QED
        BY <4>1, <4>2
    <3>2. r \in Seq(S) /\ Len(r) = 2 /\ r[1] = d /\ r[2] = x
      BY <1>1
    <3> HIDE DEF q, r
    <3>3. \A i \in 1 .. Len(q) : q[i] = r[i]
      <4>1. \A i \in 1 .. Len(q) : i = 1 \/ i = 2
        BY <3>1
      <4> QED
        BY <3>1, <3>2, <4>1
    <3>4. q = r
      BY <3>1, <3>2, <3>3, SeqEqual
    <3> QED
      BY <3>4 DEF q, r
  <2> QED
    BY <1>1, <1>2, <2>1, AppendIsConcat
<1>4. p \o (<<d>> \o <<x>>) = (p \o <<d>>) \o <<x>>
  BY <1>1, <1>2, ConcatAssociative
<1>5. p \o <<d>> = Append(p, d)
  BY <1>1, AppendIsConcat
<1>6. Append(p, d) \o <<x>> = Append(Append(p, d), x)
  BY <1>1, <1>2, AppendIsConcat
<1> QED
  BY <1>3, <1>4, <1>5, <1>6

\* A link of a feed, whose href is below the base URL, asked for at another URL.
LEMMA AskedFor ==
    ASSUME NEW a \in Atoms, NEW s \in Specs[a], NEW u \in URLs(s), NEW x
    PROVE  /\ LET href == JoinPath(s.base, <<x>>)
              IN  /\ JoinPath(u, Tail_(s.base.path, href.path)) = URL(u.host, Append(u.path, x))
                  /\ Last(href.path) = x
           /\ LET href == JoinPath(s.base, <<Downloads, x>>)
              IN  JoinPath(u, Tail_(s.base.path, href.path)) =
                     URL(u.host, Append(Append(u.path, Downloads), x))
<1>1. u = URL(u.host, u.path) /\ IsSeq(u.path)
  BY URLShape
<1>2. s.base = URL(s.base.host, s.base.path) /\ IsSeq(s.base.path)
  BY SequencesAssumption DEF IsURL
<1>3. \A e : /\ JoinPath(u, e) = URL(u.host, u.path \o e)
             /\ JoinPath(s.base, e) = URL(s.base.host, s.base.path \o e)
  <2>1. \A h, p, e : JoinPath(URL(h, p), e) = URL(h, p \o e)
    <3> SUFFICES ASSUME NEW h, NEW p, NEW e, NEW q, q = p \o e
                 PROVE  JoinPath(URL(h, p), e) = URL(h, q)
      OBVIOUS
    <3>1. JoinPath(URL(h, p), e) = [URL(h, p) EXCEPT !.path = q]
      BY DEF JoinPath, URL
    <3> QED
      BY <3>1 DEF URL
  <2>2. \A e : JoinPath(URL(u.host, u.path), e) = URL(u.host, u.path \o e)
    BY <2>1
  <2>3. \A e : JoinPath(URL(s.base.host, s.base.path), e) = URL(s.base.host, s.base.path \o e)
    BY <2>1
  <2>4. URL(u.host, u.path) = u /\ URL(s.base.host, s.base.path) = s.base
    BY <1>1, <1>2
  <2>5. \A e : JoinPath(u, e) = URL(u.host, u.path \o e)
    BY <2>2, <2>4
  <2>6. \A e : JoinPath(s.base, e) = URL(s.base.host, s.base.path \o e)
    BY <2>3, <2>4
  <2> QED
    BY <2>5, <2>6
<1>4. \A v, e : URL(v, e).path = e
  BY DEF URL
<1>5. \A p : IsSeq(p) => p \o <<x>> = Append(p, x)
  <2> SUFFICES ASSUME NEW p, IsSeq(p) PROVE p \o <<x>> = Append(p, x)
    OBVIOUS
  <2> DEFINE S == Range(p) \cup {x}
  <2>1. p \in Seq(S) /\ x \in S
    BY SeqOfMore DEF IsSeq
  <2> HIDE DEF S
  <2> QED
    BY <2>1, AppendIsConcat
<1>6. \A p : IsSeq(p) => p \o <<Downloads, x>> = Append(Append(p, Downloads), x)
  BY AppendTwo
<1>7. IsSeq(<<x>>) /\ IsSeq(<<Downloads, x>>)
  <2>1. DOMAIN <<Downloads, x>> = {1, 2}
    OBVIOUS
  <2>2. <<Downloads, x>> \in Seq(Range(<<Downloads, x>>))
    BY <2>1 DEF Range
  <2> QED
    BY <2>2, SeqOne DEF IsSeq
<1>8. ASSUME NEW e, IsSeq(e)
      PROVE  JoinPath(u, Tail_(s.base.path, JoinPath(s.base, e).path)) = URL(u.host, u.path \o e)
  <2>1. JoinPath(s.base, e).path = s.base.path \o e
    BY <1>3, <1>4
  <2>2. Tail_(s.base.path, s.base.path \o e) = e
    BY <1>2, <1>8, SeqConcat
  <2> QED
    BY <1>3, <2>1, <2>2
<1>9. Last(JoinPath(s.base, <<x>>).path) = x
  <2>1. JoinPath(s.base, <<x>>).path = s.base.path \o <<x>>
    BY <1>3, <1>4
  <2>2. s.base.path \o <<x>> = Append(s.base.path, x)
    BY <1>2, <1>5
  <2> QED
    BY <1>2, <2>1, <2>2, FrontAndLast
<1> QED
  BY <1>1, <1>5, <1>6, <1>7, <1>8, <1>9

\* The files of a config are the documents of its spec.
LEMMA FilesOfConfig ==
    ASSUME NEW a \in Atoms, NEW s \in Specs[a], s \in Admitted, NEW document \in Documents(s)
    PROVE  document \in Files(MapAtomV3ToAtomGeneratorConfig(s))
<1> DEFINE config == MapAtomV3ToAtomGeneratorConfig(s)
<1>1. DOMAIN s.feeds = 1 .. Len(s.feeds) /\ Len(s.feeds) \in Nat
  BY SequencesAssumption DEF IsSeq
<1>2. /\ DOMAIN config = 1 .. (Len(s.feeds) + 1)
      /\ config[1] = ServiceFeed(s)
      /\ \A i \in 1 .. Len(s.feeds) : config[i + 1] = DatasetFeed(s, s.feeds[i])
  BY ConfigParts
<1>3. PICK i \in DOMAIN config : config[i].id = JoinPath(s.base, <<document>>)
  <2> HIDE DEF config
  <2>1. CASE document = IndexXML
    <3>1. 1 \in DOMAIN config
      BY <1>1, <1>2
    <3>2. config[1].id = JoinPath(s.base, <<document>>)
      BY <1>2, <2>1 DEF ServiceFeed, IndexURL
    <3> QED
      BY <3>1, <3>2
  <2>2. ASSUME NEW f \in Range(s.feeds), document = FeedXML(f.name)
        PROVE  \E i \in DOMAIN config : config[i].id = JoinPath(s.base, <<document>>)
    <3>1. PICK k \in 1 .. Len(s.feeds) : f = s.feeds[k]
      BY <1>1 DEF Range
    <3>2. k + 1 \in DOMAIN config
      BY <1>1, <1>2
    <3>3. config[k + 1].id = JoinPath(s.base, <<document>>)
      BY <1>2, <2>2, <3>1, FeedParts
    <3> QED
      BY <3>2, <3>3
  <2> QED
    BY <2>1, <2>2 DEF Documents
<1> HIDE DEF config
<1>4. \E u : u \in URLs(s)
  <2>1. DOMAIN <<s.base>> = {1}
    OBVIOUS
  <2>2. IsSeq(s.routes)
    BY SequencesAssumption
  <2>3. s.routes # <<>> => DOMAIN s.routes # {}
    <3> DEFINE n == Len(s.routes)
    <3>1. s.routes # <<>> => n \in Nat \ {0}
      BY <2>2, EmptySeq DEF IsSeq
    <3>2. DOMAIN s.routes = 1 .. n
      BY <2>2 DEF IsSeq
    <3> HIDE DEF n
    <3>3. s.routes # <<>> => 1 \in 1 .. n
      BY <3>1
    <3> QED
      BY <3>2, <3>3
  <2> QED
    BY <2>1, <2>3 DEF URLs, RoutedURLs, Range
<1>5. Last(config[i].id.path) = document
  BY <1>3, <1>4, AskedFor
<1> QED
  BY <1>5 DEF Files, config
\* A request is answered as one of the rules that match it says, if they all agree.
LEMMA OnlyAnswer ==
    ASSUME NEW req, NEW answer, NEW a \in Atoms, NEW rule \in Rules(a), Matches(rule, req),
           \A b \in Atoms : \A r \in Rules(b) : Matches(r, req) => Serve(b, r, req.path) = {answer}
    PROVE  Answers(req) = {answer}
<1>1. answer \in Answers(req)
  BY AnswersOf
<1>2. \A other \in Answers(req) : other = answer
  BY AnswersOf
<1> QED
  BY <1>1, <1>2

LEMMA SettledSpec ==
    ASSUME RequestsInv, NEW a \in Atoms, Settled(a)
    PROVE  /\ atoms[a] \in Specs[a] /\ atoms[a] \in Admitted
           /\ kids[a].config = MapAtomV3ToAtomGeneratorConfig(atoms[a]) /\ pods[a] = {kids[a].config}
           /\ kids[a].strip = mutateStripPrefixMiddleware(atoms[a])
           /\ kids[a].routes = mutateIngressRoute(atoms[a])
           /\ Rules(a) = mutateIngressRoute(atoms[a])
           /\ \A p \in DOMAIN GroupsOf(atoms[a]) :
                 kids[a].downloads[GroupsOf(atoms[a])[p].index + 1] =
                    mutateDownloadLinkMiddleware(atoms[a], p, GroupsOf(atoms[a])[p].files)
<1>1. atoms[a] \in Specs[a] /\ atoms[a] \in Admitted
  BY DEF Settled, RequestsInv, ConfigsInv, CallInv
<1>2. mutateIngressRoute(atoms[a]) # NoObj
  BY <1>1, NoObjAssumption
<1> QED
  BY <1>1, <1>2 DEF Settled, Rules

LEMMA DocumentResolves ==
    ASSUME Apart, RequestsInv, NEW a \in Atoms, Settled(a), NEW u \in URLs(atoms[a]),
           ~ Nested(kids[a].strip, u.path), NEW document \in Documents(atoms[a])
    PROVE  Answers(URL(u.host, Append(u.path, document))) = {Answer(a, <<document>>)}
<1> DEFINE s == atoms[a]
           path == Append(u.path, document)
           req == URL(u.host, path)
           rule == getDefaultRule(u, document)
<1>1. /\ s \in Specs[a] /\ s \in Admitted
      /\ kids[a].config = MapAtomV3ToAtomGeneratorConfig(s) /\ pods[a] = {kids[a].config}
      /\ kids[a].strip = mutateStripPrefixMiddleware(s)
      /\ kids[a].routes = mutateIngressRoute(s) /\ Rules(a) = mutateIngressRoute(s)
  BY SettledSpec
<1> HIDE DEF s
<1>2. rule \in Rules(a)
  BY <1>1 DEF mutateIngressRoute, getRoutesForURL, Documents, URLs, s
<1>3. ReadyFor(a, URLs(s))
  <2>1. PICK t \in Specs[a] : Rules(a) = mutateIngressRoute(t) /\ ReadyFor(a, URLs(t))
    BY <1>2, Routed
  <2>2. kids[a].strip # NoObj /\ kids[a].service = TRUE
    BY <2>1 DEF ReadyFor
  <2>3. \A v \in URLs(s) : v.path \in Range(kids[a].strip)
    BY <1>1, StripShape
  <2> QED
    BY <2>2, <2>3 DEF ReadyFor
<1>4. Matches(rule, req)
  BY DEF Matches, getDefaultRule, Rule, URL
<1>5. document \in Files(kids[a].config)
  BY <1>1, FilesOfConfig DEF s
<1>6. ASSUME NEW b \in Atoms, NEW r \in Rules(b), Matches(r, req)
      PROVE  Serve(b, r, req.path) = {Answer(a, <<document>>)}
  <2>1. b = a /\ r.backend = "service"
    <3>1. u \in URLs(s)
      BY DEF s
    <3> QED
      BY <1>1, <1>6, <3>1, MatchingRules
  <2>2. u.path \in Range(kids[a].strip) /\ kids[a].service = TRUE /\ kids[a].strip # NoObj
    BY <1>3 DEF ReadyFor, s
  <2>3. pods[a] # {} /\ \A config \in pods[a] : document \in Files(config)
    BY <1>1, <1>5
  <2>4. Serve(a, r, path) = {Answer(a, <<document>>)}
    <3>1. u.path \in Range(kids[a].strip) /\ ~ Nested(kids[a].strip, u.path)
      BY <2>2
    <3>2. \A w : w.backend = "service" =>
                    Serve(a, w, Append(u.path, document)) = {Answer(a, <<document>>)}
      BY <1>1, <2>2, <2>3, <3>1, ServedDocument
    <3> QED
      BY <2>1, <3>2
  <2>5. req.path = path
    BY DEF URL
  <2> QED
    BY <2>1, <2>4, <2>5
<1> HIDE DEF req, rule
<1>7. Answers(req) = {Answer(a, <<document>>)}
  BY <1>2, <1>4, <1>6, OnlyAnswer
<1> QED
  BY <1>7 DEF req

LEMMA DownloadResolves ==
    ASSUME Apart, RequestsInv, PlacedInv, NEW a \in Atoms, Settled(a), NEW u \in URLs(atoms[a]),
           NEW link \in Range(GetDownloadLinks(atoms[a])), ~ Shadowed(atoms[a], link)
    PROVE  Answers(URL(u.host, Append(Append(u.path, Downloads), GetBlobName(link))))
              = {Answer("storage", link.data)}
<1> DEFINE s == atoms[a]
           x == GetBlobName(link)
           path == Append(Append(u.path, Downloads), x)
           req == URL(u.host, path)
           groups == GroupsOf(s)
           n == Cardinality(DOMAIN groups)
           prefix == GetBlobPrefix(link)
           k == groups[prefix].index + 1
           rule == Rule(u.host, "PathPrefix", Append(u.path, Downloads), "storage", n)
           m(p) == mutateDownloadLinkMiddleware(s, p, groups[p].files)
<1>1. /\ s \in Specs[a] /\ Rules(a) = mutateIngressRoute(s)
      /\ \A p \in DOMAIN groups : kids[a].downloads[groups[p].index + 1] = m(p)
  BY SettledSpec
<1>2. /\ DOMAIN groups = PrefixesIn(LinksIn(s))
      /\ \A p \in DOMAIN groups : groups[p].files = NamesIn(LinksIn(s), p)
      /\ n \in Nat
      /\ \A p \in DOMAIN groups : groups[p].index \in 0 .. (n - 1)
      /\ \A p, q \in DOMAIN groups : groups[p].index = groups[q].index => p = q
      /\ \A i \in 0 .. (n - 1) : \E p \in DOMAIN groups : groups[p].index = i
  <2> HIDE DEF s
  <2>1. n \in 0 .. MaxGroups
    BY <1>1, GroupsOfSpec
  <2>2. n \in Nat
    BY <2>1 DEF MaxGroups
  <2> QED
    BY <1>1, <2>2, GroupsOfSpec
<1>3. u \in URLs(s) /\ link \in Range(GetDownloadLinks(s)) /\ ~ Shadowed(s, link)
  OBVIOUS
<1> HIDE DEF s
<1>4. link \in LinksIn(s) /\ prefix \in DOMAIN groups /\ x \in groups[prefix].files
  <2>1. link \in LinksIn(s)
    BY <1>1, <1>3, LinksFlat
  <2>2. prefix \in PrefixesIn(LinksIn(s)) /\ x \in NamesIn(LinksIn(s), prefix)
    BY <2>1 DEF PrefixesIn, NamesIn
  <2> QED
    BY <1>2, <2>1, <2>2
<1>5. IsPrefix(x, x) /\ prefix \o <<x>> = link.data
  BY <1>1, <1>3, LinkData, PrefixOfAppend
<1>6. rule \in Rules(a) /\ Matches(rule, req)
  <2>1. rule \in Rules(a)
    BY <1>1, <1>3 DEF mutateIngressRoute, getRoutesForURL, URLs, Downloads
  <2>2. IsSeq(Append(u.path, Downloads))
    BY <1>1, <1>3, URLShape, SeqAppend
  <2>3. IsStrictPrefix(Append(u.path, Downloads), path)
    BY <2>2, PrefixOfAppend
  <2>4. /\ rule.host = u.host /\ rule.kind = "PathPrefix" /\ rule.path = Append(u.path, Downloads)
        /\ req.host = u.host /\ req.path = path
    BY DEF Rule, URL
  <2>5. Matches(rule, req)
    <3> HIDE DEF rule, req, path
    <3> QED
      BY <2>3, <2>4 DEF Matches, Under
  <2> QED
    BY <2>1, <2>5
<1>7. ASSUME NEW p \in DOMAIN groups
      PROVE  /\ groups[p].index + 1 < k => Rewrite(path, m(p)) = path
             /\ p = prefix => Rewrite(path, m(p)) = link.data
             /\ Rewrite(link.data, m(p)) = link.data
  <2>1. m(p).paths = Paths(RoutedURLs(s)) /\ m(p).files = groups[p].files /\ m(p).prefix = p
    BY DEF mutateDownloadLinkMiddleware
  <2> HIDE DEF m
  <2>2. Rewrite(link.data, m(p)) = link.data
    BY <1>1, <1>3, <2>1, RewriteOfBlob
  <2>3. LET known == \E file \in m(p).files : IsPrefix(file, x)
        IN  /\ Rewrite(path, m(p)) = path \/ (known /\ Rewrite(path, m(p)) = m(p).prefix \o <<x>>)
            /\ u \in URLs(s) /\ known => Rewrite(path, m(p)) = m(p).prefix \o <<x>>
    <3> HIDE DEF x
    <3>1. \A w : w.paths = Paths(RoutedURLs(s)) =>
                    LET known == \E file \in w.files : IsPrefix(file, x)
                    IN  /\ Rewrite(path, w) = path \/ (known /\ Rewrite(path, w) = w.prefix \o <<x>>)
                        /\ u \in URLs(s) /\ known => Rewrite(path, w) = w.prefix \o <<x>>
      BY <1>1, <1>3, RewriteOfDownload
    <3> HIDE DEF path
    <3> QED
      BY <2>1, <3>1
  <2>4. ASSUME groups[p].index + 1 < k PROVE Rewrite(path, m(p)) = path
    <3>1. groups[p].index \in 0 .. (n - 1) /\ groups[prefix].index \in 0 .. (n - 1)
      BY <1>2, <1>4
    <3>2. groups[p].index < groups[prefix].index
      <4> DEFINE i == groups[p].index
                 j == groups[prefix].index
      <4>1. i + 1 < j + 1
        BY <2>4
      <4> HIDE DEF i, j, n
      <4>2. i < j
        BY <1>2, <3>1, <4>1 DEF i, j
      <4> QED
        BY <4>2 DEF i, j
    <3>3. ~ \E file \in groups[p].files : IsPrefix(file, x)
      BY <1>3, <3>2 DEF Shadowed
    <3> HIDE DEF path, x
    <3> QED
      BY <2>1, <2>3, <3>3
  <2>5. ASSUME p = prefix PROVE Rewrite(path, m(p)) = link.data
    <3>1. \E file \in m(p).files : IsPrefix(file, x)
      BY <1>4, <1>5, <2>1, <2>5
    <3> HIDE DEF path, x, prefix
    <3> QED
      BY <1>3, <1>5, <2>1, <2>3, <2>5, <3>1
  <2> QED
    BY <2>2, <2>4, <2>5
<1>8. k \in 1 .. n
  <2> DEFINE i == groups[prefix].index
  <2>1. i \in 0 .. (n - 1) /\ n \in Nat /\ k = i + 1
    BY <1>2, <1>4
  <2> HIDE DEF i, n, k
  <2> QED
    BY <2>1
<1>9. ASSUME NEW r \in Rules(a), r.backend = "storage"
      PROVE  Serve(a, r, path) = {Answer("storage", link.data)}
  <2> DEFINE used == SubSeq(kids[a].downloads, 1, r.downloads)
             I == [i \in 0 .. n |-> IF i < k THEN {path} ELSE {link.data}]
  <2>1. r.downloads = n
    BY <1>1, <1>9, RuleKinds DEF getDefaultRule, Rule
  <2>2. /\ DOMAIN used = 1 .. n
        /\ \A i \in 1 .. n : used[i] = kids[a].downloads[i]
        /\ Serve(a, r, path) = {Answer("storage", Rewritten(path, used))}
    <3> HIDE DEF path, n
    <3> QED
      BY <1>9, <2>1, ServedDownload
  <2> HIDE DEF used, n, k, path, m, groups, prefix
  <2>3. \A i \in 0 .. n : I[i] = IF i < k THEN {path} ELSE {link.data}
    OBVIOUS
  <2> HIDE DEF I
  <2>4. path \in I[0] /\ I[n] = {link.data}
    BY <1>2, <1>8, <2>3
  <2>5. ASSUME NEW i \in 1 .. n PROVE \A q \in I[i - 1] : Rewrite(q, used[i]) \in I[i]
    <3>1. i - 1 \in 0 .. (n - 1) /\ i \in 0 .. n /\ i - 1 \in 0 .. n
      BY <1>2
    <3>2. PICK p \in DOMAIN groups : groups[p].index = i - 1
      BY <1>2, <3>1
    <3>3. groups[p].index + 1 = i
      BY <3>1, <3>2
    <3>4. used[i] = m(p)
      BY <1>1, <2>2, <3>3
    <3>5. CASE i < k
      <4>1. I[i - 1] = {path} /\ I[i] = {path}
        BY <1>8, <2>3, <3>1, <3>5
      <4> QED
        BY <1>7, <3>3, <3>4, <3>5, <4>1
    <3>6. CASE i = k
      <4>1. I[i - 1] = {path} /\ I[i] = {link.data}
        BY <1>8, <2>3, <3>1, <3>6
      <4>2. p = prefix
        <5>1. groups[prefix].index \in 0 .. (n - 1) /\ groups[prefix].index + 1 = k
          BY <1>2, <1>4 DEF k
        <5>2. groups[prefix].index = groups[p].index
          BY <1>2, <3>1, <3>2, <3>6, <5>1
        <5> QED
          BY <1>2, <1>4, <5>2
      <4> QED
        BY <1>7, <3>4, <4>1, <4>2
    <3>7. CASE ~ i < k /\ i # k
      <4>1. I[i - 1] = {link.data} /\ I[i] = {link.data}
        BY <1>8, <2>3, <3>1, <3>7
      <4> QED
        BY <1>7, <3>4, <4>1
    <3> QED
      BY <3>5, <3>6, <3>7
  <2>6. Rewritten(path, used) \in I[n]
    BY <1>2, <2>2, <2>4, <2>5, FoldThrough
  <2> QED
    BY <2>2, <2>4, <2>6
<1>10. ASSUME NEW b \in Atoms, NEW r \in Rules(b), Matches(r, req)
       PROVE  Serve(b, r, req.path) = {Answer("storage", link.data)}
  <2>1. b = a /\ r.backend = "storage"
    BY <1>1, <1>3, <1>10, MatchingRules
  <2>2. req.path = path
    BY DEF URL
  <2> HIDE DEF req, path
  <2> QED
    BY <1>9, <2>1, <2>2
<1> HIDE DEF req, rule
<1>11. Answers(req) = {Answer("storage", link.data)}
  BY <1>6, <1>10, OnlyAnswer
<1> QED
  BY <1>11 DEF req

\* What the mapper links to (mapper.go:71 and 295) and what the builders route
\* (ingressroute.go, middleware.go) agree once a spec is rolled out: every own link of the
\* feeds leads to its feed or to its blob, at each of the Atom's URLs.  So for Atoms whose
\* users keep them apart, and give no relation to their links that the mapper gives.
THEOREM OwnLinksResolve == ASSUME Apart, OtherRels PROVE Spec => []LinksResolve
<1>1. RequestsInv /\ PlacedInv => LinksResolve
  <2> SUFFICES ASSUME RequestsInv, PlacedInv, NEW a \in Atoms, Settled(a),
                      NEW u \in Range(RoutedURLs(atoms[a])), NEW link \in OwnLinks(kids[a].config)
               PROVE  LET s       == atoms[a]
                          answers == Answers(JoinPath(u, Tail_(s.base.path, link.href.path)))
                      IN  IF IsDownload(link)
                          THEN ~ Shadowed(s, link) => answers = {Answer("storage", link.data)}
                          ELSE ~ Nested(kids[a].strip, u.path) =>
                                  answers = {Answer(a, <<Last(link.href.path)>>)}
    BY DEF LinksResolve
  <2> DEFINE s == atoms[a]
             answers == Answers(JoinPath(u, Tail_(s.base.path, link.href.path)))
  <2>1. /\ s \in Specs[a] /\ s \in Admitted /\ kids[a].config = MapAtomV3ToAtomGeneratorConfig(s)
        /\ u \in URLs(s)
    BY SettledSpec DEF URLs
  <2>2. LeadsHome(s, link)
    BY <2>1, OwnLinksLeadHome
  <2>3. ASSUME NEW document \in Documents(s), link.href = JoinPath(s.base, <<document>>),
               ~ Nested(kids[a].strip, u.path)
        PROVE  answers = {Answer(a, <<Last(link.href.path)>>)}
    <3>1. /\ JoinPath(u, Tail_(s.base.path, link.href.path)) = URL(u.host, Append(u.path, document))
          /\ Last(link.href.path) = document
      BY <2>1, <2>3, AskedFor
    <3>2. Answers(URL(u.host, Append(u.path, document))) = {Answer(a, <<document>>)}
      BY <2>1, <2>3, DocumentResolves
    <3> QED
      BY <3>1, <3>2
  <2>4. ASSUME NEW l \in Range(GetDownloadLinks(s)), link.data = l.data,
               link.href = getDownloadLinkHref(s, l), ~ Shadowed(s, link)
        PROVE  answers = {Answer("storage", link.data)}
    <3>1. link.href = JoinPath(s.base, <<Downloads, GetBlobName(l)>>)
      BY <2>4 DEF getDownloadLinkHref, Downloads
    <3>2. JoinPath(u, Tail_(s.base.path, link.href.path)) =
             URL(u.host, Append(Append(u.path, Downloads), GetBlobName(l)))
      BY <2>1, <3>1, AskedFor
    <3>3. ~ Shadowed(s, l)
      <4>1. GetBlobPrefix(l) = GetBlobPrefix(link) /\ GetBlobName(l) = GetBlobName(link)
        BY <2>4 DEF GetBlobPrefix, GetBlobName
      <4> QED
        BY <2>4, <4>1 DEF Shadowed
    <3>4. Answers(URL(u.host, Append(Append(u.path, Downloads), GetBlobName(l)))) = {Answer("storage", l.data)}
      BY <2>1, <3>3, DownloadResolves
    <3> QED
      BY <2>4, <3>2, <3>4
  <2> QED
    BY <2>2, <2>3, <2>4 DEF LeadsHome
<1> QED
  BY <1>1, RequestsInvariant, PlacedInvariant, PTL
=============================================================================
