--------------------------- MODULE AtomConversion ---------------------------
(***************************************************************************)
(* An Atom in two versions: v2beta1, the spoke, and v3, the hub, which is  *)
(* stored (api/v2beta1/atom_conversion.go).  Users of v2beta1 apply their  *)
(* manifests, and read an Atom and write it back, maybe with an edit;      *)
(* users of v3 write v3.  The API server that converts between them is     *)
(* external.                                                               *)
(*                                                                         *)
(* A v3 Atom is a spec of AtomFeeds with more fields.  A title stands for  *)
(* title, subtitle and rights, labels for all metadata; a rel that is nil  *)
(* or empty is None.                                                       *)
(***************************************************************************)
EXTENDS AtomFeeds, Integers

CONSTANTS
    NoObj,        \* no Atom, or no view of it
    Panic,        \* the view of a reader whose request panicked
    Host,         \* the host of the base URL the operator was started with
    Beheer,       \* the author that is filled in
    Bad,          \* a time or a URL that cannot be parsed
    Empty,        \* the empty string
    ZeroBox,      \* the zero value of a bounding box
    Rounded,      \* the float32 box that a box in decimal notation is read as
    HalfRange,    \* an int32 lies between -HalfRange and HalfRange - 1
    Manifests,    \* the v2beta1 Atoms that users apply
    Hubs,         \* the v3 Atoms that users apply
    Edits,        \* the edits that users of v2beta1 make, a field and its value
    MaxNow        \* bound on the clock

Boxes == Range(Rounded)

IsSeqOf(seq, Is(_)) == /\ Len(seq) \in Nat /\ DOMAIN seq = 1 .. Len(seq)
                       /\ \A i \in DOMAIN seq : Is(seq[i])

-----------------------------------------------------------------------------
(* The types of v2beta1 and v3 *)

IsLinkV2(l) == /\ DOMAIN l = {"blobKey", "updated", "version", "bbox", "rel"}
               /\ l.blobKey # None
               /\ l.bbox \in Boxes \cup {None}

IsOtherLink(l) == DOMAIN l = {"type", "uri", "contentType", "language"} /\ l.type # None

IsDownloadV2(d) == /\ DOMAIN d = {"name", "title", "updated", "content", "links", "srs"}
                   /\ d.updated \in Nat \cup {None, Bad}
                   /\ IsSeqOf(d.links, IsLinkV2)

IsDataset(dataset) ==
    /\ DOMAIN dataset = {"name", "title", "meta", "source", "links", "downloads", "bbox"}
    /\ dataset.bbox \in Boxes
    /\ dataset.source # None
    /\ IsSeqOf(dataset.links, IsOtherLink)
    /\ IsSeqOf(dataset.downloads, IsDownloadV2)

IsGeneral(g) == DOMAIN g = {"dataset", "owner", "theme", "version"}

IsManifest(m) ==
    /\ DOMAIN m = {"labels", "general", "title", "meta", "author", "updated", "datasets", "ttl"}
    /\ IsGeneral(m.general) /\ IsGeneral(m.labels)
    /\ IsSeqOf(m.datasets, IsDataset)
    /\ m.updated \in Nat \cup {None, Bad}
    /\ m.ttl = None \/ m.ttl \in Int

IsDownloadLink(l) == /\ DOMAIN l = {"data", "time", "bbox", "rel"}
                     /\ l.bbox \in DOMAIN Rounded \cup {None}
                     /\ l.data # None

IsEntry(e) == /\ DOMAIN e = {"name", "title", "content", "updated", "srs", "bbox", "links"}
              /\ e.bbox \in DOMAIN Rounded
              /\ e.updated \in Nat
              /\ IsSeqOf(e.links, IsDownloadLink)

IsLinkV3(l) == DOMAIN l = {"rel", "title", "href", "type", "hreflang"}

IsFeed(f) == /\ DOMAIN f = {"name", "title", "meta", "author", "source", "links", "entries"}
             /\ IsSeqOf(f.links, IsLinkV3)
             /\ IsSeqOf(f.entries, IsEntry)

IsHub(s) ==
    /\ DOMAIN s = {"labels", "ttl", "base", "routes", "lang", "title", "owner", "meta", "feeds"}
    /\ IsGeneral(s.labels)
    /\ IsSeqOf(s.feeds, IsFeed)
    /\ s.ttl = None \/ s.ttl \in -HalfRange .. (HalfRange - 1)

\* A float32 is written as the shortest decimal that is read as it.
ASSUME ConversionAssumption ==
    /\ Boxes \subseteq DOMAIN Rounded /\ ZeroBox \in Boxes
    /\ \A box \in Boxes : Rounded[box] = box
    /\ HalfRange \in Nat \ {0}
    /\ MaxNow \in Nat
    /\ None \notin DOMAIN Rounded \cup Int \cup {Empty} /\ Bad \notin Nat
    /\ \A m \in Manifests : IsManifest(m)
    /\ \A s \in Hubs : IsHub(s)
    /\ \A edit \in Edits : \/ edit[1] = "ttl" /\ edit[2] \in Int
                           \/ edit[1] = "title"

VARIABLES
    stored,      \* the stored v3 Atom
    manifest,    \* the v2beta1 Atom that it was converted from
    view,        \* what a user of v2beta1 has read of it
    now          \* the clock

vars == <<stored, manifest, view, now>>

-----------------------------------------------------------------------------
(* From v2beta1 to v3 *)

\* int32(x)
Int32(x) == ((x + HalfRange) % (2 * HalfRange)) - HalfRange

Optional(x) == IF x = None THEN <<>> ELSE <<<<x>>>>

\* JoinPath leaves out what is empty.
Segment(x) == IF x = Empty THEN <<>> ELSE <<<<x>>>>

createBaseURL(g) ==
    URL(Host, Segment(g.owner) \o Segment(g.dataset) \o Optional(g.theme)
              \o <<<<"atom">>>> \o Optional(g.version))

ToLink(l) == [rel      |-> "describedby",
              title    |-> l.type,
              href     |-> l.uri,
              type     |-> IF l.contentType = None THEN Empty ELSE l.contentType,
              hreflang |-> l.language]

ToDownloadLink(l) == [data |-> IF l.blobKey = None THEN Empty ELSE l.blobKey,
                      time |-> l.updated,
                      bbox |-> l.bbox,
                      rel  |-> l.rel]

\* Mutant: that a time cannot be parsed is not noticed.
ToUpdated_Unparsed(m, d, at) ==
    LET updated == IF d.updated # None THEN d.updated ELSE m.updated
    IN  IF updated = None THEN at ELSE updated

\* The download's time, or the deprecated one of the service; without any that can be
\* parsed, the time of the conversion.
ToUpdated(m, d, at) ==
    LET updated == IF d.updated # None THEN d.updated ELSE m.updated
    IN  IF updated \in {None, Bad} THEN at ELSE updated

\* Mutant: an entry has the bounding box of its first link, if that has one.
ToEntry_Link(m, dataset, d, at) ==
    [name    |-> d.name,
     title   |-> d.title,
     content |-> d.content,
     updated |-> ToUpdated(m, d, at),
     srs     |-> d.srs,
     bbox    |-> IF d.links # <<>> /\ d.links[1].bbox # None THEN d.links[1].bbox ELSE dataset.bbox,
     links   |-> [i \in DOMAIN d.links |-> ToDownloadLink(d.links[i])]]

ToEntry(m, dataset, d, at) ==
    [name    |-> d.name,
     title   |-> d.title,
     content |-> d.content,
     updated |-> ToUpdated(m, d, at),
     srs     |-> d.srs,
     bbox    |-> dataset.bbox,
     links   |-> [i \in DOMAIN d.links |-> ToDownloadLink(d.links[i])]]

ToFeed(m, dataset, at) ==
    [name    |-> dataset.name,
     title   |-> dataset.title,
     meta    |-> [id |-> dataset.meta, templates |-> <<"csw", "html">>],
     author  |-> m.author,
     source  |-> dataset.source,
     links   |-> [i \in DOMAIN dataset.links |-> ToLink(dataset.links[i])],
     entries |-> [i \in DOMAIN dataset.downloads |-> ToEntry(m, dataset, dataset.downloads[i], at)]]

\* Title stands for title, subtitle and rights; labels for all of the metadata.
ToV3(m, at) ==
    [labels |-> m.labels,
     ttl    |-> IF m.ttl = None THEN None ELSE Int32(m.ttl),
     base   |-> createBaseURL(m.general),
     routes |-> <<>>,
     lang   |-> "nl",
     title  |-> m.title,
     owner  |-> "pdok",
     meta   |-> [id |-> m.meta, templates |-> <<"csw", "opensearch", "html">>],
     feeds  |-> [i \in DOMAIN m.datasets |-> ToFeed(m, m.datasets[i], at)]]

\* ToV3 returns an error when a URL cannot be parsed.
Parses(m) ==
    \A dataset \in Range(m.datasets) : /\ \A l \in Range(dataset.links) : l.uri # Bad
                                       /\ \A d \in Range(dataset.downloads) : d.srs # Bad

-----------------------------------------------------------------------------
(* From v3 to v2beta1 *)

FromLink(l) == [type |-> IF l.title = None THEN Empty ELSE l.title,
                uri |-> l.href, contentType |-> l.type, language |-> l.hreflang]

FromDownloadLink(l) == [blobKey |-> l.data,
                        updated |-> l.time,
                        version |-> None,
                        bbox    |-> IF l.bbox = None THEN None ELSE Rounded[l.bbox],
                        rel     |-> l.rel]

\* Mutant: the time is left to the service, which has none any more.
FromEntry_NoTime(e) ==
    [name |-> e.name, title |-> e.title, content |-> e.content, updated |-> None, srs |-> e.srs,
     links |-> [i \in DOMAIN e.links |-> FromDownloadLink(e.links[i])]]

FromEntry(e) ==
    [name |-> e.name, title |-> e.title, content |-> e.content, updated |-> e.updated, srs |-> e.srs,
     links |-> [i \in DOMAIN e.links |-> FromDownloadLink(e.links[i])]]

\* A dataset without entries keeps the zero value.
FromFeed(f) ==
    [name      |-> f.name,
     title     |-> f.title,
     meta      |-> f.meta.id,
     source    |-> IF f.source = None THEN Empty ELSE f.source,
     bbox      |-> IF f.entries = <<>> THEN ZeroBox ELSE Rounded[f.entries[1].bbox],
     links     |-> [i \in DOMAIN f.links |-> FromLink(f.links[i])],
     downloads |-> [i \in DOMAIN f.entries |-> FromEntry(f.entries[i])]]

\* A label that is not there reads as the empty string.
General(labels) == [dataset |-> IF labels.dataset = None THEN Empty ELSE labels.dataset,
                    owner   |-> IF labels.owner = None THEN Empty ELSE labels.owner,
                    theme   |-> labels.theme,
                    version |-> labels.version]

\* Mutant: only a ttl above zero is a ttl.
ConvertFrom_Zero(s) ==
    [labels   |-> s.labels,
     general  |-> General(s.labels),
     title    |-> s.title,
     meta     |-> s.meta.id,
     author   |-> Beheer,
     updated  |-> None,
     datasets |-> [i \in DOMAIN s.feeds |-> FromFeed(s.feeds[i])],
     ttl      |-> IF s.ttl = None \/ s.ttl <= 0 THEN None ELSE s.ttl]

ConvertFrom(s) ==
    [labels   |-> s.labels,
     general  |-> General(s.labels),
     title    |-> s.title,
     meta     |-> s.meta.id,
     author   |-> Beheer,
     updated  |-> None,
     datasets |-> [i \in DOMAIN s.feeds |-> FromFeed(s.feeds[i])],
     ttl      |-> s.ttl]

\* Metadata links are optional in v3, and dereferenced.
Dereferences(s) == s.meta # None /\ \A f \in Range(s.feeds) : f.meta # None

-----------------------------------------------------------------------------
(* The life of an Atom *)

Init == /\ stored = NoObj
        /\ manifest = NoObj
        /\ view = NoObj
        /\ now = 0

Store(s, m) ==
    /\ stored' = s
    /\ manifest' = m
    /\ view' = NoObj
    /\ UNCHANGED now

Apply(m) == Parses(m) /\ Store(ToV3(m, now), m)

ApplyV3(s) == Store(s, NoObj)

Read ==
    /\ stored # NoObj
    /\ view = NoObj
    /\ view' = IF Dereferences(stored) THEN ConvertFrom(stored) ELSE Panic
    /\ UNCHANGED <<stored, manifest, now>>

\* A view carries the resourceVersion that was read, so it cannot be written back once
\* the Atom has been written by others: Store forgets it.
WriteBack ==
    /\ view \notin {NoObj, Panic}
    /\ Store(ToV3(view, now), view)

Edited(m, edit) == [m EXCEPT ![edit[1]] = edit[2]]

EditBack(edit) ==
    /\ view \notin {NoObj, Panic}
    /\ Store(ToV3(Edited(view, edit), now), Edited(view, edit))

Tick ==
    /\ now < MaxNow
    /\ now' = now + 1
    /\ UNCHANGED <<stored, manifest, view>>

Next == \/ \E m \in Manifests : Apply(m)
        \/ \E s \in Hubs : ApplyV3(s)
        \/ \E edit \in Edits : EditBack(edit)
        \/ Read \/ WriteBack \/ Tick

Spec == Init /\ [][Next]_vars

-----------------------------------------------------------------------------
(* Properties *)

\* What is stored has the form of a v3 Atom, and a user of v2beta1 sees the form of one
\* of v2beta1.
ConversionTypeOK ==
    /\ stored # NoObj => IsHub(stored)
    /\ manifest # NoObj => stored # NoObj
    /\ view \notin {NoObj, Panic} => IsManifest(view)
    /\ now \in 0 .. MaxNow

\* What v2beta1 and v3 have in common; times are compared apart.
KeptDownload(d) ==
    [name |-> d.name, title |-> d.title, content |-> d.content, srs |-> d.srs,
     links |-> [i \in DOMAIN d.links |->
                   <<d.links[i].blobKey, d.links[i].updated, d.links[i].bbox, d.links[i].rel>>]]

KeptDataset(dataset) ==
    [name |-> dataset.name, title |-> dataset.title, meta |-> dataset.meta, source |-> dataset.source,
     bbox |-> IF Len(dataset.downloads) = 0 THEN ZeroBox ELSE dataset.bbox,
     links |-> [i \in DOMAIN dataset.links |->
                   <<dataset.links[i].type, dataset.links[i].uri, dataset.links[i].language>>],
     downloads |-> [i \in DOMAIN dataset.downloads |-> KeptDownload(dataset.downloads[i])]]

Kept(m) == [labels |-> m.labels, title |-> m.title, meta |-> m.meta,
            datasets |-> [i \in DOMAIN m.datasets |-> KeptDataset(m.datasets[i])]]

\* The times at which the downloads of a manifest were updated, Bad if unknown.
Times(m) == [i \in DOMAIN m.datasets |->
                [j \in DOMAIN m.datasets[i].downloads |-> ToUpdated(m, m.datasets[i].downloads[j], Bad)]]

InRange(ttl)    == ttl = None \/ ttl \in -HalfRange .. (HalfRange - 1)
LabelsAgree(m)  == m.general = General(m.labels)

\* Who applies a v2beta1 Atom and reads it back gets it back: the two conversions agree on
\* where each field went.  The ttl only if it is an int32, the general part only if the
\* labels repeat it, times only if they were there.
ReadsBack ==
    manifest # NoObj /\ view # NoObj =>
        /\ view # Panic
        /\ Kept(view) = Kept(manifest)
        /\ InRange(manifest.ttl) => view.ttl = manifest.ttl
        /\ LabelsAgree(manifest) => view.general = manifest.general
        /\ \A i \in DOMAIN Times(manifest) : \A j \in DOMAIN Times(manifest)[i] :
              Times(manifest)[i][j] \in {Bad, Times(view)[i][j]}

\* Users of v2beta1 that read an Atom of theirs and write it back, now or later, change
\* nothing but what they edit, and the author: no field is lost on the way there and back,
\* and the time of the conversion does not get in.
WithAuthor(s) == [s EXCEPT !.feeds = [i \in DOMAIN s.feeds |-> [s.feeds[i] EXCEPT !.author = Beheer]]]

WriteBackKeeps ==
    [][manifest # NoObj /\ LabelsAgree(manifest) =>
          /\ WriteBack => stored' = WithAuthor(stored)
          /\ \A edit \in Edits : EditBack(edit) /\ (edit[1] = "ttl" => InRange(edit[2])) =>
                stored' = Edited(WithAuthor(stored), edit)]_vars

\* What the mapper assumes of the entries of a dataset feed is true of converted Atoms:
\* the polygon it takes from the first entry is that of all.
ConvertedPolygonsAgree ==
    manifest # NoObj =>
        LET config == MapAtomV3ToAtomGeneratorConfig(stored)
        IN  \A i \in 1 .. (Len(config) - 1) : \A e \in Range(config[i + 1].entries) :
                e.polygon = config[1].entries[i].polygon
=============================================================================
