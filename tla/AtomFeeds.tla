------------------------------ MODULE AtomFeeds ------------------------------
(***************************************************************************)
(* The generator config: what MapAtomV3ToAtomGeneratorConfig               *)
(* (internal/controller/generator/mapper.go) makes of an Atom.  It is the  *)
(* list of feeds that the Atom publishes, with their entries and links.    *)
(*                                                                         *)
(* A URL is a host and a path, a path is a sequence of segments, and a     *)
(* segment is a sequence of the parts of a name, so that one name can be a *)
(* proper beginning of another one ("roads.gml", "roads.gml.zip").         *)
(***************************************************************************)
EXTENDS Naturals, Sequences, FiniteSets, SequencesExt

CONSTANT None    \* an optional field that is not there

(***************************************************************************)
(* A spec: base is service.baseUrl; routes is ingressRouteUrls, empty if   *)
(* absent; meta holds the serviceMetadataLinks.  A dataset feed has a name *)
(* (technicalName), meta, additional links and entries; an entry a name,   *)
(* the srs it refers to, its bbox and download links; a download link its  *)
(* data, a path, and maybe a rel.                                          *)
(***************************************************************************)
URL(host, path)  == [host |-> host, path |-> path]
JoinPath(u, end) == [u EXCEPT !.path = @ \o end]

IndexXML      == <<"index", ".xml">>
FeedXML(name) == Append(name, ".xml")

GetBlobPrefix(link) == Front(link.data)
GetBlobName(link)   == Last(link.data)

GetDownloadLinks(s) ==
    FlattenSeq([f \in DOMAIN s.feeds |->
        FlattenSeq([e \in DOMAIN s.feeds[f].entries |-> s.feeds[f].entries[e].links])])

-----------------------------------------------------------------------------
(* Links *)

Link(rel, href) == [rel |-> rel, href |-> href]

\* The OwnerInfo has one template for each kind of metadata link: it renders to a URL
\* elsewhere that holds the identifier.
replaceMustacheTemplate(template, id) == URL(template, <<id>>)

MetadataLink(m, template) ==
    Link(IF template = "opensearch" THEN "search" ELSE "describedby",
         replaceMustacheTemplate(template, m.id))

\* With onlyCSW it returns at the first csw; templates before that have had their turn.
addMetadataLinks(m, onlyCSW) ==
    IF m = None THEN <<>>
    ELSE LET csw  == {i \in DOMAIN m.templates : m.templates[i] = "csw"}
             upto == IF onlyCSW /\ csw # {} THEN Min(csw) ELSE Len(m.templates)
         IN  [i \in 1 .. upto |-> MetadataLink(m, m.templates[i])]

FeedURL(s, name) == JoinPath(s.base, <<FeedXML(name)>>)
IndexURL(s)      == JoinPath(s.base, <<IndexXML>>)

getSelfLink(s) == Link("self", IndexURL(s))

getDatasetLinks(s, feed) ==
    <<Link("self", FeedURL(s, feed.name)), Link("up", IndexURL(s))>>
    \o addMetadataLinks(feed.meta, FALSE)
    \o feed.links

-----------------------------------------------------------------------------
(* Entries *)

\* Mutant: a category is added whether or not it is there already.
Categories_All(feed) == [e \in DOMAIN feed.entries |-> feed.entries[e].srs]

\* The categories of a dataset feed's entries, each at its first appearance.
Categories(feed) ==
    LET firsts == {e \in DOMAIN feed.entries :
                      \A d \in 1 .. (e - 1) : feed.entries[d].srs # feed.entries[e].srs}
        nth(i) == CHOOSE e \in firsts : Cardinality({d \in firsts : d < e}) = i - 1
    IN  [i \in 1 .. Cardinality(firsts) |-> feed.entries[nth(i)].srs]

\* One entry of the service feed per dataset feed; the polygon is the first entry's.
getServiceEntries(s) ==
    [f \in DOMAIN s.feeds |->
        LET feed == s.feeds[f]
            id   == FeedURL(s, feed.name)
        IN  [id         |-> id,
             links      |-> Append(addMetadataLinks(feed.meta, TRUE), Link("alternate", id)),
             categories |-> Categories(feed),
             polygon    |-> IF feed.entries = <<>> THEN None ELSE feed.entries[1].bbox]]

getEmptyRelCount(entry) == Cardinality({i \in DOMAIN entry.links : entry.links[i].rel = None})

\* Mutant: more than two instead of more than one.
getDownloadLinkRel_Two(link, emptyRelCount) ==
    CASE link.rel # None                       -> link.rel
      [] link.rel = None /\ emptyRelCount > 2  -> "section"
      [] link.rel = None /\ emptyRelCount <= 2 -> "alternate"

getDownloadLinkRel(link, emptyRelCount) ==
    CASE link.rel # None                       -> link.rel
      [] link.rel = None /\ emptyRelCount > 1  -> "section"
      [] link.rel = None /\ emptyRelCount <= 1 -> "alternate"

\* Mutant: the blob prefix is kept in the URL.
getDownloadLinkHref_Full(s, link) == JoinPath(s.base, <<<<"downloads">>>> \o link.data)

getDownloadLinkHref(s, link) == JoinPath(s.base, <<<<"downloads">>, GetBlobName(link)>>)

\* The data is the blob behind the link: the generator asks it for its length and type.
getDatasetEntries(s, feed) ==
    [e \in DOMAIN feed.entries |->
        LET entry == feed.entries[e]
            rel   == getEmptyRelCount(entry)
        IN  [id         |-> JoinPath(s.base, <<FeedXML(entry.name)>>),
             links      |-> [i \in DOMAIN entry.links |->
                                [rel  |-> getDownloadLinkRel(entry.links[i], rel),
                                 href |-> getDownloadLinkHref(s, entry.links[i]),
                                 data |-> entry.links[i].data]],
             categories |-> <<entry.srs>>,
             polygon    |-> entry.bbox]]

-----------------------------------------------------------------------------
(* Feeds *)

ServiceFeed(s) ==
    [id    |-> IndexURL(s),
     links |-> <<getSelfLink(s)>> \o addMetadataLinks(s.meta, FALSE),
     entries |-> getServiceEntries(s)]

DatasetFeed(s, feed) ==
    [id      |-> FeedURL(s, feed.name),
     links   |-> getDatasetLinks(s, feed),
     entries |-> getDatasetEntries(s, feed)]

MapAtomV3ToAtomGeneratorConfig(s) ==
    <<ServiceFeed(s)>> \o [f \in DOMAIN s.feeds |-> DatasetFeed(s, s.feeds[f])]
=============================================================================
