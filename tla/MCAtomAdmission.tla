--------------------------- MODULE MCAtomAdmission ---------------------------
(* Small instances of AtomAdmission for TLC. *)
EXTENDS AtomAdmission

CONSTANTS w1, w2, w3, i1, i2, n1, n2

Labels == {{}, {<<"dataset", "a">>}, {<<"dataset", "b">>}}

Entry(name, links, content) == [name |-> name, links |-> links, content |-> content]
Feed(name, meta, code, namespace, entries) ==
    [name |-> name, meta |-> meta, code |-> code, namespace |-> namespace, entries |-> entries]
Meta(id, templates) == [id |-> id, templates |-> templates]

PlainFeed == Feed("f", NoMeta, FALSE, FALSE, <<Entry("e", 1, FALSE)>>)

Atom(labels, base, routes, ref, meta, feeds) ==
    [labels |-> labels, base |-> base, routes |-> routes, ownerRef |-> ref, meta |-> meta,
     feeds |-> feeds]

\* Every base URL with every list of at most three out of three URLs; their labels keep
\* them apart from the candidates below.
Lists == UNION {[1 .. n -> {w1, w2, w3}] : n \in 0 .. 3}
URLCandidates ==
    {Atom(labels, base, routes, n1, NoMeta, <<PlainFeed>>) :
        labels \in {{}, {<<"dataset", "b">>}}, base \in {w1, w2, w3}, routes \in Lists}

\* Metadata links in different orders, and feeds that break one rule each.
ServiceMetas == {NoMeta, Meta(i1, <<"csw">>), Meta(i1, <<"opensearch", "html">>)}
DatasetMetas == {NoMeta, Meta(i2, <<"csw", "html">>), Meta(i2, <<"html", "csw">>), Meta(i1, <<"csw">>)}
OneEntry     == <<Entry("e", 1, FALSE)>>
EntryLists   == {OneEntry, <<Entry("e", 2, TRUE), Entry("d", 1, FALSE)>>,
                 <<Entry("e", 2, FALSE)>>, <<Entry("e", 1, TRUE), Entry("e", 1, FALSE)>>}
FeedLists    ==
    {<<Feed("f", meta, code, namespace, OneEntry)>> :
        meta \in DatasetMetas, code \in BOOLEAN, namespace \in BOOLEAN} \cup
    {<<Feed("f", NoMeta, FALSE, FALSE, entries)>> : entries \in EntryLists} \cup
    {<<PlainFeed, Feed(name, meta, TRUE, TRUE, OneEntry)>> : name \in {"f", "g"}, meta \in DatasetMetas}
MetaCandidates ==
    {Atom({<<"dataset", "a">>}, w1, <<>>, ref, meta, feeds) :
        ref \in OwnerNames, meta \in ServiceMetas, feeds \in FeedLists}

Info(has, urls, garbled) == [atom |-> has, urls |-> urls, garbled |-> garbled]
SomeInfos == {Info(TRUE, Templates, {}), Info(FALSE, Templates, {}), Info(TRUE, {"csw", "html"}, {}),
              Info(TRUE, {"opensearch", "html"}, {}), Info(TRUE, Templates, {"csw"})}

AllCandidates == URLCandidates \cup MetaCandidates
=============================================================================
