--------------------------- MODULE MCAtomConversion ---------------------------
(* Small instances of AtomConversion for TLC. *)
EXTENDS AtomConversion

CONSTANTS text1, text2, uuid, author, uri, rd, type, zero, box, fine, wide

\* A box with more digits than a float32 has.
MCRounded == (zero :> zero) @@ (box :> box) @@ (fine :> box) @@ (wide :> wide)

Blob(name) == <<<<"blobs">>, <<"x">>, <<name>>>>

LinkV2(blobKey, bbox) == [blobKey |-> blobKey, updated |-> 1, version |-> text1, bbox |-> bbox, rel |-> None]
One == <<LinkV2(Blob("one"), None)>>
Two == <<[LinkV2(Blob("one"), wide) EXCEPT !.rel = "index"], LinkV2(Blob("two"), None)>>

DownloadV2(updated, links) ==
    [name |-> <<"r">>, title |-> None, updated |-> updated, content |-> text2, links |-> links, srs |-> rd]

DatasetV2(downloads) ==
    [name |-> <<"roads">>, title |-> text1, meta |-> uuid, source |-> uuid, bbox |-> box,
     links |-> <<[type |-> text2, uri |-> uri, contentType |-> type, language |-> None]>>,
     downloads |-> downloads]

Base     == [dataset |-> "dataset", owner |-> "owner", theme |-> None, version |-> "v1_0"]
Themed   == [Base EXCEPT !.theme = "theme", !.version = None]
NoLabels == [dataset |-> None, owner |-> None, theme |-> None, version |-> None]

Manifest(general, labels, updated, datasets) ==
    [labels |-> labels, general |-> general, title |-> text1, meta |-> uuid, author |-> author,
     updated |-> updated, datasets |-> datasets, ttl |-> None]

Plain == Manifest(Base, Base, None, <<DatasetV2(<<DownloadV2(1, One)>>)>>)

\* The labels are there or not, repeat the general part or not; times are there, at the
\* service, or cannot be parsed; downloads have links with a box of their own; a ttl is out
\* of range, a link has no type.
AllManifests ==
    {[Manifest(general, labels, updated, <<DatasetV2(<<DownloadV2(1, One), DownloadV2(time, Two)>>)>>) EXCEPT !.ttl = ttl] :
        general \in {Base, Themed}, labels \in {Base, Themed, NoLabels},
        updated \in {None, 2}, time \in {None, Bad, 1}, ttl \in {None, 0, 3}}
    \cup {Manifest(Base, Base, None, <<DatasetV2(<<DownloadV2(Bad, One)>>), DatasetV2(<<>>), DatasetV2(<<DownloadV2(None, Two)>>)>>)}
    \cup {Manifest(Base, Base, None, <<[DatasetV2(<<DownloadV2(1, One)>>) EXCEPT !.links[1].uri = Bad]>>)}
    \cup {[Plain EXCEPT !.ttl = 9], [Plain EXCEPT !.datasets[1].links[1].contentType = None]}

\* Atoms of v3 with other URLs, without metadata links, with finer and different boxes.
EntryV3(bbox) == [name |-> <<"r">>, title |-> text2, content |-> None, updated |-> 0, srs |-> rd, bbox |-> bbox,
                  links |-> <<[data |-> Blob("one"), time |-> None, bbox |-> fine, rel |-> None]>>]
FeedV3(meta)  == [name |-> <<"roads">>, title |-> text1, meta |-> meta, author |-> author, source |-> None,
                  links |-> <<[rel |-> "related", title |-> None, href |-> uri, type |-> type, hreflang |-> None]>>,
                  entries |-> <<EntryV3(fine), EntryV3(wide)>>]
MetaV3        == [id |-> uuid, templates |-> <<"csw">>]
HubV3(meta)   == [labels |-> Base, ttl |-> 1, base |-> URL(Host, <<<<"else">>>>),
                  routes |-> <<URL(Host, <<<<"else">>>>)>>, lang |-> "en", title |-> text2, owner |-> "other",
                  meta |-> meta, feeds |-> <<FeedV3(meta)>>]

AllHubs == {HubV3(None), HubV3(MetaV3)}
MCEdits == {<<"ttl", 2>>, <<"ttl", 7>>, <<"title", text2>>}
=============================================================================
