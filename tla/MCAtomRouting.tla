---------------------------- MODULE MCAtomRouting ----------------------------
(* Small instances of AtomRouting for TLC. *)
EXTENDS AtomRouting

CONSTANTS a1, a2, pdok, nl, bbox, rd, wgs

ns == <<"ns">>
v1 == <<"v1">>

Old   == URL(pdok, <<ns>>)
Moved == URL(pdok, <<v1, ns>>)
Other == URL(nl, <<ns>>)

\* Blobs: a container, a path in it and a name.
Data(path, name)  == <<<<"blobs">>, <<path>>, name>>
Download(p, name) == [rel |-> None, data |-> Data(p, name)]
Gml(name)         == <<name, ".gml">>
Zipped(name)         == <<name, ".gml", ".zip">>

Entry(name, links)     == [name |-> name, srs |-> rd, bbox |-> bbox, links |-> links]
Feed(name, entries)    == [name |-> name, meta |-> None, links |-> <<>>, entries |-> entries]
Atom(base, urls, feeds) == [base |-> base, routes |-> urls, meta |-> None, feeds |-> feeds]

roads == <<"roads">>
rails == <<"rails">>

Roads(links) == Feed(roads, <<Entry(<<"r">>, links)>>)
Rails(links) == Feed(rails, <<Entry(<<"l">>, links)>>)

-----------------------------------------------------------------------------
(* Routing *)

Two   == <<Download("x", Gml("roads")), Download("y", Gml("nodes"))>>
Lines == <<Download("z", Gml("lines"))>>

\* Groups x y; then y first, one group more, a feed and a URL more; then the new base URL,
\* with groups gone and feeds in another order.
First  == Atom(Old, <<>>, <<Roads(Two)>>)
More   == Atom(Old, <<Moved, Old>>, <<Rails(Lines), Roads(Reverse(Two))>>)
Fewer  == Atom(Moved, <<Moved, Old>>, <<Roads(<<Two[2]>>), Rails(Lines)>>)

\* File names that are how others begin, before and after these, and nested URLs; none of
\* these can be updated to another.
At(path) == URL(pdok, <<ns, path>>)
Longer   == Atom(At(<<"longer">>), <<>>, <<Roads(<<Download("y", Zipped("roads")), Two[1]>>)>>)
Shorter  == Atom(At(<<"shorter">>), <<>>, <<Roads(<<Two[1], Download("y", Zipped("roads"))>>)>>)
Outer    == Atom(At(<<"outer">>), <<At(<<"outer">>), JoinPath(At(<<"outer">>), <<v1>>)>>, <<Roads(Two)>>)

Neighbour == Atom(Other, <<>>, <<Roads(<<Download("x", Gml("nodes"))>>)>>)

TwoAtoms == {a1, a2}
MCLabels == (a1 :> {a1, pdok}) @@ (a2 :> {a2, pdok})

-----------------------------------------------------------------------------
(* Feeds *)

Section == [Download("x", Gml("part")) EXCEPT !.rel = "index"]

One   == Download("x", Gml("one"))
Both  == Download("y", Gml("two"))
Third == Download("x", Gml("three"))

\* Entries with one, several or named downloads; with the same and with other systems.
EntryLists ==
    ("one"   :> <<Entry(roads, <<One>>)>>) @@
    ("index" :> <<Entry(roads, <<Section, One>>)>>) @@
    ("two"   :> <<Entry(roads, <<One, Section, Both>>)>>) @@
    ("three" :> <<Entry(roads, <<One, Both, Third>>)>>) @@
    ("same"  :> <<Entry(roads, <<One>>), Entry(rails, <<Both>>), Entry(<<"l">>, <<Third>>)>>) @@
    ("other" :> <<Entry(roads, <<One>>), [Entry(rails, <<Both>>) EXCEPT !.srs = wgs],
                  [Entry(<<"l">>, <<Third>>) EXCEPT !.srs = wgs]>>) @@
    ("back"  :> <<Entry(roads, <<One>>), [Entry(rails, <<Both>>) EXCEPT !.srs = wgs], Entry(<<"l">>, <<Third>>)>>) @@
    ("twice" :> <<Entry(roads, <<One>>), Entry(roads, <<Both>>)>>)

Meta(templates) == [id |-> <<"uuid">>, templates |-> templates]

\* Each in a service of its own, one of them with metadata.  One has no admissible feeds,
\* one a feed called index.
FeedSpecs ==
    {Atom(At(<<key>>), <<>>, <<Feed(roads, EntryLists[key]), Rails(<<One>>)>>) : key \in DOMAIN EntryLists}
    \cup {Atom(At(rails), <<>>, <<[Roads(<<One>>) EXCEPT !.meta = Meta(<<"html", "csw", "opensearch">>)]>>)}
    \cup {Atom(At(name), <<>>, <<Roads(<<One>>), Feed(name, <<Entry(<<"l">>, <<One>>)>>)>>) :
             name \in {roads, <<"index">>}}

\* The instance is one that the theorems are about.
ASSUME Apart /\ OtherRels

MCSpecs == (a1 :> ({First, More, Fewer, Longer, Shorter, Outer} \cup FeedSpecs)) @@ (a2 :> {Neighbour})
=============================================================================
