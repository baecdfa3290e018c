------------------------- MODULE AtomConversionProofs -------------------------
(***************************************************************************)
(* Theorems about AtomConversion, for all Atoms of both versions.          *)
(***************************************************************************)
EXTENDS AtomConversion, TLAPS, SequenceTheorems

\* NoObj and Panic are no Atoms, and metadata links are not None.
ObjAssumption ==
    /\ \A m : IsManifest(m) => m \notin {NoObj, Panic}
    /\ \A s : IsHub(s) => s # NoObj
    /\ \A id, templates : [id |-> id, templates |-> templates] # None

-----------------------------------------------------------------------------
(* Types *)

\* An int32 is in its range, and a number in its range is kept.
LEMMA Int32Range == ASSUME NEW x \in Int PROVE Int32(x) \in -HalfRange .. (HalfRange - 1)
BY ConversionAssumption DEF Int32

LEMMA Int32Keeps == ASSUME NEW x \in -HalfRange .. (HalfRange - 1) PROVE Int32(x) = x
BY ConversionAssumption DEF Int32

\* What is made of a sequence element by element is as long.
LEMMA SameLength ==
    ASSUME NEW q, Len(q) \in Nat, DOMAIN q = 1 .. Len(q), NEW S, NEW f \in [DOMAIN q -> S]
    PROVE  Len(f) = Len(q) /\ DOMAIN f = 1 .. Len(f)
OBVIOUS

LEMMA BoxesRounded ==
    /\ \A b \in DOMAIN Rounded : Rounded[b] \in Boxes
    /\ \A b \in Boxes : b \in DOMAIN Rounded /\ Rounded[b] = b
    /\ None \notin DOMAIN Rounded /\ None \notin Boxes /\ ZeroBox \in Boxes
BY ConversionAssumption DEF Boxes, Range

LEMMA ToUpdatedOK ==
    ASSUME NEW m, m.updated \in Nat \cup {None, Bad}, NEW d, IsDownloadV2(d), NEW at \in Nat
    PROVE  ToUpdated(m, d, at) \in Nat
BY DEF IsDownloadV2, ToUpdated

LEMMA ToDownloadLinkOK ==
    ASSUME NEW l, IsLinkV2(l)
    PROVE  IsDownloadLink(ToDownloadLink(l))
BY BoxesRounded DEF IsLinkV2, IsDownloadLink, ToDownloadLink

LEMMA ToEntryOK ==
    ASSUME NEW m, m.updated \in Nat \cup {None, Bad}, NEW dataset, dataset.bbox \in Boxes,
           NEW d, IsDownloadV2(d), NEW at \in Nat
    PROVE  IsEntry(ToEntry(m, dataset, d, at))
<1> DEFINE links == [i \in DOMAIN d.links |-> ToDownloadLink(d.links[i])]
           e == ToEntry(m, dataset, d, at)
<1>1. Len(d.links) \in Nat /\ DOMAIN d.links = 1 .. Len(d.links)
      /\ \A i \in DOMAIN d.links : IsLinkV2(d.links[i])
  BY DEF IsDownloadV2, IsSeqOf
<1>2. links \in [DOMAIN d.links -> {ToDownloadLink(d.links[i]) : i \in DOMAIN d.links}]
  OBVIOUS
<1>3. Len(links) = Len(d.links) /\ DOMAIN links = 1 .. Len(links)
  BY <1>1, <1>2, SameLength
<1>4. \A i \in DOMAIN links : IsDownloadLink(links[i])
  BY <1>1, ToDownloadLinkOK
<1>5. ToUpdated(m, d, at) \in Nat
  BY ToUpdatedOK
<1>6. /\ DOMAIN e = {"name", "title", "content", "updated", "srs", "bbox", "links"}
      /\ e.bbox = dataset.bbox /\ e.updated = ToUpdated(m, d, at) /\ e.links = links
  BY DEF ToEntry
<1> HIDE DEF links, e
<1> QED
  BY <1>1, <1>3, <1>4, <1>5, <1>6, BoxesRounded DEF IsEntry, IsSeqOf, e

LEMMA ToFeedOK ==
    ASSUME NEW m, m.updated \in Nat \cup {None, Bad}, NEW dataset, IsDataset(dataset),
           NEW at \in Nat
    PROVE  IsFeed(ToFeed(m, dataset, at))
<1> DEFINE links == [i \in DOMAIN dataset.links |-> ToLink(dataset.links[i])]
           entries == [i \in DOMAIN dataset.downloads |-> ToEntry(m, dataset, dataset.downloads[i], at)]
           f == ToFeed(m, dataset, at)
<1>1. /\ Len(dataset.links) \in Nat /\ DOMAIN dataset.links = 1 .. Len(dataset.links)
      /\ Len(dataset.downloads) \in Nat /\ DOMAIN dataset.downloads = 1 .. Len(dataset.downloads)
      /\ \A i \in DOMAIN dataset.downloads : IsDownloadV2(dataset.downloads[i])
      /\ dataset.bbox \in Boxes
  BY DEF IsDataset, IsSeqOf
<1>2. Len(links) = Len(dataset.links) /\ DOMAIN links = 1 .. Len(links)
  <2>1. links \in [DOMAIN dataset.links -> {ToLink(dataset.links[i]) : i \in DOMAIN dataset.links}]
    OBVIOUS
  <2> QED
    BY <1>1, <2>1, SameLength
<1>3. Len(entries) = Len(dataset.downloads) /\ DOMAIN entries = 1 .. Len(entries)
  <2>1. entries \in [DOMAIN dataset.downloads ->
                        {ToEntry(m, dataset, dataset.downloads[i], at) : i \in DOMAIN dataset.downloads}]
    OBVIOUS
  <2> QED
    BY <1>1, <2>1, SameLength
<1>4. \A i \in DOMAIN links : IsLinkV3(links[i])
  BY DEF ToLink, IsLinkV3
<1>5. \A i \in DOMAIN entries : IsEntry(entries[i])
  BY <1>1, ToEntryOK
<1>6. /\ DOMAIN f = {"name", "title", "meta", "author", "source", "links", "entries"}
      /\ f.links = links /\ f.entries = entries
  BY DEF ToFeed
<1> HIDE DEF links, entries, f
<1> QED
  BY <1>1, <1>2, <1>3, <1>4, <1>5, <1>6 DEF IsFeed, IsSeqOf, f

LEMMA ToV3OK ==
    ASSUME NEW m, IsManifest(m), NEW at \in Nat
    PROVE  IsHub(ToV3(m, at))
<1> DEFINE feeds == [i \in DOMAIN m.datasets |-> ToFeed(m, m.datasets[i], at)]
           s == ToV3(m, at)
<1>1. /\ Len(m.datasets) \in Nat /\ DOMAIN m.datasets = 1 .. Len(m.datasets)
      /\ \A i \in DOMAIN m.datasets : IsDataset(m.datasets[i])
      /\ m.updated \in Nat \cup {None, Bad} /\ IsGeneral(m.labels)
      /\ m.ttl = None \/ m.ttl \in Int
  BY DEF IsManifest, IsSeqOf
<1>2. Len(feeds) = Len(m.datasets) /\ DOMAIN feeds = 1 .. Len(feeds)
  <2>1. feeds \in [DOMAIN m.datasets -> {ToFeed(m, m.datasets[i], at) : i \in DOMAIN m.datasets}]
    OBVIOUS
  <2> QED
    BY <1>1, <2>1, SameLength
<1>3. \A i \in DOMAIN feeds : IsFeed(feeds[i])
  BY <1>1, ToFeedOK
<1>4. /\ DOMAIN s = {"labels", "ttl", "base", "routes", "lang", "title", "owner", "meta", "feeds"}
      /\ s.labels = m.labels /\ s.feeds = feeds
      /\ s.ttl = IF m.ttl = None THEN None ELSE Int32(m.ttl)
  BY DEF ToV3
<1>5. s.ttl = None \/ s.ttl \in -HalfRange .. (HalfRange - 1)
  BY <1>1, <1>4, Int32Range
<1> HIDE DEF feeds, s
<1> QED
  BY <1>1, <1>2, <1>3, <1>4, <1>5 DEF IsHub, IsSeqOf, s

LEMMA FromDownloadLinkOK ==
    ASSUME NEW l, IsDownloadLink(l)
    PROVE  IsLinkV2(FromDownloadLink(l))
BY BoxesRounded DEF IsLinkV2, IsDownloadLink, FromDownloadLink

LEMMA FromLinkOK ==
    ASSUME NEW l
    PROVE  IsOtherLink(FromLink(l))
BY ConversionAssumption DEF IsOtherLink, FromLink

LEMMA FromEntryOK ==
    ASSUME NEW e, IsEntry(e)
    PROVE  IsDownloadV2(FromEntry(e))
<1> DEFINE links == [i \in DOMAIN e.links |-> FromDownloadLink(e.links[i])]
           d == FromEntry(e)
<1>1. Len(e.links) \in Nat /\ DOMAIN e.links = 1 .. Len(e.links) /\ e.updated \in Nat
      /\ \A i \in DOMAIN e.links : IsDownloadLink(e.links[i])
  BY DEF IsEntry, IsSeqOf
<1>2. Len(links) = Len(e.links) /\ DOMAIN links = 1 .. Len(links)
  <2>1. links \in [DOMAIN e.links -> {FromDownloadLink(e.links[i]) : i \in DOMAIN e.links}]
    OBVIOUS
  <2> QED
    BY <1>1, <2>1, SameLength
<1>3. \A i \in DOMAIN links : IsLinkV2(links[i])
  BY <1>1, FromDownloadLinkOK
<1>4. /\ DOMAIN d = {"name", "title", "updated", "content", "links", "srs"}
      /\ d.updated = e.updated /\ d.links = links
  BY DEF FromEntry
<1> HIDE DEF links, d
<1> QED
  BY <1>1, <1>2, <1>3, <1>4 DEF IsDownloadV2, IsSeqOf, d

LEMMA FromFeedOK ==
    ASSUME NEW f, IsFeed(f)
    PROVE  IsDataset(FromFeed(f))
<1> DEFINE links == [i \in DOMAIN f.links |-> FromLink(f.links[i])]
           downloads == [i \in DOMAIN f.entries |-> FromEntry(f.entries[i])]
           dataset == FromFeed(f)
<1>1. /\ Len(f.links) \in Nat /\ DOMAIN f.links = 1 .. Len(f.links)
      /\ Len(f.entries) \in Nat /\ DOMAIN f.entries = 1 .. Len(f.entries)
      /\ \A i \in DOMAIN f.entries : IsEntry(f.entries[i])
  BY DEF IsFeed, IsSeqOf
<1>2. Len(links) = Len(f.links) /\ DOMAIN links = 1 .. Len(links)
  <2>1. links \in [DOMAIN f.links -> {FromLink(f.links[i]) : i \in DOMAIN f.links}]
    OBVIOUS
  <2> QED
    BY <1>1, <2>1, SameLength
<1>3. Len(downloads) = Len(f.entries) /\ DOMAIN downloads = 1 .. Len(downloads)
  <2>1. downloads \in [DOMAIN f.entries -> {FromEntry(f.entries[i]) : i \in DOMAIN f.entries}]
    OBVIOUS
  <2> QED
    BY <1>1, <2>1, SameLength
<1>4. \A i \in DOMAIN links : IsOtherLink(links[i])
  BY FromLinkOK
<1>5. \A i \in DOMAIN downloads : IsDownloadV2(downloads[i])
  BY <1>1, FromEntryOK
<1>6. f.entries # <<>> => Rounded[f.entries[1].bbox] \in Boxes
  <2>1. f.entries # <<>> => 1 \in DOMAIN f.entries
    BY <1>1
  <2> QED
    BY <1>1, <2>1, BoxesRounded DEF IsEntry
<1>7. /\ DOMAIN dataset = {"name", "title", "meta", "source", "links", "downloads", "bbox"}
      /\ dataset.links = links /\ dataset.downloads = downloads
      /\ dataset.source = IF f.source = None THEN Empty ELSE f.source
      /\ dataset.bbox = IF f.entries = <<>> THEN ZeroBox ELSE Rounded[f.entries[1].bbox]
  BY DEF FromFeed
<1>8. dataset.source # None
  BY <1>7, ConversionAssumption
<1>9. dataset.bbox \in Boxes
  BY <1>6, <1>7, BoxesRounded
<1> HIDE DEF links, downloads, dataset
<1> QED
  BY <1>1, <1>2, <1>3, <1>4, <1>5, <1>7, <1>8, <1>9 DEF IsDataset, IsSeqOf, dataset

LEMMA ConvertFromOK ==
    ASSUME NEW s, IsHub(s)
    PROVE  IsManifest(ConvertFrom(s))
<1> DEFINE datasets == [i \in DOMAIN s.feeds |-> FromFeed(s.feeds[i])]
           m == ConvertFrom(s)
<1>1. /\ Len(s.feeds) \in Nat /\ DOMAIN s.feeds = 1 .. Len(s.feeds)
      /\ \A i \in DOMAIN s.feeds : IsFeed(s.feeds[i])
      /\ IsGeneral(s.labels)
      /\ s.ttl = None \/ s.ttl \in -HalfRange .. (HalfRange - 1)
  BY DEF IsHub, IsSeqOf
<1>2. Len(datasets) = Len(s.feeds) /\ DOMAIN datasets = 1 .. Len(datasets)
  <2>1. datasets \in [DOMAIN s.feeds -> {FromFeed(s.feeds[i]) : i \in DOMAIN s.feeds}]
    OBVIOUS
  <2> QED
    BY <1>1, <2>1, SameLength
<1>3. \A i \in DOMAIN datasets : IsDataset(datasets[i])
  BY <1>1, FromFeedOK
<1>4. /\ DOMAIN m = {"labels", "general", "title", "meta", "author", "updated", "datasets", "ttl"}
      /\ m.labels = s.labels /\ m.general = General(s.labels) /\ m.updated = None
      /\ m.datasets = datasets /\ m.ttl = s.ttl
  BY DEF ConvertFrom
<1>5. IsGeneral(m.general)
  BY <1>4 DEF General, IsGeneral
<1>6. m.ttl = None \/ m.ttl \in Int
  BY <1>1, <1>4, ConversionAssumption
<1> HIDE DEF datasets, m
<1> QED
  BY <1>1, <1>2, <1>3, <1>4, <1>5, <1>6 DEF IsManifest, IsSeqOf, m

LEMMA EditedOK ==
    ASSUME NEW m, IsManifest(m), NEW edit \in Edits
    PROVE  IsManifest(Edited(m, edit))
<1> DEFINE e == Edited(m, edit)
<1>1. CASE edit[1] = "ttl" /\ edit[2] \in Int
  <2>1. /\ DOMAIN e = DOMAIN m /\ e.ttl \in Int
        /\ e.labels = m.labels /\ e.general = m.general /\ e.updated = m.updated
        /\ e.datasets = m.datasets
    BY <1>1 DEF IsManifest, Edited
  <2> HIDE DEF e
  <2> QED
    BY <2>1 DEF IsManifest, IsSeqOf, e
<1>2. CASE edit[1] = "title"
  <2>1. /\ DOMAIN e = DOMAIN m /\ e.ttl = m.ttl
        /\ e.labels = m.labels /\ e.general = m.general /\ e.updated = m.updated
        /\ e.datasets = m.datasets
    BY <1>2 DEF IsManifest, Edited
  <2> HIDE DEF e
  <2> QED
    BY <2>1 DEF IsManifest, IsSeqOf, e
<1> QED
  BY <1>1, <1>2, ConversionAssumption

-----------------------------------------------------------------------------
(* From v2beta1 to v3 and back *)

LEMMA DownloadLinkKept ==
    ASSUME NEW l, IsLinkV2(l)
    PROVE  LET k == ToDownloadLink(l)
               b == FromDownloadLink(k)
           IN  /\ ToDownloadLink(b) = k
               /\ b.blobKey = l.blobKey /\ b.updated = l.updated /\ b.bbox = l.bbox /\ b.rel = l.rel
BY BoxesRounded DEF IsLinkV2, ToDownloadLink, FromDownloadLink

LEMMA LinkKept ==
    ASSUME NEW l, IsOtherLink(l)
    PROVE  LET k == ToLink(l)
               b == FromLink(k)
           IN  /\ ToLink(b) = k
               /\ b.type = l.type /\ b.uri = l.uri /\ b.language = l.language
BY ConversionAssumption DEF IsOtherLink, ToLink, FromLink

\* A converted entry has a time, whatever its view is converted with.
LEMMA TimeKept ==
    ASSUME NEW m, m.updated \in Nat \cup {None, Bad}, NEW dataset, NEW d, IsDownloadV2(d),
           NEW at \in Nat, NEW v, NEW any
    PROVE  ToUpdated(v, FromEntry(ToEntry(m, dataset, d, at)), any) = ToUpdated(m, d, at)
<1> DEFINE u == ToUpdated(m, d, at)
           b == FromEntry(ToEntry(m, dataset, d, at))
<1>1. b.updated = u
  BY DEF FromEntry, ToEntry
<1>2. u \in Nat /\ u # None /\ u # Bad
  BY ToUpdatedOK, ConversionAssumption
<1> HIDE DEF u, b
<1>3. ToUpdated(v, b, any) = u
  BY <1>1, <1>2 DEF ToUpdated
<1> QED
  BY <1>3 DEF u, b

LEMMA EntryKept ==
    ASSUME NEW m, m.updated \in Nat \cup {None, Bad}, NEW dataset, dataset.bbox \in Boxes,
           NEW d, IsDownloadV2(d), NEW at \in Nat, NEW later \in Nat,
           NEW v, NEW back, back.bbox = dataset.bbox
    PROVE  LET e == ToEntry(m, dataset, d, at)
               b == FromEntry(e)
           IN  /\ ToEntry(v, back, b, later) = e
               /\ KeptDownload(b) = KeptDownload(d)
<1> DEFINE e == ToEntry(m, dataset, d, at)
           b == FromEntry(e)
<1>1. /\ e.name = d.name /\ e.title = d.title /\ e.content = d.content /\ e.srs = d.srs
      /\ e.bbox = dataset.bbox /\ e.updated = ToUpdated(m, d, at)
      /\ e.links = [i \in DOMAIN d.links |-> ToDownloadLink(d.links[i])]
  BY DEF ToEntry
<1>2. /\ b.name = d.name /\ b.title = d.title /\ b.content = d.content /\ b.srs = d.srs
      /\ b.updated = ToUpdated(m, d, at)
      /\ b.links = [i \in DOMAIN d.links |-> FromDownloadLink(ToDownloadLink(d.links[i]))]
  BY <1>1 DEF FromEntry
<1>3. ToUpdated(v, b, later) = ToUpdated(m, d, at)
  BY TimeKept
<1>4. \A i \in DOMAIN d.links : IsLinkV2(d.links[i])
  BY DEF IsDownloadV2, IsSeqOf
<1> HIDE DEF b, e
<1>5. DOMAIN b.links = DOMAIN d.links
      /\ \A i \in DOMAIN d.links : b.links[i] = FromDownloadLink(ToDownloadLink(d.links[i]))
  BY <1>2
<1>6. ToEntry(v, back, b, later) = e
  <2>1. [i \in DOMAIN b.links |-> ToDownloadLink(b.links[i])]
          = [i \in DOMAIN d.links |-> ToDownloadLink(d.links[i])]
    BY <1>4, <1>5, DownloadLinkKept
  <2>2. ToEntry(v, back, b, later) =
          [name |-> d.name, title |-> d.title, content |-> d.content,
           updated |-> ToUpdated(m, d, at), srs |-> d.srs, bbox |-> dataset.bbox,
           links |-> [i \in DOMAIN d.links |-> ToDownloadLink(d.links[i])]]
    BY <1>2, <1>3, <2>1 DEF ToEntry
  <2> QED
    BY <2>2 DEF e, ToEntry
<1>7. KeptDownload(b) = KeptDownload(d)
  <2>1. \A i \in DOMAIN d.links :
           <<b.links[i].blobKey, b.links[i].updated, b.links[i].bbox, b.links[i].rel>>
             = <<d.links[i].blobKey, d.links[i].updated, d.links[i].bbox, d.links[i].rel>>
    BY <1>4, <1>5, DownloadLinkKept
  <2> QED
    BY <1>2, <1>5, <2>1 DEF KeptDownload
<1> QED
  BY <1>6, <1>7 DEF b, e

LEMMA FeedKept ==
    ASSUME NEW m, m.updated \in Nat \cup {None, Bad}, NEW dataset, IsDataset(dataset),
           NEW at \in Nat, NEW later \in Nat, NEW v, v.author = Beheer
    PROVE  LET f == ToFeed(m, dataset, at)
               b == FromFeed(f)
           IN  /\ ToFeed(v, b, later) = [f EXCEPT !.author = Beheer]
               /\ KeptDataset(b) = KeptDataset(dataset)
               /\ DOMAIN b.downloads = DOMAIN dataset.downloads
               /\ \A j \in DOMAIN dataset.downloads :
                     ToUpdated(v, b.downloads[j], Bad) = ToUpdated(m, dataset.downloads[j], at)
<1> DEFINE f == ToFeed(m, dataset, at)
           b == FromFeed(f)
           entry(i) == ToEntry(m, dataset, dataset.downloads[i], at)
<1>0. /\ Len(dataset.downloads) \in Nat /\ DOMAIN dataset.downloads = 1 .. Len(dataset.downloads)
      /\ \A i \in DOMAIN dataset.downloads : IsDownloadV2(dataset.downloads[i])
      /\ \A i \in DOMAIN dataset.links : IsOtherLink(dataset.links[i])
      /\ dataset.bbox \in Boxes /\ dataset.source # None
  BY DEF IsDataset, IsSeqOf
<1>1. /\ f.name = dataset.name /\ f.title = dataset.title
      /\ f.meta = [id |-> dataset.meta, templates |-> <<"csw", "html">>]
      /\ f.source = dataset.source
      /\ f.links = [i \in DOMAIN dataset.links |-> ToLink(dataset.links[i])]
      /\ f.entries = [i \in DOMAIN dataset.downloads |-> entry(i)]
  BY DEF ToFeed
<1>2. /\ b.name = dataset.name /\ b.title = dataset.title /\ b.meta = dataset.meta
      /\ b.source = dataset.source
      /\ b.links = [i \in DOMAIN dataset.links |-> FromLink(ToLink(dataset.links[i]))]
      /\ b.downloads = [i \in DOMAIN dataset.downloads |-> FromEntry(entry(i))]
      /\ b.bbox = IF f.entries = <<>> THEN ZeroBox ELSE Rounded[f.entries[1].bbox]
  <2> HIDE DEF f, entry
  <2> QED
    BY <1>0, <1>1 DEF FromFeed
<1>3. ASSUME NEW j \in DOMAIN dataset.downloads PROVE b.bbox = dataset.bbox
  <2>1. f.entries # <<>> /\ 1 \in DOMAIN dataset.downloads
    BY <1>0, <1>1, <1>3
  <2>2. f.entries[1].bbox = dataset.bbox
    BY <1>1, <2>1 DEF ToEntry
  <2> HIDE DEF f, b
  <2> QED
    BY <1>0, <1>2, <2>1, <2>2, BoxesRounded
<1> HIDE DEF f, b
<1>4. ASSUME NEW j \in DOMAIN dataset.downloads
      PROVE  /\ ToEntry(v, b, b.downloads[j], later) = entry(j)
             /\ KeptDownload(b.downloads[j]) = KeptDownload(dataset.downloads[j])
             /\ ToUpdated(v, b.downloads[j], Bad) = ToUpdated(m, dataset.downloads[j], at)
  <2>1. b.downloads[j] = FromEntry(entry(j)) /\ b.bbox = dataset.bbox
    BY <1>2, <1>3, <1>4
  <2>2. IsDownloadV2(dataset.downloads[j])
    BY <1>0, <1>4
  <2>3. /\ ToEntry(v, b, FromEntry(entry(j)), later) = entry(j)
        /\ KeptDownload(FromEntry(entry(j))) = KeptDownload(dataset.downloads[j])
    BY <1>0, <2>1, <2>2, EntryKept
  <2>4. ToUpdated(v, FromEntry(entry(j)), Bad) = ToUpdated(m, dataset.downloads[j], at)
    BY <2>2, TimeKept
  <2> QED
    BY <2>1, <2>3, <2>4
<1>5. DOMAIN b.downloads = DOMAIN dataset.downloads /\ DOMAIN b.links = DOMAIN dataset.links
  BY <1>2
<1>6. ToFeed(v, b, later) = [f EXCEPT !.author = Beheer]
  <2>1. [i \in DOMAIN b.downloads |-> ToEntry(v, b, b.downloads[i], later)]
          = [i \in DOMAIN dataset.downloads |-> entry(i)]
    <3> HIDE DEF entry
    <3> QED
      BY <1>4, <1>5
  <2>2. [i \in DOMAIN b.links |-> ToLink(b.links[i])]
          = [i \in DOMAIN dataset.links |-> ToLink(dataset.links[i])]
    BY <1>0, <1>2, <1>5, LinkKept
  <2> DEFINE es == [i \in DOMAIN dataset.downloads |-> entry(i)]
             ls == [i \in DOMAIN dataset.links |-> ToLink(dataset.links[i])]
  <2>3. f = [name |-> dataset.name, title |-> dataset.title,
             meta |-> [id |-> dataset.meta, templates |-> <<"csw", "html">>],
             author |-> m.author, source |-> dataset.source, links |-> ls, entries |-> es]
    BY DEF f, ToFeed
  <2>4. ToFeed(v, b, later) =
            [name |-> b.name, title |-> b.title,
             meta |-> [id |-> b.meta, templates |-> <<"csw", "html">>],
             author |-> v.author, source |-> b.source, links |-> ls, entries |-> es]
    BY <2>1, <2>2 DEF ToFeed
  <2> HIDE DEF es, ls
  <2> QED
    BY <1>2, <2>3, <2>4
<1>7. KeptDataset(b) = KeptDataset(dataset)
  <2>1. [i \in DOMAIN b.downloads |-> KeptDownload(b.downloads[i])]
          = [i \in DOMAIN dataset.downloads |-> KeptDownload(dataset.downloads[i])]
    BY <1>4, <1>5
  <2>2. [i \in DOMAIN b.links |-> <<b.links[i].type, b.links[i].uri, b.links[i].language>>]
          = [i \in DOMAIN dataset.links |->
                <<dataset.links[i].type, dataset.links[i].uri, dataset.links[i].language>>]
    BY <1>0, <1>2, <1>5, LinkKept
  <2>3. (IF Len(b.downloads) = 0 THEN ZeroBox ELSE b.bbox)
          = (IF Len(dataset.downloads) = 0 THEN ZeroBox ELSE dataset.bbox)
    <3>1. b.downloads \in [DOMAIN dataset.downloads ->
                              {FromEntry(entry(i)) : i \in DOMAIN dataset.downloads}]
      BY <1>2
    <3>2. Len(b.downloads) = Len(dataset.downloads)
      BY <1>0, <3>1, SameLength
    <3>3. Len(dataset.downloads) # 0 => 1 \in DOMAIN dataset.downloads
      BY <1>0
    <3> QED
      BY <1>3, <3>2, <3>3
  <2> QED
    BY <1>2, <2>1, <2>2, <2>3 DEF KeptDataset
<1> QED
  BY <1>4, <1>5, <1>6, <1>7 DEF f, b

LEMMA V3Kept ==
    ASSUME NEW m, IsManifest(m), NEW at \in Nat, NEW later \in Nat
    PROVE  LET s == ToV3(m, at)
               b == ConvertFrom(s)
           IN  /\ LabelsAgree(m) => ToV3(b, later) = WithAuthor(s)
               /\ Kept(b) = Kept(m)
               /\ InRange(m.ttl) => b.ttl = m.ttl
               /\ LabelsAgree(m) => b.general = m.general
               /\ \A i \in DOMAIN m.datasets : \A j \in DOMAIN m.datasets[i].downloads :
                     /\ i \in DOMAIN b.datasets /\ j \in DOMAIN b.datasets[i].downloads
                     /\ ToUpdated(b, b.datasets[i].downloads[j], Bad)
                          = ToUpdated(m, m.datasets[i].downloads[j], at)
<1> DEFINE s == ToV3(m, at)
           b == ConvertFrom(s)
           feed(i) == ToFeed(m, m.datasets[i], at)
<1>1. /\ m.updated \in Nat \cup {None, Bad} /\ (m.ttl = None \/ m.ttl \in Int)
      /\ \A i \in DOMAIN m.datasets : IsDataset(m.datasets[i])
  BY DEF IsManifest, IsSeqOf
<1>2. /\ s.labels = m.labels /\ s.ttl = (IF m.ttl = None THEN None ELSE Int32(m.ttl))
      /\ s.base = createBaseURL(m.general) /\ s.title = m.title
      /\ s.meta = [id |-> m.meta, templates |-> <<"csw", "opensearch", "html">>]
      /\ s.feeds = [i \in DOMAIN m.datasets |-> feed(i)]
  BY DEF ToV3
<1>3. s.ttl = None \/ s.ttl \in -HalfRange .. (HalfRange - 1)
  BY <1>1, <1>2, Int32Range
<1>4. /\ b.labels = m.labels /\ b.general = General(m.labels) /\ b.title = m.title
      /\ b.meta = m.meta /\ b.author = Beheer /\ b.ttl = s.ttl
      /\ b.datasets = [i \in DOMAIN m.datasets |-> FromFeed(feed(i))]
  <2> HIDE DEF s, feed
  <2> QED
    BY <1>2 DEF ConvertFrom
<1> HIDE DEF s, b
<1>5. ASSUME NEW i \in DOMAIN m.datasets
      PROVE  /\ i \in DOMAIN b.datasets
             /\ ToFeed(b, b.datasets[i], later) = [feed(i) EXCEPT !.author = Beheer]
             /\ KeptDataset(b.datasets[i]) = KeptDataset(m.datasets[i])
             /\ \A j \in DOMAIN m.datasets[i].downloads :
                   /\ j \in DOMAIN b.datasets[i].downloads
                   /\ ToUpdated(b, b.datasets[i].downloads[j], Bad)
                        = ToUpdated(m, m.datasets[i].downloads[j], at)
  <2>1. i \in DOMAIN b.datasets /\ b.datasets[i] = FromFeed(feed(i))
    BY <1>4, <1>5
  <2>2. IsDataset(m.datasets[i])
    BY <1>1, <1>5
  <2>3. LET x == FromFeed(feed(i))
        IN  /\ ToFeed(b, x, later) = [feed(i) EXCEPT !.author = Beheer]
            /\ KeptDataset(x) = KeptDataset(m.datasets[i])
            /\ DOMAIN x.downloads = DOMAIN m.datasets[i].downloads
            /\ \A j \in DOMAIN m.datasets[i].downloads :
                  ToUpdated(b, x.downloads[j], Bad) = ToUpdated(m, m.datasets[i].downloads[j], at)
    BY <1>1, <1>4, <2>2, FeedKept
  <2> HIDE DEF feed
  <2> QED
    BY <2>1, <2>3
<1>6. DOMAIN b.datasets = DOMAIN m.datasets
  BY <1>4
<1>7. ASSUME LabelsAgree(m) PROVE ToV3(b, later) = WithAuthor(s)
  <2>1. (IF b.ttl = None THEN None ELSE Int32(b.ttl)) = s.ttl
    BY <1>3, <1>4, Int32Keeps
  <2>2. createBaseURL(b.general) = s.base
    BY <1>2, <1>4, <1>7 DEF LabelsAgree
  <2> DEFINE feeds == [i \in DOMAIN m.datasets |-> [feed(i) EXCEPT !.author = Beheer]]
  <2>3. [i \in DOMAIN b.datasets |-> ToFeed(b, b.datasets[i], later)] = feeds
    <3> HIDE DEF feed
    <3> QED
      BY <1>5, <1>6
  <2>4. [i \in DOMAIN s.feeds |-> [s.feeds[i] EXCEPT !.author = Beheer]] = feeds
    <3> HIDE DEF feed
    <3> QED
      BY <1>2
  <2> HIDE DEF feeds
  <2>5. ToV3(b, later) =
          [labels |-> m.labels, ttl |-> s.ttl, base |-> s.base, routes |-> <<>>, lang |-> "nl",
           title |-> m.title, owner |-> "pdok",
           meta |-> [id |-> m.meta, templates |-> <<"csw", "opensearch", "html">>],
           feeds |-> feeds]
    BY <1>4, <2>1, <2>2, <2>3 DEF ToV3
  <2>6. WithAuthor(s) = [s EXCEPT !.feeds = feeds]
    BY <2>4 DEF WithAuthor
  <2>7. s = [labels |-> m.labels, ttl |-> s.ttl, base |-> s.base, routes |-> <<>>, lang |-> "nl",
             title |-> m.title, owner |-> "pdok",
             meta |-> [id |-> m.meta, templates |-> <<"csw", "opensearch", "html">>],
             feeds |-> s.feeds]
    BY DEF s, ToV3
  <2> QED
    BY <2>5, <2>6, <2>7
<1>8. Kept(b) = Kept(m)
  <2>1. [i \in DOMAIN b.datasets |-> KeptDataset(b.datasets[i])]
          = [i \in DOMAIN m.datasets |-> KeptDataset(m.datasets[i])]
    BY <1>5, <1>6
  <2> QED
    BY <1>4, <2>1 DEF Kept
<1>9. InRange(m.ttl) => b.ttl = m.ttl
  BY <1>2, <1>4, Int32Keeps DEF InRange
<1>10. LabelsAgree(m) => b.general = m.general
  BY <1>4 DEF LabelsAgree
<1> QED
  BY <1>5, <1>7, <1>8, <1>9, <1>10 DEF s, b

\* The author and the times of the downloads are all that a feed takes from elsewhere.
LEMMA SameFeed ==
    ASSUME NEW m, NEW n, m.author = n.author, m.updated = n.updated, NEW dataset, NEW at
    PROVE  ToFeed(m, dataset, at) = ToFeed(n, dataset, at)
<1>1. \A d : ToEntry(m, dataset, d, at) = ToEntry(n, dataset, d, at)
  BY DEF ToEntry, ToUpdated
<1> QED
  BY <1>1 DEF ToFeed

\* To edit the view edits the Atom.
LEMMA EditedKept ==
    ASSUME NEW m, IsManifest(m), NEW edit \in Edits, edit[1] = "ttl" => InRange(edit[2]),
           NEW at \in Nat
    PROVE  ToV3(Edited(m, edit), at) = Edited(ToV3(m, at), edit)
<1> DEFINE e == Edited(m, edit)
           feeds == [i \in DOMAIN m.datasets |-> ToFeed(m, m.datasets[i], at)]
<1>1. /\ e.labels = m.labels /\ e.general = m.general /\ e.meta = m.meta
      /\ e.author = m.author /\ e.updated = m.updated /\ e.datasets = m.datasets
      /\ e.ttl = IF edit[1] = "ttl" THEN edit[2] ELSE m.ttl
      /\ e.title = IF edit[1] = "title" THEN edit[2] ELSE m.title
  BY ConversionAssumption DEF IsManifest, Edited
<1> HIDE DEF e
<1>2. [i \in DOMAIN e.datasets |-> ToFeed(e, e.datasets[i], at)] = feeds
  BY <1>1, SameFeed
<1>3. edit[1] = "ttl" => (IF e.ttl = None THEN None ELSE Int32(e.ttl)) = edit[2]
  BY <1>1, Int32Keeps DEF InRange
<1> HIDE DEF feeds
<1>4. ToV3(e, at) =
        [labels |-> m.labels, ttl |-> IF e.ttl = None THEN None ELSE Int32(e.ttl),
         base |-> createBaseURL(m.general), routes |-> <<>>, lang |-> "nl", title |-> e.title,
         owner |-> "pdok", meta |-> [id |-> m.meta, templates |-> <<"csw", "opensearch", "html">>],
         feeds |-> feeds]
  BY <1>1, <1>2 DEF ToV3
<1>5. ToV3(m, at) =
        [labels |-> m.labels, ttl |-> IF m.ttl = None THEN None ELSE Int32(m.ttl),
         base |-> createBaseURL(m.general), routes |-> <<>>, lang |-> "nl", title |-> m.title,
         owner |-> "pdok", meta |-> [id |-> m.meta, templates |-> <<"csw", "opensearch", "html">>],
         feeds |-> feeds]
  BY DEF ToV3, feeds
<1>6. CASE edit[1] = "ttl"
  BY <1>1, <1>3, <1>4, <1>5, <1>6 DEF Edited, e
<1>7. CASE edit[1] = "title"
  BY <1>1, <1>4, <1>5, <1>7 DEF Edited, e
<1> QED
  BY <1>6, <1>7, ConversionAssumption

-----------------------------------------------------------------------------
(* The life of an Atom *)

\* What is known of the stored Atom and of what has been read of it.
Converted == manifest # NoObj => /\ IsManifest(manifest)
                                 /\ \E at \in Nat : stored = ToV3(manifest, at)

Viewed == view # NoObj =>
              /\ stored # NoObj
              /\ view = IF Dereferences(stored) THEN ConvertFrom(stored) ELSE Panic

ConversionInv == ConversionTypeOK /\ Converted /\ Viewed

LEMMA StoreOK ==
    ASSUME ObjAssumption, ConversionInv, NEW s, IsHub(s), NEW m,
           m # NoObj => IsManifest(m) /\ \E at \in Nat : s = ToV3(m, at),
           Store(s, m)
    PROVE  ConversionInv'
<1>1. stored' = s /\ manifest' = m /\ view' = NoObj /\ now' = now /\ s # NoObj
  BY DEF Store, ObjAssumption
<1>2. ConversionTypeOK'
  BY <1>1 DEF ConversionInv, ConversionTypeOK
<1>3. Converted'
  BY <1>1 DEF Converted
<1>4. Viewed'
  BY <1>1 DEF Viewed
<1> QED
  BY <1>2, <1>3, <1>4 DEF ConversionInv

LEMMA ConversionInvariant == ASSUME ObjAssumption PROVE Spec => []ConversionInv
<1>1. Init => ConversionInv
  BY ConversionAssumption DEF Init, ConversionInv, ConversionTypeOK, Converted, Viewed
<1>2. ConversionInv /\ [Next]_vars => ConversionInv'
  <2> SUFFICES ASSUME ConversionInv, [Next]_vars
               PROVE  ConversionInv'
    OBVIOUS
  <2>0. now \in Nat
    BY ConversionAssumption DEF ConversionInv, ConversionTypeOK
  <2>1. ASSUME NEW m \in Manifests, Apply(m)
        PROVE  ConversionInv'
    <3>1. IsManifest(m)
      BY ConversionAssumption
    <3> QED
      BY <2>0, <2>1, <3>1, ToV3OK, StoreOK DEF Apply
  <2>2. ASSUME NEW s \in Hubs, ApplyV3(s)
        PROVE  ConversionInv'
    <3>1. IsHub(s)
      BY ConversionAssumption
    <3> QED
      BY <2>2, <3>1, StoreOK DEF ApplyV3
  <2>3. ASSUME NEW edit \in Edits, EditBack(edit)
        PROVE  ConversionInv'
    <3>1. IsManifest(view)
      BY <2>3 DEF EditBack, ConversionInv, ConversionTypeOK
    <3>2. IsManifest(Edited(view, edit))
      BY <3>1, EditedOK
    <3> QED
      BY <2>0, <2>3, <3>2, ToV3OK, StoreOK DEF EditBack
  <2>4. CASE WriteBack
    <3>1. IsManifest(view)
      BY <2>4 DEF WriteBack, ConversionInv, ConversionTypeOK
    <3> QED
      BY <2>0, <2>4, <3>1, ToV3OK, StoreOK DEF WriteBack
  <2>5. CASE Read
    <3>1. view' \notin {NoObj, Panic} => IsManifest(view')
      BY <2>5, ConvertFromOK DEF Read, ConversionInv, ConversionTypeOK
    <3> QED
      BY <2>5, <3>1 DEF Read, ConversionInv, ConversionTypeOK, Converted, Viewed
  <2>6. CASE Tick
    <3>1. now' \in 0 .. MaxNow
      BY <2>6, ConversionAssumption DEF Tick, ConversionInv, ConversionTypeOK
    <3> QED
      BY <2>6, <3>1 DEF Tick, ConversionInv, ConversionTypeOK, Converted, Viewed
  <2>7. CASE UNCHANGED vars
    BY <2>7 DEF vars, ConversionInv, ConversionTypeOK, Converted, Viewed
  <2> QED
    BY <2>1, <2>2, <2>3, <2>4, <2>5, <2>6, <2>7 DEF Next
<1> QED
  BY <1>1, <1>2, PTL DEF Spec

\* Every reader finds an Atom of its version, however the two versions' users take turns:
\* ToV3 and ConvertFrom fill what their types ask for, and a time is one
\* (atom_conversion.go:147).
THEOREM ConversionTypes == ASSUME ObjAssumption PROVE Spec => []ConversionTypeOK
BY ConversionInvariant, PTL DEF ConversionInv

-----------------------------------------------------------------------------
(* Reading and writing back *)

\* A converted Atom has metadata links.
LEMMA Dereferenced ==
    ASSUME ObjAssumption, NEW m, NEW at
    PROVE  Dereferences(ToV3(m, at))
<1> DEFINE s == ToV3(m, at)
<1>1. s.meta # None
  BY DEF ToV3, ObjAssumption
<1>2. ASSUME NEW i \in DOMAIN s.feeds PROVE s.feeds[i].meta # None
  <2>1. s.feeds = [j \in DOMAIN m.datasets |-> ToFeed(m, m.datasets[j], at)]
    BY DEF ToV3
  <2>2. \A dataset : ToFeed(m, dataset, at).meta # None
    BY DEF ToFeed, ObjAssumption
  <2> HIDE DEF s
  <2> QED
    BY <1>2, <2>1, <2>2
<1> QED
  BY <1>1, <1>2 DEF Dereferences, Range

\* What is read of an Atom applied as v2beta1.
LEMMA ViewConverted ==
    ASSUME ObjAssumption, ConversionInv, manifest # NoObj, view # NoObj
    PROVE  /\ IsManifest(manifest) /\ IsManifest(view) /\ view # Panic
           /\ \E at \in Nat : stored = ToV3(manifest, at) /\ view = ConvertFrom(stored)
<1>1. IsManifest(manifest) /\ \E at \in Nat : stored = ToV3(manifest, at)
  BY DEF ConversionInv, Converted
<1>2. PICK at \in Nat : stored = ToV3(manifest, at)
  BY <1>1
<1>3. view = ConvertFrom(stored)
  BY <1>2, Dereferenced DEF ConversionInv, Viewed
<1>4. IsManifest(view)
  BY <1>1, <1>2, <1>3, ToV3OK, ConvertFromOK
<1> QED
  BY <1>1, <1>2, <1>3, <1>4 DEF ObjAssumption

\* The fields of v2beta1 that ConvertFrom (atom_conversion.go:198) fills are those that
\* ToV3 (atom_conversion.go:52) took them from.
THEOREM ReadBack == ASSUME ObjAssumption PROVE Spec => []ReadsBack
<1>1. ConversionInv => ReadsBack
  <2> SUFFICES ASSUME ConversionInv, manifest # NoObj, view # NoObj
               PROVE  /\ view # Panic
                      /\ Kept(view) = Kept(manifest)
                      /\ InRange(manifest.ttl) => view.ttl = manifest.ttl
                      /\ LabelsAgree(manifest) => view.general = manifest.general
                      /\ \A i \in DOMAIN Times(manifest) : \A j \in DOMAIN Times(manifest)[i] :
                            Times(manifest)[i][j] \in {Bad, Times(view)[i][j]}
    BY DEF ReadsBack
  <2>1. IsManifest(manifest) /\ view # Panic
    BY ViewConverted
  <2>2. PICK at \in Nat : stored = ToV3(manifest, at) /\ view = ConvertFrom(stored)
    BY ViewConverted
  <2>3. /\ Kept(view) = Kept(manifest)
        /\ InRange(manifest.ttl) => view.ttl = manifest.ttl
        /\ LabelsAgree(manifest) => view.general = manifest.general
        /\ \A i \in DOMAIN manifest.datasets : \A j \in DOMAIN manifest.datasets[i].downloads :
              /\ i \in DOMAIN view.datasets /\ j \in DOMAIN view.datasets[i].downloads
              /\ ToUpdated(view, view.datasets[i].downloads[j], Bad)
                   = ToUpdated(manifest, manifest.datasets[i].downloads[j], at)
    BY <2>1, <2>2, V3Kept
  <2>4. ASSUME NEW i \in DOMAIN Times(manifest), NEW j \in DOMAIN Times(manifest)[i]
        PROVE  Times(manifest)[i][j] \in {Bad, Times(view)[i][j]}
    <3> DEFINE d == manifest.datasets[i].downloads[j]
    <3>1. i \in DOMAIN manifest.datasets /\ j \in DOMAIN manifest.datasets[i].downloads
          /\ Times(manifest)[i][j] = ToUpdated(manifest, d, Bad)
      BY <2>4 DEF Times
    <3>2. Times(view)[i][j] = ToUpdated(view, view.datasets[i].downloads[j], Bad)
      BY <2>3, <3>1 DEF Times
    <3>3. Times(view)[i][j] = ToUpdated(manifest, d, at)
      BY <2>3, <3>1, <3>2
    <3>4. ToUpdated(manifest, d, Bad) \in {Bad, ToUpdated(manifest, d, at)}
      BY DEF ToUpdated
    <3> QED
      BY <3>1, <3>3, <3>4
  <2> QED
    BY <2>1, <2>3, <2>4
<1> QED
  BY <1>1, ConversionInvariant, PTL

\* A v2beta1 Atom that is read and written back, with an edit or without, at any time,
\* leaves in v3 what is not edited as it was, but the author (atom_conversion.go:209).
THEOREM WriteBackKept == ASSUME ObjAssumption PROVE Spec => WriteBackKeeps
<1>1. ASSUME ConversionInv, [Next]_vars, manifest # NoObj, LabelsAgree(manifest)
      PROVE  /\ WriteBack => stored' = WithAuthor(stored)
             /\ \A edit \in Edits : EditBack(edit) /\ (edit[1] = "ttl" => InRange(edit[2])) =>
                   stored' = Edited(WithAuthor(stored), edit)
  <2>1. ASSUME view # NoObj
        PROVE  IsManifest(view) /\ ToV3(view, now) = WithAuthor(stored)
    <3>1. IsManifest(manifest) /\ IsManifest(view)
      BY <1>1, <2>1, ViewConverted
    <3>2. PICK at \in Nat : stored = ToV3(manifest, at) /\ view = ConvertFrom(stored)
      BY <1>1, <2>1, ViewConverted
    <3>3. now \in Nat
      BY <1>1, ConversionAssumption DEF ConversionInv, ConversionTypeOK
    <3> QED
      BY <1>1, <3>1, <3>2, <3>3, V3Kept
  <2>2. ASSUME WriteBack PROVE stored' = WithAuthor(stored)
    BY <2>1, <2>2 DEF WriteBack, Store
  <2>3. ASSUME NEW edit \in Edits, EditBack(edit), edit[1] = "ttl" => InRange(edit[2])
        PROVE  stored' = Edited(WithAuthor(stored), edit)
    <3>1. now \in Nat
      BY <1>1, ConversionAssumption DEF ConversionInv, ConversionTypeOK
    <3>2. stored' = ToV3(Edited(view, edit), now) /\ view # NoObj
      BY <2>3 DEF EditBack, Store
    <3>3. ToV3(Edited(view, edit), now) = Edited(ToV3(view, now), edit)
      BY <2>1, <2>3, <3>1, <3>2, EditedKept
    <3> QED
      BY <2>1, <3>2, <3>3
  <2> QED
    BY <2>2, <2>3
<1> QED
  BY <1>1, ConversionInvariant, PTL DEF Spec, WriteBackKeeps

\* The items of a concatenation.
LEMMA ConcatAt ==
    ASSUME NEW S, NEW s1 \in Seq(S), NEW s2 \in Seq(S)
    PROVE  \A i \in 1 .. Len(s1) + Len(s2) :
               (s1 \o s2)[i] = IF i <= Len(s1) THEN s1[i] ELSE s2[i - Len(s1)]
OBVIOUS

\* What follows a single item is moved by one.
LEMMA Prefixed ==
    ASSUME NEW x, NEW S, NEW q \in Seq(S)
    PROVE  /\ Len(<<x>> \o q) = Len(q) + 1
           /\ (<<x>> \o q)[1] = x
           /\ \A i \in 1 .. Len(q) : (<<x>> \o q)[i + 1] = q[i]
<1> DEFINE one == <<x>>
           T == S \cup {x}
           all == one \o q
           n == Len(q)
<1>1. one \in Seq(T) /\ q \in Seq(T) /\ Len(one) = 1 /\ one[1] = x /\ n \in Nat
  OBVIOUS
<1> HIDE DEF one, T
<1>2. Len(all) = Len(one) + n
  BY <1>1, ConcatProperties
<1>3. \A i \in 1 .. Len(one) + n : all[i] = IF i <= Len(one) THEN one[i] ELSE q[i - Len(one)]
  BY <1>1, ConcatAt
<1> HIDE DEF all, n
<1>4. all[1] = x
  BY <1>1, <1>3
<1>5. ASSUME NEW i \in 1 .. n PROVE all[i + 1] = q[i]
  <2>1. i + 1 \in 1 .. Len(one) + n /\ ~ i + 1 <= Len(one) /\ (i + 1) - Len(one) = i
    BY <1>1
  <2> QED
    BY <1>3, <2>1
<1>6. Len(all) = n + 1
  BY <1>1, <1>2
<1> QED
  BY <1>4, <1>5, <1>6 DEF all, one, n

LEMMA DatasetPolygon ==
    ASSUME NEW s, NEW feed, NEW e \in Range(DatasetFeed(s, feed).entries)
    PROVE  \E j \in DOMAIN feed.entries : e.polygon = feed.entries[j].bbox
<1> DEFINE es == getDatasetEntries(s, feed)
<1>1. DatasetFeed(s, feed).entries = es
  BY DEF DatasetFeed
<1>2. PICK j \in DOMAIN es : e = es[j]
  BY <1>1 DEF Range
<1>3. DOMAIN es = DOMAIN feed.entries
  BY DEF getDatasetEntries
<1>4. es[j].polygon = feed.entries[j].bbox
  BY <1>2, <1>3 DEF getDatasetEntries
<1> QED
  BY <1>2, <1>3, <1>4

LEMMA ConvertedBox ==
    ASSUME NEW m, NEW dataset, NEW at
    PROVE  \A j \in DOMAIN ToFeed(m, dataset, at).entries :
              ToFeed(m, dataset, at).entries[j].bbox = dataset.bbox
<1>1. ToFeed(m, dataset, at).entries =
        [j \in DOMAIN dataset.downloads |-> ToEntry(m, dataset, dataset.downloads[j], at)]
  BY DEF ToFeed
<1>2. \A d : ToEntry(m, dataset, d, at).bbox = dataset.bbox
  BY DEF ToEntry
<1> QED
  BY <1>1, <1>2

\* The polygon that getServiceEntries takes from a feed's first entry (mapper.go:117) is
\* that of all its entries, for Atoms applied as v2beta1.
THEOREM PolygonsAgree == ASSUME ObjAssumption PROVE Spec => []ConvertedPolygonsAgree
<1>1. ConversionInv => ConvertedPolygonsAgree
  <2> SUFFICES ASSUME ConversionInv, manifest # NoObj
               PROVE  LET config == MapAtomV3ToAtomGeneratorConfig(stored)
                      IN  \A i \in 1 .. (Len(config) - 1) : \A e \in Range(config[i + 1].entries) :
                              e.polygon = config[1].entries[i].polygon
    BY DEF ConvertedPolygonsAgree
  <2>1. PICK at \in Nat : stored = ToV3(manifest, at)
    BY DEF ConversionInv, Converted
  <2> DEFINE feeds == stored.feeds
             bodies == [f \in DOMAIN feeds |-> DatasetFeed(stored, feeds[f])]
             config == MapAtomV3ToAtomGeneratorConfig(stored)
  <2>2. IsHub(stored)
    BY <2>1, ToV3OK DEF ConversionInv, Converted
  <2>3. /\ Len(feeds) \in Nat /\ DOMAIN feeds = 1 .. Len(feeds)
        /\ \A i \in DOMAIN feeds : IsFeed(feeds[i])
    BY <2>2 DEF IsHub, IsSeqOf
  <2>4. /\ Len(config) = Len(feeds) + 1
        /\ config[1] = ServiceFeed(stored)
        /\ \A i \in DOMAIN feeds : config[i + 1] = DatasetFeed(stored, feeds[i])
    <3>1. bodies \in [1 .. Len(feeds) -> {DatasetFeed(stored, feeds[f]) : f \in DOMAIN feeds}]
      BY <2>3
    <3>2. bodies \in Seq({DatasetFeed(stored, feeds[f]) : f \in DOMAIN feeds}) /\ Len(bodies) = Len(feeds)
      BY <2>3, <3>1
    <3>3. config = <<ServiceFeed(stored)>> \o bodies
      BY DEF MapAtomV3ToAtomGeneratorConfig
    <3>4. \A i \in DOMAIN feeds : bodies[i] = DatasetFeed(stored, feeds[i])
      OBVIOUS
    <3> HIDE DEF bodies, config, feeds
    <3>5. /\ Len(config) = Len(bodies) + 1
          /\ config[1] = ServiceFeed(stored)
          /\ \A i \in 1 .. Len(bodies) : config[i + 1] = bodies[i]
      BY <3>2, <3>3, Prefixed
    <3> QED
      BY <2>3, <3>2, <3>4, <3>5
  <2>5. ASSUME NEW i \in DOMAIN feeds
        PROVE  \E box : \A j \in DOMAIN feeds[i].entries : feeds[i].entries[j].bbox = box
    <3>1. feeds[i] = ToFeed(manifest, manifest.datasets[i], at)
      BY <2>1, <2>5 DEF ToV3
    <3>2. \A j \in DOMAIN feeds[i].entries : feeds[i].entries[j].bbox = manifest.datasets[i].bbox
      BY <3>1, ConvertedBox
    <3> QED
      BY <3>2
  <2>6. ASSUME NEW i \in DOMAIN feeds, NEW e \in Range(config[i + 1].entries)
        PROVE  e.polygon = config[1].entries[i].polygon
    <3>1. PICK j \in DOMAIN feeds[i].entries : e.polygon = feeds[i].entries[j].bbox
      <4>1. e \in Range(DatasetFeed(stored, feeds[i]).entries)
        BY <2>4, <2>6
      <4> QED
        BY <4>1, DatasetPolygon
    <3>2. IsFeed(feeds[i])
      BY <2>3, <2>6
    <3>3. feeds[i].entries # <<>> /\ 1 \in DOMAIN feeds[i].entries
      BY <3>1, <3>2 DEF IsFeed, IsSeqOf
    <3>4. config[1].entries[i].polygon = feeds[i].entries[1].bbox
      <4>1. config[1].entries = getServiceEntries(stored)
        BY <2>4 DEF ServiceFeed
      <4> HIDE DEF config
      <4> QED
        BY <2>6, <3>3, <4>1 DEF getServiceEntries
    <3> QED
      BY <2>5, <2>6, <3>1, <3>3, <3>4
  <2> HIDE DEF config, feeds
  <2> QED
    BY <2>3, <2>4, <2>6 DEF config
<1> QED
  BY <1>1, ConversionInvariant, PTL
=============================================================================
