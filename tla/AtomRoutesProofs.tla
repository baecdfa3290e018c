--------------------------- MODULE AtomRoutesProofs ---------------------------
(***************************************************************************)
(* The middlewares are ready for every URL that is routed, for all specs,  *)
(* OwnerInfos and bounds.                                                  *)
(***************************************************************************)
EXTENDS AtomRefinementProofs

(***************************************************************************)
(* What belongs to an incarnation, by its uid, and is about some URLs      *)
(* precedes an Atom of a later incarnation, or of the same one with no     *)
(* less URLs.  Children precede every Atom that is yet to be seen, and of  *)
(* each child that is about URLs the stored version is the last.  A cached *)
(* middleware that a call finds up to date may be stale, but the one that  *)
(* is stored then has no less URLs than the spec of the call.              *)
(***************************************************************************)
Precedes(uid, urls, atom) == uid < atom.uid \/ (uid = atom.uid /\ urls \subseteq atom.spec.urls)

KidPrecedes(k, v, atom) == Precedes(v.owner, URLs(k, v.content), atom)

KidsBefore ==
    Untouched => \A k \in Routed : \A v \in View(k) :
        /\ \A w \in View(AtomId) : KidPrecedes(k, v, w)
        /\ rec.pc # "idle" => KidPrecedes(k, v, rec.atom)

StoredLast ==
    Untouched => \A k \in Routed : api[k] # NoObj =>
        \A v \in View(k) : \/ v.owner < api[k].owner
                           \/ /\ v.owner = api[k].owner
                              /\ URLs(k, v.content) \subseteq URLs(k, api[k].content)

PassedHave ==
    Live /\ Untouched /\ rec.pc # "idle" /\ rec.atom.uid = api[AtomId].uid
        => \A k \in Passed \cap Routed : spec.urls \subseteq URLs(k, api[k].content)

RouteHas ==
    Live /\ Untouched /\ Owned(IngressRoute)
        => \A k \in Refs(IngressRoute, api[IngressRoute].content) \cap Routed :
              api[IngressRoute].content.urls \subseteq URLs(k, api[k].content)

RoutesInv == KidsBefore /\ StoredLast /\ PassedHave /\ RouteHas

-----------------------------------------------------------------------------
(* The order of the Atoms *)

\* From the incarnation and URLs of one Atom to those of a later one.
LEMMA PrecedesTransitive ==
    ASSUME NEW u \in Nat, NEW urls, NEW a \in Atoms, NEW b \in Atoms,
           Precedes(u, urls, a), Precedes(a.uid, a.spec.urls, b)
    PROVE  Precedes(u, urls, b)
<1>1. a.uid \in Nat /\ b.uid \in Nat
  BY BoundsAssumption DEF Atoms
<1> QED
  BY <1>1 DEF Precedes

\* The cached Atom, and the one a call works on, precede all that are yet to be seen.
LEMMA AtomsInOrder ==
    ASSUME TypeOK, Tracks, PromiseProofs!ServiceInv, NEW w \in View(AtomId)
    PROVE  /\ rec.pc # "idle" => Precedes(rec.atom.uid, rec.atom.spec.urls, w)
           /\ cache[AtomId] # NoObj => Precedes(cache[AtomId].uid, cache[AtomId].spec.urls, w)
<1> DEFINE n == Len(pipe[AtomId])
<1>1. /\ n \in Nat /\ DOMAIN pipe[AtomId] = 1 .. n /\ Len(Seen) = n + 1
      /\ DOMAIN Seen = 1 .. (n + 1)
  BY AtomsOK, SeenOK DEF Seen
<1>2. w \in Atoms /\ w # NoObj
  BY ViewOK DEF View
<1>3. /\ Seen[1] = Version(cache[AtomId])
      /\ \A i \in 1 .. n : Seen[i + 1] = Version(pipe[AtomId][i])
      /\ Seen[n + 1] = Version(api[AtomId])
  <2>1. \A i \in 1 .. n : i + 1 \in 1 .. (n + 1) /\ i + 1 # 1 /\ (i + 1) - 1 = i
    BY <1>1
  <2>2. \A i \in 1 .. n : Seen[i + 1] = Version(pipe[AtomId][i])
    BY <2>1 DEF Seen
  <2>3. Seen[1] = Version(cache[AtomId]) /\ Promise!Stored = Version(api[AtomId])
    BY SeenOK
  <2> QED
    BY <1>1, <2>2, <2>3 DEF Promise!Stored
<1> HIDE DEF n
<1>4. PICK i \in 1 .. (n + 1) : Seen[i] = Version(w)
  <2>1. 1 \in 1 .. (n + 1) /\ n + 1 \in 1 .. (n + 1) /\ \A i \in 1 .. n : i + 1 \in 1 .. (n + 1)
    BY <1>1
  <2>2. w = api[AtomId] \/ w = cache[AtomId] \/ \E i \in 1 .. n : w = pipe[AtomId][i]
    BY <1>1 DEF View
  <2> QED
    BY <1>3, <2>1, <2>2
<1>5. 1 \in 1 .. (n + 1) /\ 1 <= i
  BY <1>1
<1>6. Seen[i] # NoObj /\ Seen[i].uid = w.uid /\ Seen[i].spec = w.spec
  BY <1>2, <1>4, VersionOK
<1>7. ASSUME rec.pc # "idle" PROVE Precedes(rec.atom.uid, rec.atom.spec.urls, w)
  <2>1. Working # NoObj /\ Working.uid = rec.atom.uid /\ Working.spec = rec.atom.spec
    BY <1>7, AtomsOK, VersionOK DEF Working
  <2>2. PromiseProofs!InOrder(Working, Seen[i])
    BY <1>1, <1>4 DEF PromiseProofs!ServiceInv, PromiseProofs!WorkingOrdered
  <2> QED
    BY <1>6, <2>1, <2>2 DEF PromiseProofs!InOrder, PromiseProofs!Before, Precedes
<1>8. ASSUME cache[AtomId] # NoObj
      PROVE  Precedes(cache[AtomId].uid, cache[AtomId].spec.urls, w)
  <2>1. Seen[1] # NoObj /\ Seen[1].uid = cache[AtomId].uid /\ Seen[1].spec = cache[AtomId].spec
    BY <1>3, <1>8, AtomsOK, VersionOK
  <2>2. PromiseProofs!InOrder(Seen[1], Seen[i])
    BY <1>1, <1>4, <1>5 DEF PromiseProofs!ServiceInv, PromiseProofs!VersionsOrdered
  <2> QED
    BY <1>6, <2>1, <2>2 DEF PromiseProofs!InOrder, PromiseProofs!Before, Precedes
<1> QED
  BY <1>7, <1>8

\* An Atom that comes into view is a version of the stored one, or a new incarnation.
LEMMA AtomStep ==
    ASSUME TypeOK, UidInv, [Next]_vars, PromiseProofs!ServiceInv', NEW w \in View(AtomId)'
    PROVE  \/ w \in View(AtomId)
           \/ Live /\ w \in Atoms /\ Precedes(api[AtomId].uid, api[AtomId].spec.urls, w)
           \/ w.uid = nextUid
<1> USE DEF UidInv
<1>1. StoreStep
  BY NextKinds
<1>2. ASSUME NEW v \in Versions(AtomId), Write(AtomId, v), UNCHANGED cache
      PROVE  View(AtomId)' \subseteq View(AtomId) \cup {v}
  BY <1>2, WriteView, KeysAreKids
<1>3. ASSUME NEW v \in Versions(AtomId), CreatesAtom(v)
      PROVE  w \in View(AtomId) \/ w.uid = nextUid
  BY <1>2, <1>3 DEF CreatesAtom
<1>4. ASSUME NEW v \in Versions(AtomId), WritesAtom(v), w = v
      PROVE  Live /\ w \in Atoms /\ Precedes(api[AtomId].uid, api[AtomId].spec.urls, w)
  <2>1. w # NoObj /\ Live /\ v \in Atoms
    BY <1>4, VersionsOf DEF WritesAtom, View
  <2>2. PICK n \in Nat : n = Len(pipe[AtomId]) + 1
    <3>1. Len(pipe[AtomId]) \in Nat
      BY AtomsOK
    <3> QED
      BY <3>1
  <2>3. Len(Seen) = n /\ Seen[n] = Version(api[AtomId]) /\ n \in 1 .. n
    <3>1. Len(Seen) = n /\ n \in 1 .. n
      BY <2>2, SeenOK, AtomsOK
    <3> QED
      BY <3>1, SeenOK DEF Promise!Stored
  <2>4. Seen \in Seq({Seen[i] : i \in 1 .. n})
    <3>1. Seen = [i \in 1 .. n |-> Seen[i]]
      BY <2>2 DEF Seen
    <3> QED
      BY <3>1
  <2>5. Seen' = Append(Seen, Version(v))
    BY <1>4, SeenWrite DEF WritesAtom, Promise!Submit
  <2>6. /\ DOMAIN Seen' = 1 .. (n + 1) /\ Seen'[n] = Version(api[AtomId])
        /\ Seen'[n + 1] = Version(v)
    BY <2>3, <2>4, <2>5
  <2>7. PromiseProofs!InOrder(Version(api[AtomId]), Version(v))
    <3>1. \A i, j \in 1 .. (n + 1) : i <= j => PromiseProofs!InOrder(Seen'[i], Seen'[j])
      BY <2>6 DEF PromiseProofs!ServiceInv, PromiseProofs!VersionsOrdered, PromiseProofs!InOrder
    <3>2. n \in 1 .. (n + 1) /\ n + 1 \in 1 .. (n + 1) /\ n <= n + 1
      BY <2>3
    <3>3. PromiseProofs!InOrder(Seen'[n], Seen'[n + 1])
      BY <3>1, <3>2
    <3> QED
      BY <2>6, <3>3
  <2>8. /\ Version(v) # NoObj /\ Version(v).uid = v.uid /\ Version(v).spec = v.spec
        /\ Version(api[AtomId]) # NoObj /\ Version(api[AtomId]).uid = api[AtomId].uid
        /\ Version(api[AtomId]).spec = api[AtomId].spec
    BY <1>4, <2>1, AtomsOK, VersionOK DEF Live
  <2> QED
    BY <1>4, <2>1, <2>7, <2>8 DEF PromiseProofs!InOrder, PromiseProofs!Before, Precedes
<1>5. ASSUME NEW v \in Versions(AtomId), WritesAtom(v)
      PROVE  \/ w \in View(AtomId)
             \/ Live /\ w \in Atoms /\ Precedes(api[AtomId].uid, api[AtomId].spec.urls, w)
  BY <1>2, <1>4, <1>5 DEF WritesAtom
<1>6. ASSUME NEW i \in Ids, i # AtomId, NEW v \in Versions(i), Write(i, v), UNCHANGED cache
      PROVE  View(AtomId)' = View(AtomId)
  BY <1>6, WriteView, KeysAreKids
<1>7. ASSUME NEW k \in Kids, NEW v \in Versions(k), WritesKid(k, v) \/ DriftsKid(k, v)
      PROVE  View(AtomId)' = View(AtomId)
  BY <1>6, <1>7, KindsDiffer, KeysAreKids DEF WritesKid, DriftsKid
<1>8. ASSUME NEW k \in Kids, RemovesKid(k)
      PROVE  View(AtomId)' = View(AtomId)
  BY <1>6, <1>8, KindsDiffer, KeysAreKids, VersionsOf DEF RemovesKid
<1>9. ASSUME NEW v \in Versions(OwnerId), WritesOwner(v)
      PROVE  View(AtomId)' = View(AtomId)
  BY <1>6, <1>9, KindsDiffer, KeysAreKids DEF WritesOwner
<1>10. ASSUME NEW i \in Ids, Touches(i) \/ Deliver(i)
       PROVE  View(AtomId)' \subseteq View(AtomId)
  BY <1>10, TouchView, DeliverView, KeysAreKids DEF Touches
<1>11. ASSUME Quiet \/ Relists
       PROVE  View(AtomId)' \subseteq View(AtomId)
  BY <1>11, RelistView, KeysAreKids DEF Quiet, View
<1> QED
  BY <1>1, <1>3, <1>5, <1>7, <1>8, <1>9, <1>10, <1>11 DEF StoreStep

-----------------------------------------------------------------------------
(* The invariant *)

\* What a stage writes precedes the Atom it works for, and all that are yet to be seen.
LEMMA WrittenPrecedes ==
    ASSUME TypeOK, Tracks, PromiseProofs!ServiceInv, NEW k \in Routed, NEW v, WritesKid(k, v)
    PROVE  /\ \A w \in View(AtomId) : KidPrecedes(k, v, w)
           /\ rec.pc # "idle" /\ KidPrecedes(k, v, rec.atom)
           /\ v.owner = rec.atom.uid /\ URLs(k, v.content) = rec.atom.spec.urls
<1>1. rec.pc # "idle" /\ v.owner = rec.atom.uid /\ URLs(k, v.content) = rec.atom.spec.urls
  BY DEF WritesKid, HasURLs, spec
<1>2. \A w \in View(AtomId) : Precedes(rec.atom.uid, rec.atom.spec.urls, w)
  BY <1>1, AtomsInOrder
<1> QED
  BY <1>1, <1>2 DEF KidPrecedes, Precedes

LEMMA RoutedAreKids == Routed \subseteq Kids /\ IngressRoute \in Routed /\ StripPrefix \in Routed
BY DEF Routed, Kids, FixedKeys

LEMMA KidsBeforeNext ==
    ASSUME TypeOK, UidInv, PromiseProofs!ServiceInv, PromiseProofs!ServiceInv', KidsBefore,
           [Next]_vars
    PROVE  KidsBefore'
<1> SUFFICES ASSUME Untouched', NEW k \in Routed, NEW v \in View(k)'
             PROVE  /\ \A w \in View(AtomId)' : KidPrecedes(k, v, w)
                    /\ rec'.pc # "idle" => KidPrecedes(k, v, rec'.atom)
  BY DEF KidsBefore, KidPrecedes
<1> USE DEF UidInv
<1>0. k \in Kids
  BY RoutedAreKids
<1>1. Untouched
  BY <1>0, KidStep
<1>2. /\ \A w \in View(AtomId) : KidPrecedes(k, v, w)
      /\ rec.pc # "idle" => KidPrecedes(k, v, rec.atom)
      /\ v.owner \in Nat /\ v.owner < nextUid
  <2>1. CASE v \in View(k)
    BY <1>0, <1>1, <2>1, ViewOK DEF KidsBefore, UidsBelow
  <2>2. CASE v \notin View(k)
    <3>1. WritesKid(k, v)
      BY <1>0, <2>2, KidStep
    <3>2. v.owner \in Nat /\ v.owner < nextUid
      BY <3>1, ViewOK DEF WritesKid, UidsBelow
    <3> QED
      BY <3>1, <3>2, WrittenPrecedes
  <2> QED
    BY <2>1, <2>2
<1>3. ASSUME NEW w \in View(AtomId)' PROVE KidPrecedes(k, v, w)
  <2>1. CASE w \in View(AtomId)
    BY <1>2, <2>1
  <2>2. CASE Live /\ w \in Atoms /\ Precedes(api[AtomId].uid, api[AtomId].spec.urls, w)
    <3>1. api[AtomId] \in View(AtomId) /\ api[AtomId] \in Atoms
      BY <2>2, ViewOK
    <3> QED
      BY <1>2, <2>2, <3>1, PrecedesTransitive DEF KidPrecedes
  <2>3. CASE w.uid = nextUid
    BY <1>2, <2>3 DEF KidPrecedes, Precedes
  <2> QED
    BY <2>1, <2>2, <2>3, AtomStep
<1>4. ASSUME rec'.pc # "idle" PROVE KidPrecedes(k, v, rec'.atom)
  <2>1. \/ rec.pc # "idle" /\ rec'.atom = rec.atom
        \/ rec'.atom = cache[AtomId] /\ cache[AtomId] # NoObj
    BY <1>4, NextKinds DEF RecStep
  <2>2. cache[AtomId] # NoObj => cache[AtomId] \in View(AtomId)
    BY ViewOK
  <2> QED
    BY <1>2, <2>1, <2>2
<1> QED
  BY <1>3, <1>4

LEMMA StoredLastNext ==
    ASSUME TypeOK, UidInv, PromiseProofs!ServiceInv, KidsBefore, StoredLast, [Next]_vars
    PROVE  StoredLast'
<1> SUFFICES ASSUME Untouched', NEW k \in Routed, api'[k] # NoObj, NEW v \in View(k)'
             PROVE  \/ v.owner < api'[k].owner
                    \/ /\ v.owner = api'[k].owner
                       /\ URLs(k, v.content) \subseteq URLs(k, api'[k].content)
  BY DEF StoredLast, URLs
<1>0. k \in Kids /\ Untouched
  BY RoutedAreKids, KidStep
<1>1. CASE api'[k] = api[k] /\ View(k)' \subseteq View(k)
  BY <1>0, <1>1 DEF StoredLast
<1>2. ASSUME NEW u \in Versions(k), WritesKid(k, u), api'[k] = u, View(k)' \subseteq View(k) \cup {u}
      PROVE  \/ v.owner < u.owner
             \/ v.owner = u.owner /\ URLs(k, v.content) \subseteq URLs(k, u.content)
  <2>1. /\ rec.pc # "idle" /\ u.owner = rec.atom.uid
        /\ URLs(k, u.content) = rec.atom.spec.urls
    BY <1>2, WrittenPrecedes DEF UidInv
  <2>2. CASE v \in View(k)
    BY <1>0, <2>1, <2>2 DEF KidsBefore, KidPrecedes, Precedes
  <2>3. CASE v = u
    BY <2>3
  <2> QED
    BY <1>2, <2>2, <2>3
<1> QED
  BY <1>0, <1>1, <1>2, KidStep

\* What a call has passed is there with its URLs, and a middleware that is up to date in
\* the cache has in the meantime lost none.
LEMMA PassedHaveNext ==
    ASSUME IInv, IInv', PromiseProofs!ServiceInv, StoredLast, PassedHave, [Next]_vars
    PROVE  PassedHave'
<1> SUFFICES ASSUME Live', Untouched', rec'.pc # "idle", rec'.atom.uid = api'[AtomId].uid,
                    NEW k \in Passed', k \in Routed
             PROVE  rec'.atom.spec.urls \subseteq URLs(k, api'[k].content)
  BY DEF PassedHave, URLs, spec
<1> USE DEF UidInv
<1>0. /\ TypeOK /\ TypeOK' /\ UidInv /\ PassedOwned /\ PassedOwned' /\ OwnContent
      /\ k \in Kids /\ Untouched
  BY RoutedAreKids, KidStep DEF IInv
<1>1. Owned(k)'
  BY <1>0 DEF PassedOwned
<1>2. Live /\ api'[AtomId].uid = api[AtomId].uid
  BY <1>0, SameOrNew, NewOwnsNothing
<1>3. ASSUME rec.pc # "idle", rec'.atom = rec.atom, k \in Passed
      PROVE  rec.atom.spec.urls \subseteq URLs(k, api'[k].content)
  <2>1. rec.atom.spec.urls \subseteq URLs(k, api[k].content)
    BY <1>0, <1>2, <1>3 DEF PassedHave, spec
  <2>2. ASSUME NEW u, WritesKid(k, u), api'[k] = u
        PROVE  rec.atom.spec.urls \subseteq URLs(k, api'[k].content)
    BY <2>2 DEF WritesKid, HasURLs, spec
  <2>3. api'[k] # NoObj
    BY <1>1 DEF Owned
  <2> QED
    BY <1>0, <2>1, <2>2, <2>3, KidStep
<1>4. ASSUME Extends(k)
      PROVE  rec.atom.spec.urls \subseteq URLs(k, api'[k].content)
  <2>1. PICK c \in Contents(k) : CreateOrUpdate(k, c, rec') /\ HasURLs(k, c)
    BY <1>4 DEF Extends
  <2>2. /\ rec.pc # "idle" /\ rec'.atom = rec.atom /\ rec' # Goto("fail") /\ k # Deployment
        /\ URLs(k, c) = rec.atom.spec.urls
    BY <1>4, <2>1 DEF Extends, HasURLs, spec
  <2> DEFINE new == [owner |-> rec.atom.uid, content |-> c]
  <2>3. new # NoObj /\ new.owner = rec.atom.uid /\ new.content = c
    <3>1. new \in Kid(k)
      BY <1>0, <2>2 DEF TypeOK, RecOK, Recs, Atoms, Kid
    <3> QED
      BY <1>0, <3>1, NoObjAssumption
  <2>4. (UpToDate(k, new) /\ NoWrite) \/ Put(k, new)
    BY <2>1, <2>2 DEF CreateOrUpdate, ConflictIgnored
  <2>5. CASE UpToDate(k, new) /\ NoWrite
    <3>1. new \in View(k) /\ api'[k] = api[k]
      BY <1>0, <2>3, <2>5, ViewOK DEF UpToDate, NoWrite
    <3>2. api[k] # NoObj /\ api[k].owner = rec.atom.uid /\ api[k].owner \in Nat
      <4>1. api[k] # NoObj /\ api[k].owner = api'[AtomId].uid
        BY <1>1, <3>1 DEF Owned
      <4> QED
        BY <1>0, <2>2, <4>1, ViewOK
    <3>3. URLs(k, new.content) \subseteq URLs(k, api[k].content)
      BY <1>0, <2>3, <3>1, <3>2 DEF StoredLast
    <3> QED
      BY <2>2, <2>3, <3>1, <3>3
  <2>6. CASE Put(k, new)
    <3>1. api'[k] = new
      BY <1>0, <2>6, KeysAreKids DEF Put, NoWrite, Write, TypeOK, ApiOK, IsMap
    <3> QED
      BY <2>2, <2>3, <3>1
  <2> QED
    BY <2>4, <2>5, <2>6
<1>5. CASE UNCHANGED rec /\ Passed' = Passed
  BY <1>3, <1>5
<1>6. ASSUME NEW j \in Kids, Extends(j)
      PROVE  rec'.atom.spec.urls \subseteq URLs(k, api'[k].content)
  <2>1. rec.pc # "idle" /\ rec'.atom = rec.atom /\ (k \in Passed \/ k = j)
    BY <1>6 DEF Extends
  <2> QED
    BY <1>3, <1>4, <1>6, <2>1
<1> QED
  BY <1>0, <1>5, <1>6, PassedSteps

LEMMA RouteHasNext ==
    ASSUME IInv, IInv', PromiseProofs!ServiceInv, KidsBefore, PassedHave, RouteHas, [Next]_vars
    PROVE  RouteHas'
<1> DEFINE route == api[IngressRoute]
<1> SUFFICES ASSUME Live', Untouched', Owned(IngressRoute)', NEW k \in Routed,
                    k \in Refs(IngressRoute, api'[IngressRoute].content)
             PROVE  api'[IngressRoute].content.urls \subseteq URLs(k, api'[k].content)
  BY DEF RouteHas, URLs, Refs
<1> USE DEF UidInv
<1>0. /\ TypeOK /\ UidInv /\ PassedOwned /\ RefsResolve
      /\ k \in Kids /\ IngressRoute \in Kids /\ IngressRoute \in Routed /\ Untouched
      /\ api'[IngressRoute] # NoObj
  BY RoutedAreKids, KidStep DEF IInv, Owned
<1>1. Live /\ api'[AtomId].uid = api[AtomId].uid
  BY <1>0, SameOrNew, NewOwnsNothing
<1>2. \A c : URLs(IngressRoute, c) = c.urls
  BY KindsDiffer DEF URLs
<1>3. CASE api'[IngressRoute] = api[IngressRoute]
  <2>1. Owned(IngressRoute)
    BY <1>1, <1>3 DEF Owned
  <2>2. Owned(k) /\ route.content.urls \subseteq URLs(k, api[k].content)
    BY <1>0, <1>1, <1>3, <2>1 DEF RefsResolve, RouteHas
  <2>3. ASSUME NEW u, WritesKid(k, u), api'[k] = u
        PROVE  route.content.urls \subseteq URLs(k, u.content)
    <3>1. rec.pc # "idle" /\ URLs(k, u.content) = rec.atom.spec.urls
      BY <2>3 DEF WritesKid, HasURLs, spec
    <3>2. route \in View(IngressRoute) /\ api[AtomId] \in View(AtomId)
      BY <1>0, <1>1, <2>1, ViewOK DEF Owned
    <3>3. KidPrecedes(IngressRoute, route, rec.atom)
      BY <1>0, <3>1, <3>2 DEF KidsBefore
    <3>4. route.owner = api[AtomId].uid /\ rec.atom.uid <= api[AtomId].uid
          /\ route.owner \in Nat /\ rec.atom.uid \in Nat
      BY <1>0, <2>1, <3>1, <3>2, ViewOK DEF RecOld, Owned
    <3> QED
      BY <1>2, <3>1, <3>3, <3>4 DEF KidPrecedes, Precedes
  <2> QED
    BY <1>0, <1>1, <1>3, <2>2, <2>3, KidStep
<1>4. ASSUME NEW u \in Versions(IngressRoute), WritesKid(IngressRoute, u), api'[IngressRoute] = u
      PROVE  u.content.urls \subseteq URLs(k, api'[k].content)
  <2>1. rec.pc # "idle" /\ u.owner = rec.atom.uid /\ k \in Passed /\ u.content.urls = spec.urls
    BY <1>0, <1>2, <1>4 DEF WritesKid, HasURLs
  <2>2. rec.atom.uid = api[AtomId].uid
    BY <1>1, <1>4, <2>1 DEF Owned
  <2>3. Owned(k) /\ spec.urls \subseteq URLs(k, api[k].content)
    BY <1>0, <1>1, <2>1, <2>2 DEF PassedOwned, PassedHave
  <2>4. ASSUME NEW w, WritesKid(k, w), api'[k] = w
        PROVE  spec.urls \subseteq URLs(k, w.content)
    BY <2>4 DEF WritesKid, HasURLs
  <2> QED
    BY <1>0, <1>1, <2>1, <2>3, <2>4, KidStep
<1> QED
  BY <1>0, <1>3, <1>4, KidStep

LEMMA RoutesInit == Init => RoutesInv
<1> SUFFICES ASSUME Init PROVE RoutesInv
  OBVIOUS
<1>1. /\ ~ Live /\ \A k \in Kids : api[k] = NoObj /\ cache[k] = NoObj /\ pipe[k] = << >>
      /\ Kids \subseteq Ids
  BY KindsDiffer, KeysAreKids DEF Init, Live
<1>2. \A k \in Kids : View(k) = {}
  BY <1>1 DEF View
<1> QED
  BY <1>1, <1>2, RoutedAreKids DEF RoutesInv, KidsBefore, StoredLast, PassedHave, RouteHas

\* Whatever the IngressRoute of the live Atom routes, its middlewares are ready for: the
\* order of the calls in createOrUpdateAllForAtom (atom_controller.go:163) and the rule of
\* the webhook that URLs stay make it so, however stale the cache is.
THEOREM MiddlewaresPrepared == Spec => []RoutesPrepared
<1>1. Spec => []PromiseProofs!ServiceInv
  BY ImplementsPromise, SamePromise, PromiseProofs!ServiceInvariant, PTL DEF Implements
<1>2. /\ IInv /\ IInv' /\ PromiseProofs!ServiceInv /\ PromiseProofs!ServiceInv'
      /\ RoutesInv /\ [Next]_vars
      => RoutesInv'
  BY KidsBeforeNext, StoredLastNext, PassedHaveNext, RouteHasNext DEF RoutesInv, IInv
<1>3. Spec => []RoutesInv
  BY <1>1, <1>2, RoutesInit, Invariant, PTL DEF Spec
<1>4. IInv /\ RoutesInv => RoutesPrepared
  <2> SUFFICES ASSUME IInv, RoutesInv, Live, Untouched, Owned(IngressRoute)
               PROVE  LET route == api[IngressRoute].content
                      IN  /\ Owned(StripPrefix)
                          /\ route.urls \subseteq api[StripPrefix].content
                          /\ \A i \in 0 .. (route.downloads - 1) :
                                /\ Owned(Downloads(i))
                                /\ route.urls \subseteq api[Downloads(i)].content.urls
    BY DEF RoutesPrepared
  <2> DEFINE route == api[IngressRoute].content
  <2>1. PICK s \in Specs : route = mutateIngressRoute(s)
    <3>1. IngressRoute \in Kids /\ Contents(IngressRoute) = {mutateIngressRoute(s) : s \in Specs}
      BY RoutedAreKids, KindsDiffer DEF Contents, FixedKeys
    <3> QED
      BY <3>1 DEF IInv, OwnContent, Owned
  <2>2. /\ StripPrefix \in Refs(IngressRoute, route)
        /\ \A i \in 0 .. (route.downloads - 1) :
              /\ Downloads(i) \in Refs(IngressRoute, route)
              /\ Downloads(i) \in Routed /\ Downloads(i) # StripPrefix
    <3>1. 0 .. (route.downloads - 1) = Indices(s)
      BY <2>1 DEF mutateIngressRoute, Indices
    <3>2. Refs(IngressRoute, route) = {Service, Headers, StripPrefix} \cup
                                        {Downloads(i) : i \in 0 .. (route.downloads - 1)}
      BY KindsDiffer DEF Refs
    <3>3. \A i \in Indices(s) : Downloads(i) \in Routed
      BY DEF Routed, DownloadKeys
    <3>4. \A i : Downloads(i) # StripPrefix
      BY DEF Downloads, StripPrefix
    <3> QED
      BY <3>1, <3>2, <3>3, <3>4
  <2>3. \A k \in Refs(IngressRoute, route) : Owned(k)
    BY DEF IInv, RefsResolve
  <2>4. \A k \in Refs(IngressRoute, route) \cap Routed :
           route.urls \subseteq URLs(k, api[k].content)
    BY DEF RoutesInv, RouteHas
  <2> QED
    BY <2>2, <2>3, <2>4, RoutedAreKids DEF URLs
<1> QED
  BY <1>3, <1>4, Invariant, PTL
=============================================================================
