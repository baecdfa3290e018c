------------------------- MODULE AtomAdmissionProofs -------------------------
(***************************************************************************)
(* Theorems about AtomAdmission, for all Atoms and OwnerInfos.             *)
(***************************************************************************)
EXTENDS AtomAdmission, TLAPS, FiniteSetTheorems, FunctionTheorems

\* However it was updated, the stored Atom satisfies the schema and the rules that
\* ValidateAtom has for a new one.
THEOREM AdmissionTypes == Spec => []AdmissionTypeOK
<1>1. Init => AdmissionTypeOK
  BY DEF Init, AdmissionTypeOK
<1>2. AdmissionTypeOK /\ [Next]_vars => AdmissionTypeOK'
  <2> SUFFICES ASSUME AdmissionTypeOK, [Next]_vars
               PROVE  AdmissionTypeOK'
    OBVIOUS
  <2>1. ASSUME NEW a \in Candidates, CreateAtom(a) \/ UpdateAtom(a)
        PROVE  AdmissionTypeOK'
    BY <2>1 DEF AdmissionTypeOK, CreateAtom, UpdateAtom, ValidateCreate, ValidateUpdate
  <2>2. CASE DeleteAtom
    BY <2>2 DEF AdmissionTypeOK, DeleteAtom
  <2>3. ASSUME NEW n \in OwnerNames, Observe(n)
        PROVE  AdmissionTypeOK'
    BY <2>3 DEF AdmissionTypeOK, Observe
  <2>4. ASSUME NEW n \in OwnerNames, NEW o \in Infos \cup {NoObj}, SetOwnerInfo(n, o)
        PROVE  AdmissionTypeOK'
    BY <2>4 DEF AdmissionTypeOK, SetOwnerInfo
  <2>5. CASE UNCHANGED vars
    BY <2>5 DEF AdmissionTypeOK, vars
  <2> QED
    BY <2>1, <2>2, <2>3, <2>4, <2>5 DEF Next
<1> QED
  BY <1>1, <1>2, PTL DEF Spec

-----------------------------------------------------------------------------
(* URLs *)

\* The URL checks of an update, with the check that the list holds the new baseUrl,
\* keep every routed URL.
LEMMA URLsKept ==
    ASSUME NEW a, NEW old, ValidateURLs(a, old), ContainsBaseURL(a.routes, a.base)
    PROVE  Routed(old) \subseteq Routed(a)
<1>1. CASE old.routes # <<>> /\ a.routes # <<>>
  BY <1>1 DEF ValidateURLs, NotRemoved, Routed
<1>2. CASE old.routes # <<>> /\ a.routes = <<>>
  <2>e. Range(<<>>) = {}
    BY DEF Range
  <2>1. Range(old.routes) \subseteq {}
    BY <1>2, <2>e DEF ValidateURLs, NotRemoved
  <2> QED
    BY <1>2, <2>1 DEF Routed
<1>3. CASE old.routes = <<>> /\ a.routes # <<>>
  BY <1>3 DEF ValidateURLs, ContainsBaseURL, Routed
<1>4. CASE old.routes = <<>> /\ a.routes = <<>>
  BY <1>4 DEF ValidateURLs, Routed
<1> QED
  BY <1>1, <1>2, <1>3, <1>4

\* No admitted update takes away a URL where the service can be reached.
THEOREM URLsStayRouted == Spec => URLsStay
<1>1. ASSUME [Next]_vars, Updated
      PROVE  Routed(atom) \subseteq Routed(atom')
  <2>1. ASSUME NEW a \in Candidates, UpdateAtom(a)
        PROVE  Routed(atom) \subseteq Routed(atom')
    BY <2>1, URLsKept DEF UpdateAtom, ValidateUpdate, ValidateAtom
  <2>2. ASSUME NEW a \in Candidates, CreateAtom(a)
        PROVE  FALSE
    BY <1>1, <2>2 DEF CreateAtom, Updated
  <2>3. CASE DeleteAtom
    BY <1>1, <2>3 DEF DeleteAtom, Updated
  <2>4. CASE UNCHANGED atom
    BY <2>4
  <2> QED
    BY <1>1, <2>1, <2>2, <2>3, <2>4 DEF Next, Observe, SetOwnerInfo, vars
<1> QED
  BY <1>1, PTL DEF Spec, URLsStay

\* The URLs of an Atom are finitely many, so a list can hold each of them once.
LEMMA RoutedFinite ==
    ASSUME NEW a \in Candidates
    PROVE  IsFiniteSet(Routed(a)) /\ Range(a.routes) \subseteq Routed(a)
<1>1. CASE a.routes = <<>>
  <2>1. Range(a.routes) = {}
    BY <1>1 DEF Range
  <2> QED
    BY <1>1, <2>1, FS_Singleton DEF Routed
<1>2. CASE a.routes # <<>>
  <2>1. a.routes \in Seq(Range(a.routes))
    BY CandidatesAssumption
  <2>2. Len(a.routes) \in Nat /\ a.routes \in [1 .. Len(a.routes) -> Range(a.routes)]
    BY <2>1
  <2>3. IsFiniteSet(1 .. Len(a.routes))
    BY <2>2, FS_Interval
  <2>4. a.routes \in Surjection(1 .. Len(a.routes), Range(a.routes))
    BY <2>2 DEF Surjection, Range
  <2>5. IsFiniteSet(Range(a.routes))
    BY <2>3, <2>4, FS_Surjection
  <2> QED
    BY <1>2, <2>5 DEF Routed
<1> QED
  BY <1>1, <1>2

\* An Atom that satisfies the rules for a new one may take any base URL, in a list that
\* holds this one, the old one and all that are routed, if the list is not too long.
LEMMA MoveAllowed ==
    ASSUME NEW a \in Candidates, ValidateAtom(a), SchemaOK(a), ValidateOwnerInfo(a), NEW b,
           Cardinality(Routed(a) \cup {a.base, b}) <= MaxRoutes
    PROVE  \E n \in 1 .. MaxRoutes : \E routes \in [1 .. n -> Routed(a) \cup {a.base, b}] :
               LET c == [a EXCEPT !.base = b, !.routes = routes]
               IN  SchemaOK(c) /\ ValidateUpdate(c, a)
<1> DEFINE urls == Routed(a) \cup {a.base, b}
           n == Cardinality(urls)
<1>1. IsFiniteSet(urls)
  <2>1. IsFiniteSet({a.base})
    BY FS_Singleton
  <2>2. IsFiniteSet({a.base} \cup {b})
    BY <2>1, FS_Singleton, FS_Union
  <2>3. {a.base, b} = {a.base} \cup {b}
    OBVIOUS
  <2> QED
    BY <2>2, <2>3, RoutedFinite, FS_Union
<1>2. n \in 1 .. MaxRoutes
  <2>1. n \in Nat /\ n # 0
    BY <1>1, FS_CardinalityType, FS_EmptySet
  <2> QED
    BY <2>1, RoutesAssumption
<1>3. PICK routes \in Bijection(1 .. n, urls) : TRUE
  BY <1>1, FS_CardinalityType DEF ExistsBijection
<1> HIDE DEF n, urls
<1>4. /\ routes \in [1 .. n -> urls]
      /\ \A i, j \in 1 .. n : routes[i] = routes[j] => i = j
      /\ \A u \in urls : \E i \in 1 .. n : routes[i] = u
  BY <1>3 DEF Bijection, Injection, Surjection, IsInjective
<1>5. Range(routes) = urls /\ DOMAIN routes = 1 .. n /\ Len(routes) = n /\ routes # <<>>
  <2>1. Range(routes) = urls /\ DOMAIN routes = 1 .. n
    BY <1>4 DEF Range
  <2>2. Len(routes) = n
    BY <1>2, <1>4
  <2> QED
    BY <1>2, <2>1, <2>2
<1> DEFINE c == [a EXCEPT !.base = b, !.routes = routes]
<1>6. /\ c.base = b /\ c.routes = routes /\ c.labels = a.labels /\ c.ownerRef = a.ownerRef
      /\ c.meta = a.meta /\ c.feeds = a.feeds
  BY CandidatesAssumption
<1> HIDE DEF c
<1>7. SchemaOK(c)
  <2>1. PICK i \in 1 .. n : routes[i] = b
    BY <1>4 DEF urls
  <2>2. {j \in DOMAIN routes : routes[j] = b} = {i}
    BY <1>4, <1>5, <2>1
  <2>3. Cardinality({j \in DOMAIN routes : routes[j] = b}) = 1
    BY <2>2, FS_Singleton
  <2>4. Len(c.routes) <= MaxRoutes
    BY <1>2, <1>5, <1>6, RoutesAssumption
  <2> QED
    BY <1>6, <2>3, <2>4 DEF SchemaOK
<1>8. ValidateUpdate(c, a)
  <2>1. ValidateURLs(c, a)
    BY <1>5, <1>6, RoutedFinite DEF ValidateURLs, ContainsBaseURL, NotRemoved, urls
  <2>2. ValidateAtom(c)
    BY <1>5, <1>6 DEF ValidateAtom, validateDatasetFeeds, ContainsBaseURL, urls
  <2>3. ValidateOwnerInfo(c)
    BY <1>6 DEF ValidateOwnerInfo, validateMetadataTemplates
  <2> QED
    BY <1>6, <2>1, <2>2, <2>3 DEF ValidateUpdate, ValidateLabelsOnUpdate
<1> QED
  BY <1>2, <1>4, <1>7, <1>8 DEF c, n, urls

\* Whatever sequence of updates has brought the Atom where it is, its base URL can still
\* be changed the way that validateUpdate (atom_validation.go:124) leaves open, for as long
\* as the list has room.
THEOREM BaseStaysMovable == Spec => []BaseCanMove
<1>1. AdmissionTypeOK => BaseCanMove
  BY MoveAllowed DEF AdmissionTypeOK, BaseCanMove
<1> QED
  BY <1>1, AdmissionTypes, PTL

-----------------------------------------------------------------------------
(* Metadata links *)

\* What addMetadataLinks looks up is among the templates the webhook collects.
LEMMA LookedUpCollected ==
    ASSUME NEW m, NEW onlyCSW \in BOOLEAN
    PROVE  LookedUp(m, onlyCSW) \subseteq MetaTemplates(m)
BY DEF LookedUp, MetaTemplates, Range

\* So an OwnerInfo that validates has every URL the mapper dereferences.
LEMMA ValidatedMaps ==
    ASSUME NEW a, NEW o, o.atom, validateMetadataTemplates(a, o)
    PROVE  /\ "panic" \notin Outcomes(a, o)
           /\ o.garbled = {} => Outcomes(a, o) = {"ok"}
<1>1. LookedUp(a.meta, FALSE) \subseteq o.urls
  BY LookedUpCollected DEF validateMetadataTemplates
<1>2. \A f \in Range(a.feeds) : LookedUp(f.meta, TRUE) \cup LookedUp(f.meta, FALSE) \subseteq o.urls
  BY LookedUpCollected DEF validateMetadataTemplates
<1>3. AllLookedUp(a) \ o.urls = {}
  BY <1>1, <1>2 DEF AllLookedUp
<1>4. o.garbled = {} => AllLookedUp(a) \cap o.garbled = {}
  OBVIOUS
<1> HIDE DEF AllLookedUp
<1> QED
  BY <1>3, <1>4 DEF Outcomes

\* An admitted Atom never makes the mapper dereference a URL that its OwnerInfo, as the
\* webhook saw it, does not have, and maps without an error if mustache can render the
\* templates.
THEOREM AdmittedAtomsMap == Spec => AdmittedMaps
<1>1. ASSUME [Next]_vars, atom' # atom, atom' # NoObj
      PROVE  /\ seen[atom'.ownerRef] # NoObj
             /\ "panic" \notin Outcomes(atom', seen[atom'.ownerRef])
             /\ seen[atom'.ownerRef].garbled = {} => Outcomes(atom', seen[atom'.ownerRef]) = {"ok"}
  <2>1. PICK a \in Candidates : CreateAtom(a) \/ UpdateAtom(a)
    BY <1>1 DEF Next, DeleteAtom, Observe, SetOwnerInfo, vars
  <2>2. atom' = a /\ ValidateOwnerInfo(a)
    BY <2>1 DEF CreateAtom, UpdateAtom, ValidateCreate, ValidateUpdate
  <2> QED
    BY <2>2, ValidatedMaps DEF ValidateOwnerInfo
<1> QED
  BY <1>1, PTL DEF Spec, AdmittedMaps
=============================================================================
