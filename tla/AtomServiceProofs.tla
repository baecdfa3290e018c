-------------------------- MODULE AtomServiceProofs --------------------------
(***************************************************************************)
(* Theorems about AtomService, for all specs and any number of versions    *)
(* that the operator is behind.                                            *)
(***************************************************************************)
EXTENDS AtomService, TLAPS, SequenceTheorems

\* NoObj is no route.
ServiceAssumption == NoObj \notin [owner : Nat, content : {Shows(s) : s \in Specs}]

Versions == [uid : Nat, spec : Specs]

ServiceTypeOK ==
    /\ versions \in Seq(Versions \cup {NoObj}) /\ Len(versions) >= 1
    /\ nextUid \in Nat
    /\ working \in Versions \cup {NoObj}
    /\ touched \in BOOLEAN
    /\ ~ touched => route \in [owner : Nat, content : {Shows(s) : s \in Specs}] \cup {NoObj}

(***************************************************************************)
(* What belongs to an incarnation, by its uid, and shows some URLs comes   *)
(* before a version of a later incarnation, and before one of the same     *)
(* incarnation with no less URLs.  Along the way that specs go, from what  *)
(* is published by what is worked on and what is seen to what is stored,   *)
(* each comes before the next.                                             *)
(***************************************************************************)
Before(uid, urls, v) == uid < v.uid \/ (uid = v.uid /\ urls \subseteq v.spec.urls)

InOrder(v, w) == v # NoObj /\ w # NoObj => Before(v.uid, v.spec.urls, w)

UidsBelow == /\ \A i \in DOMAIN versions : versions[i] # NoObj => versions[i].uid < nextUid
             /\ working # NoObj => working.uid < nextUid

VersionsOrdered == \A i, j \in DOMAIN versions : i <= j => InOrder(versions[i], versions[j])

WorkingOrdered == \A i \in DOMAIN versions : InOrder(working, versions[i])

RouteBefore(v) == v # NoObj => Before(route.owner, route.content.urls, v)

RouteOrdered ==
    ~ touched /\ route # NoObj =>
        /\ route.owner < nextUid
        /\ RouteBefore(working)
        /\ \A i \in DOMAIN versions : RouteBefore(versions[i])

ServiceInv == ServiceTypeOK /\ UidsBelow /\ VersionsOrdered /\ WorkingOrdered /\ RouteOrdered

-----------------------------------------------------------------------------

LEMMA ServiceInit == Init => ServiceInv
<1> SUFFICES ASSUME Init PROVE ServiceInv
  OBVIOUS
<1>1. /\ versions = <<NoObj>> /\ Len(versions) = 1 /\ DOMAIN versions = {1}
      /\ \A i \in DOMAIN versions : versions[i] = NoObj
      /\ versions \in Seq(Versions \cup {NoObj})
  BY DEF Init
<1>2. nextUid = 1 /\ working = NoObj /\ route = NoObj /\ touched = FALSE
  BY DEF Init
<1>3. ServiceTypeOK
  <2>1. touched \in BOOLEAN
    BY <1>2
  <2>2. Len(versions) >= 1 /\ nextUid \in Nat
    BY <1>1, <1>2
  <2>3. working \in Versions \cup {NoObj}
        /\ route \in [owner : Nat, content : {Shows(s) : s \in Specs}] \cup {NoObj}
    BY <1>2
  <2> QED
    BY <1>1, <2>1, <2>2, <2>3 DEF ServiceTypeOK
<1>4. UidsBelow /\ VersionsOrdered /\ WorkingOrdered
  BY <1>1, <1>2 DEF UidsBelow, VersionsOrdered, WorkingOrdered, InOrder
<1>5. RouteOrdered
  BY <1>2 DEF RouteOrdered
<1> QED
  BY <1>3, <1>4, <1>5 DEF ServiceInv

\* A version that comes after the stored one comes after all.
LEMMA SubmitOK ==
    ASSUME ServiceInv, NEW v \in Versions \cup {NoObj}, Submit(v), UNCHANGED <<route, touched>>,
           working' \in {working, NoObj}, nextUid' \in Nat, nextUid' >= nextUid,
           v # NoObj => /\ v.uid < nextUid'
                        /\ v.uid = nextUid \/ (Stored # NoObj /\ InOrder(Stored, v) /\ v.uid = Stored.uid)
    PROVE  ServiceInv'
<1> DEFINE n == Len(versions)
<1>0. /\ versions \in Seq(Versions \cup {NoObj}) /\ n \in Nat /\ n >= 1 /\ DOMAIN versions = 1 .. n
      /\ nextUid \in Nat
  BY DEF ServiceInv, ServiceTypeOK
<1>1. /\ versions' = Append(versions, v) /\ Len(versions') = n + 1
      /\ DOMAIN versions' = 1 .. (n + 1)
      /\ \A i \in 1 .. n : versions'[i] = versions[i]
      /\ versions'[n + 1] = v
      /\ versions' \in Seq(Versions \cup {NoObj})
  BY <1>0 DEF Submit
<1>2. ServiceTypeOK'
  BY <1>0, <1>1 DEF ServiceInv, ServiceTypeOK
<1>3. \A i \in 1 .. n : versions[i] \in Versions \cup {NoObj}
  BY <1>0
\* Whatever comes before the stored version, or belongs to an existing incarnation.
<1>4. ASSUME NEW uid \in Nat, NEW urls, v # NoObj, uid < nextUid,
             Stored # NoObj => Before(uid, urls, Stored)
      PROVE  Before(uid, urls, v)
  <2>1. CASE v.uid = nextUid
    BY <1>4, <2>1 DEF Before
  <2>2. CASE Stored # NoObj /\ InOrder(Stored, v) /\ v.uid = Stored.uid
    <3>1. Stored.spec.urls \subseteq v.spec.urls
      <4>1. Stored.uid \in Nat
        BY <1>0, <1>3, <2>2 DEF Stored, Versions
      <4> QED
        BY <1>4, <2>2, <4>1 DEF InOrder, Before
    <3> QED
      BY <1>4, <2>2, <3>1 DEF Before
  <2> QED
    BY <1>4, <2>1, <2>2
<1>5. UidsBelow'
  <2>1. \A i \in 1 .. (n + 1) : versions'[i] # NoObj => versions'[i].uid < nextUid'
    <3> SUFFICES ASSUME NEW i \in 1 .. (n + 1), versions'[i] # NoObj
                 PROVE  versions'[i].uid < nextUid'
      OBVIOUS
    <3>1. CASE i \in 1 .. n
      <4>1. versions[i].uid \in Nat /\ versions[i].uid < nextUid
        BY <1>0, <1>1, <1>3, <3>1 DEF ServiceInv, UidsBelow, Versions
      <4> QED
        BY <1>0, <1>1, <3>1, <4>1
    <3>2. CASE i = n + 1
      BY <1>1, <3>2
    <3> QED
      BY <1>0, <3>1, <3>2
  <2>2. working' # NoObj => working'.uid < nextUid'
    <3>1. working' # NoObj => working' = working /\ working.uid \in Nat /\ working.uid < nextUid
      BY DEF ServiceInv, ServiceTypeOK, UidsBelow, Versions
    <3> QED
      BY <1>0, <3>1
  <2> QED
    BY <1>1, <2>1, <2>2 DEF UidsBelow
<1>6. VersionsOrdered'
  <2> SUFFICES ASSUME NEW i \in 1 .. (n + 1), NEW j \in 1 .. (n + 1), i <= j
               PROVE  InOrder(versions'[i], versions'[j])
    BY <1>1 DEF VersionsOrdered
  <2>1. CASE j \in 1 .. n
    <3>1. i \in 1 .. n
      BY <1>0, <2>1
    <3> QED
      BY <1>0, <1>1, <2>1, <3>1 DEF ServiceInv, VersionsOrdered
  <2>2. CASE j = n + 1 /\ i \in 1 .. n
    <3>1. versions[i] # NoObj => versions[i].uid \in Nat /\ versions[i].uid < nextUid
      BY <1>0, <1>3, <2>2 DEF ServiceInv, UidsBelow, Versions
    <3>2. InOrder(versions[i], Stored)
      BY <1>0, <2>2 DEF ServiceInv, VersionsOrdered, Stored
    <3> QED
      BY <1>1, <1>4, <2>2, <3>1, <3>2 DEF InOrder
  <2>3. CASE j = n + 1 /\ i = n + 1
    BY <1>1, <2>3 DEF InOrder, Before
  <2> QED
    BY <1>0, <2>1, <2>2, <2>3
<1>7. WorkingOrdered'
  <2> SUFFICES ASSUME NEW i \in 1 .. (n + 1), working' # NoObj
               PROVE  InOrder(working', versions'[i])
    BY <1>1 DEF WorkingOrdered, InOrder
  <2>0. working' = working
    OBVIOUS
  <2>1. CASE i \in 1 .. n
    BY <1>0, <1>1, <2>0, <2>1 DEF ServiceInv, WorkingOrdered
  <2>2. CASE i = n + 1
    <3>1. working.uid \in Nat /\ working.uid < nextUid
      BY <2>0 DEF ServiceInv, ServiceTypeOK, UidsBelow, Versions
    <3>2. InOrder(working, Stored)
      BY <1>0 DEF ServiceInv, WorkingOrdered, Stored
    <3> QED
      BY <1>1, <1>4, <2>0, <2>2, <3>1, <3>2 DEF InOrder
  <2> QED
    BY <1>0, <2>1, <2>2
<1>8. RouteOrdered'
  <2> SUFFICES ASSUME ~ touched, route # NoObj
               PROVE  /\ route.owner < nextUid'
                      /\ RouteBefore(working')
                      /\ \A i \in 1 .. (n + 1) : RouteBefore(versions'[i])
    BY <1>1 DEF RouteOrdered, RouteBefore
  <2>1. /\ route.owner \in Nat /\ route.owner < nextUid
        /\ RouteBefore(working)
        /\ \A i \in 1 .. n : RouteBefore(versions[i])
    BY <1>0 DEF ServiceInv, ServiceTypeOK, RouteOrdered
  <2>2. RouteBefore(v)
    <3>1. RouteBefore(Stored)
      BY <1>0, <2>1 DEF Stored
    <3> QED
      BY <1>4, <2>1, <3>1 DEF RouteBefore
  <2>3. RouteBefore(working')
    BY <2>1 DEF RouteBefore
  <2> QED
    BY <1>0, <1>1, <2>1, <2>2, <2>3
<1> QED
  BY <1>2, <1>5, <1>6, <1>7, <1>8 DEF ServiceInv

\* To forget the oldest versions, or what is worked on, disturbs nothing.
LEMMA DropOK ==
    ASSUME ServiceInv, NEW k \in 0 .. (Len(versions) - 1),
           versions' \in Seq(Versions \cup {NoObj}), Len(versions') = Len(versions) - k,
           \A i \in 1 .. (Len(versions) - k) : versions'[i] = versions[i + k],
           working' \in {working, NoObj}, UNCHANGED <<nextUid, route, touched>>
    PROVE  ServiceInv'
<1> DEFINE n == Len(versions)
<1>1. /\ n \in Nat /\ n >= 1 /\ DOMAIN versions = 1 .. n /\ DOMAIN versions' = 1 .. (n - k)
      /\ \A i \in 1 .. (n - k) : i + k \in 1 .. n
      /\ \A i, j \in 1 .. (n - k) : i <= j => i + k <= j + k
  BY DEF ServiceInv, ServiceTypeOK
<1>2. ServiceTypeOK'
  BY <1>1 DEF ServiceInv, ServiceTypeOK
<1>3. UidsBelow'
  <2>1. \A i \in DOMAIN versions' : versions'[i] # NoObj => versions'[i].uid < nextUid
    BY <1>1 DEF ServiceInv, UidsBelow
  <2>2. working' # NoObj => working'.uid < nextUid
    BY DEF ServiceInv, UidsBelow
  <2> QED
    BY <2>1, <2>2 DEF UidsBelow
<1>4. VersionsOrdered'
  BY <1>1 DEF ServiceInv, VersionsOrdered, InOrder
<1>5. WorkingOrdered'
  BY <1>1 DEF ServiceInv, WorkingOrdered, InOrder
<1>6. RouteOrdered'
  <2> SUFFICES ASSUME ~ touched, route # NoObj
               PROVE  /\ route.owner < nextUid
                      /\ RouteBefore(working')
                      /\ \A i \in 1 .. (n - k) : RouteBefore(versions'[i])
    BY <1>1 DEF RouteOrdered, RouteBefore
  <2> QED
    BY <1>1 DEF ServiceInv, RouteOrdered, RouteBefore
<1> QED
  BY <1>2, <1>3, <1>4, <1>5, <1>6 DEF ServiceInv

\* The stored version is a version of an incarnation that exists.
LEMMA StoredOK ==
    ASSUME ServiceInv
    PROVE  /\ Len(versions) \in DOMAIN versions
           /\ Stored \in Versions \cup {NoObj}
           /\ Stored # NoObj => Stored.uid \in Nat /\ Stored.uid < nextUid
           /\ nextUid \in Nat
<1>1. Len(versions) \in DOMAIN versions /\ Stored \in Versions \cup {NoObj}
  BY DEF ServiceInv, ServiceTypeOK, Stored
<1> QED
  BY <1>1 DEF ServiceInv, ServiceTypeOK, UidsBelow, Stored, Versions

LEMMA CreateOK == ASSUME ServiceInv, NEW s \in Specs, Create(s) PROVE ServiceInv'
<1> DEFINE v == [uid |-> nextUid, spec |-> s]
<1>1. nextUid \in Nat /\ v \in Versions /\ v.uid = nextUid /\ Submit(v)
  BY StoredOK DEF Create, Versions
<1>2. nextUid' \in Nat /\ nextUid' >= nextUid /\ v.uid < nextUid'
  BY <1>1 DEF Create
<1> HIDE DEF v
<1> QED
  BY <1>1, <1>2, SubmitOK DEF Create

LEMMA UpdateOK == ASSUME ServiceInv, NEW s \in Specs, Update(s) PROVE ServiceInv'
<1> DEFINE v == [uid |-> Stored.uid, spec |-> s]
<1>1. Stored # NoObj /\ Stored.uid \in Nat /\ Stored.uid < nextUid /\ nextUid \in Nat
  BY StoredOK DEF Update
<1>2. v \in Versions /\ v.uid = Stored.uid /\ v.spec = s /\ Submit(v)
  BY <1>1 DEF Update, Versions
<1>3. InOrder(Stored, v)
  BY <1>2 DEF Update, URLsKept, InOrder, Before
<1> HIDE DEF v
<1> QED
  BY <1>1, <1>2, <1>3, SubmitOK DEF Update

LEMMA EndOK == ASSUME ServiceInv, End PROVE ServiceInv'
<1>1. nextUid \in Nat /\ Stored \in Versions \cup {NoObj}
      /\ (Stored # NoObj => Stored.uid < nextUid /\ InOrder(Stored, Stored))
  BY StoredOK DEF InOrder, Before
<1>2. CASE Submit(Stored)
  BY <1>1, <1>2, SubmitOK DEF End
<1>3. CASE Submit(NoObj)
  BY <1>1, <1>3, SubmitOK DEF End
<1>4. CASE UNCHANGED versions
  <2>1. 0 \in 0 .. (Len(versions) - 1) /\ Len(versions) \in Nat
        /\ versions \in Seq(Versions \cup {NoObj})
    BY DEF ServiceInv, ServiceTypeOK
  <2>2. \A i \in 1 .. (Len(versions) - 0) : versions'[i] = versions[i + 0]
    BY <1>4, <2>1
  <2> QED
    BY <1>4, <2>1, <2>2, DropOK DEF End
<1> QED
  BY <1>2, <1>3, <1>4 DEF End

LEMMA SeeOK == ASSUME ServiceInv, See PROVE ServiceInv'
<1>1. /\ Len(versions) \in Nat /\ 1 \in 0 .. (Len(versions) - 1)
      /\ versions \in Seq(Versions \cup {NoObj}) /\ versions # << >>
  BY DEF ServiceInv, ServiceTypeOK, See
<1>2. /\ versions' \in Seq(Versions \cup {NoObj}) /\ Len(versions') = Len(versions) - 1
      /\ \A i \in 1 .. (Len(versions) - 1) : versions'[i] = versions[i + 1]
  BY <1>1, HeadTailProperties DEF See
<1> QED
  BY <1>1, <1>2, DropOK DEF See

LEMMA RestartOK == ASSUME ServiceInv, Restart PROVE ServiceInv'
<1> DEFINE k == Len(versions) - 1
<1>1. /\ Len(versions) \in Nat /\ Len(versions) >= 1 /\ k \in 0 .. (Len(versions) - 1)
      /\ Len(versions) - k = 1 /\ 1 + k = Len(versions)
  BY DEF ServiceInv, ServiceTypeOK
<1>2. /\ versions' \in Seq(Versions \cup {NoObj}) /\ Len(versions') = 1
      /\ versions'[1] = Stored
  BY StoredOK DEF Restart
<1>3. \A i \in 1 .. (Len(versions) - k) : versions'[i] = versions[i + k]
  BY <1>1, <1>2 DEF Stored
<1> HIDE DEF k
<1> QED
  BY <1>1, <1>2, <1>3, DropOK DEF Restart

LEMMA BeginOK == ASSUME ServiceInv, Begin PROVE ServiceInv'
<1>1. /\ 1 \in DOMAIN versions /\ versions[1] \in Versions \cup {NoObj}
      /\ \A i \in DOMAIN versions : i \in Nat /\ 1 <= i
  BY DEF ServiceInv, ServiceTypeOK
<1>2. ServiceTypeOK'
  BY <1>1 DEF Begin, ServiceInv, ServiceTypeOK
<1>3. UidsBelow' /\ VersionsOrdered'
  BY <1>1 DEF Begin, ServiceInv, UidsBelow, VersionsOrdered, InOrder
<1>4. WorkingOrdered'
  BY <1>1 DEF Begin, ServiceInv, VersionsOrdered, WorkingOrdered, InOrder
<1>5. RouteOrdered'
  BY <1>1 DEF Begin, ServiceInv, RouteOrdered, RouteBefore
<1> QED
  BY <1>2, <1>3, <1>4, <1>5 DEF ServiceInv

LEMMA PublishOK == ASSUME ServiceInv, Publish PROVE ServiceInv'
<1>1. working # NoObj /\ working \in Versions /\ working.uid < nextUid
  BY DEF Publish, ServiceInv, ServiceTypeOK, UidsBelow
<1>2. working.uid \in Nat /\ working.spec \in Specs
  BY <1>1 DEF Versions
<1>3. /\ route'.owner = working.uid /\ route'.content = Shows(working.spec)
      /\ route'.content.urls = working.spec.urls
      /\ route' \in [owner : Nat, content : {Shows(s) : s \in Specs}]
  BY <1>2 DEF Publish, Shows
<1>4. ServiceTypeOK' /\ UidsBelow' /\ VersionsOrdered' /\ WorkingOrdered'
  BY <1>3 DEF Publish, ServiceInv, ServiceTypeOK, UidsBelow, VersionsOrdered, WorkingOrdered,
              InOrder
<1>5. RouteOrdered'
  <2>1. \A i \in DOMAIN versions : RouteBefore(versions[i])'
    BY <1>1, <1>3 DEF Publish, ServiceInv, WorkingOrdered, InOrder, RouteBefore, Before
  <2>2. RouteBefore(working)'
    BY <1>3 DEF Publish, RouteBefore, Before
  <2> QED
    BY <1>1, <1>3, <2>1, <2>2 DEF Publish, RouteOrdered
<1> QED
  BY <1>4, <1>5 DEF ServiceInv

\* What somebody else changes is no longer promised, and a route that is withdrawn
\* promises nothing.
LEMMA RouteGone ==
    ASSUME ServiceInv, Withdraw \/ Tamper
    PROVE  ServiceInv'
<1>1. ServiceTypeOK'
  BY DEF Withdraw, Tamper, ServiceInv, ServiceTypeOK
<1>2. UidsBelow' /\ VersionsOrdered' /\ WorkingOrdered'
  BY DEF Withdraw, Tamper, ServiceInv, UidsBelow, VersionsOrdered, WorkingOrdered, InOrder
<1>3. RouteOrdered'
  BY DEF Withdraw, Tamper, RouteOrdered
<1> QED
  BY <1>1, <1>2, <1>3 DEF ServiceInv

LEMMA ServiceStep == ServiceInv /\ [Next]_vars => ServiceInv'
<1> SUFFICES ASSUME ServiceInv, [Next]_vars PROVE ServiceInv'
  OBVIOUS
<1>1. ASSUME NEW s \in Specs, Create(s) PROVE ServiceInv'
  BY <1>1, CreateOK
<1>2. ASSUME NEW s \in Specs, Update(s) PROVE ServiceInv'
  BY <1>2, UpdateOK
<1>3. CASE Delete
  <2>1. nextUid \in Nat
    BY StoredOK
  <2> QED
    BY <1>3, <2>1, SubmitOK DEF Delete
<1>4. CASE Tamper \/ Withdraw
  BY <1>4, RouteGone
<1>5. CASE See
  BY <1>5, SeeOK
<1>6. CASE Begin
  BY <1>6, BeginOK
<1>7. CASE Publish
  BY <1>7, PublishOK
<1>8. CASE End
  BY <1>8, EndOK
<1>9. CASE Restart
  BY <1>9, RestartOK
<1>10. CASE UNCHANGED vars
  BY <1>10 DEF vars, ServiceInv, ServiceTypeOK, UidsBelow, VersionsOrdered, WorkingOrdered,
               RouteOrdered, InOrder, RouteBefore
<1> QED
  BY <1>1, <1>2, <1>3, <1>4, <1>5, <1>6, <1>7, <1>8, <1>9, <1>10 DEF Next

THEOREM ServiceInvariant == Spec => []ServiceInv
<1>1. Init => ServiceInv
  BY ServiceInit
<1>2. ServiceInv /\ [Next]_vars => ServiceInv'
  BY ServiceStep
<1> QED
  BY <1>1, <1>2, PTL DEF Spec

-----------------------------------------------------------------------------
(* The promises *)

\* Reconcile reads the Atom from the cache (atom_controller.go:105), so it may publish an
\* old version; since no admitted update drops a URL, whatever it publishes the stored
\* Atom still asks for.
THEOREM ServicePublishesStored == Spec => []PublishesStored
<1>1. ServiceInv => PublishesStored
  <2> SUFFICES ASSUME ServiceInv, ~ touched, route # NoObj, Stored # NoObj,
                      Stored.uid = route.owner
               PROVE  route.content.urls \subseteq Stored.spec.urls
    BY DEF PublishesStored
  <2>1. RouteBefore(Stored)
    BY StoredOK DEF ServiceInv, RouteOrdered, Stored
  <2>2. Stored.uid \in Nat
    BY StoredOK
  <2> QED
    BY <2>1, <2>2 DEF RouteBefore, Before
<1> QED
  BY <1>1, ServiceInvariant, PTL

\* mutateIngressRoute replaces the routes of the IngressRoute by those of the version it
\* was called with (ingressroute.go:30), which is never older than the one published.
THEOREM ServiceURLsStayPublished ==
    ASSUME ServiceAssumption PROVE Spec => URLsStayPublished
<1>1. ServiceInv /\ [Next]_vars => URLsStay
  <2> SUFFICES ASSUME ServiceInv, [Next]_vars, ~ touched', route # NoObj
               PROVE  IF route' = NoObj THEN Stored = NoObj \/ Stored.uid # route.owner
                      ELSE \/ route'.owner > route.owner
                           \/ /\ route'.owner = route.owner
                              /\ route.content.urls \subseteq route'.content.urls
    BY DEF URLsStay
  <2>1. CASE Publish
    <3>1. working # NoObj /\ working \in Versions
      BY <2>1 DEF Publish, ServiceInv, ServiceTypeOK
    <3>2. working.uid \in Nat /\ working.spec \in Specs
      BY <3>1 DEF Versions
    <3>3. /\ route'.owner = working.uid
          /\ route'.content.urls = working.spec.urls
      BY <2>1 DEF Publish, Shows
    <3>4. route' # NoObj
      BY <2>1, <3>2 DEF Publish, ServiceAssumption
    <3>5. ~ touched
      BY <2>1 DEF Publish
    <3>6. RouteBefore(working) /\ route.owner \in Nat
      BY <3>5 DEF ServiceInv, ServiceTypeOK, RouteOrdered
    <3> QED
      BY <3>1, <3>2, <3>3, <3>4, <3>6 DEF RouteBefore, Before
  <2>2. CASE Withdraw
    BY <2>2 DEF Withdraw
  <2>3. CASE UNCHANGED <<route, touched>>
    BY <2>3 DEF ServiceInv, ServiceTypeOK
  <2>4. Publish \/ Withdraw \/ UNCHANGED <<route, touched>>
    BY DEF Next, vars, Create, Update, Delete, Tamper, See, Begin, End, Restart
  <2> QED
    BY <2>1, <2>2, <2>3, <2>4
<1> QED
  BY <1>1, ServiceInvariant, PTL DEF Spec, URLsStayPublished
=============================================================================
