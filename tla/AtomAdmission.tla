---------------------------- MODULE AtomAdmission ----------------------------
(***************************************************************************)
(* The admission of one Atom: the schema of the CRD, then the validating   *)
(* webhook (internal/webhook/v3/atom_webhook.go, api/v3/atom_validation.go)*)
(* against the OwnerInfo its cached client shows.  A request that is       *)
(* rejected changes nothing, so only admitted requests are steps.          *)
(*                                                                         *)
(* What validation lets through is what the generator's mapper has to cope *)
(* with and what decides where the service can be reached, so the mapper's *)
(* use of the OwnerInfo and the choice of routed URLs are here too.        *)
(***************************************************************************)
EXTENDS Naturals, Sequences, FiniteSets, Functions

CONSTANTS
    NoObj,        \* an object that does not exist
    NoMeta,       \* no metadata links
    Candidates,   \* the Atoms users may submit
    Infos,        \* the OwnerInfos that may exist
    OwnerNames,   \* their names
    MaxRoutes     \* maxItems of ingressRouteUrls (30 in the CRD)

Templates == {"csw", "opensearch", "html"}

(***************************************************************************)
(* An Atom: labels is a set of key-value pairs; base is service.baseUrl;   *)
(* routes is ingressRouteUrls, empty if absent; meta holds the             *)
(* serviceMetadataLinks; a feed has a technicalName, datasetMetadataLinks  *)
(* and maybe a spatialDatasetIdentifierCode and -Namespace; an entry has a *)
(* technicalName, a number of download links and maybe content.            *)
(* An OwnerInfo: atom says whether spec.atom is set, urls which of the     *)
(* metadataUrls are, and garbled which of their hrefTemplates mustache     *)
(* cannot render.                                                          *)
(***************************************************************************)
IsMeta(m) == m = NoMeta \/ (DOMAIN m = {"id", "templates"} /\ m.templates \in Seq(Templates))

ASSUME CandidatesAssumption ==
    \A a \in Candidates :
        /\ a # NoObj
        /\ DOMAIN a = {"labels", "base", "routes", "ownerRef", "meta", "feeds"}
        /\ a.routes \in Seq(Range(a.routes))
        /\ a.ownerRef \in OwnerNames
        /\ IsMeta(a.meta)
        /\ \A i \in DOMAIN a.feeds : IsMeta(a.feeds[i].meta)

ASSUME InfosAssumption ==
    \A o \in Infos : /\ o # NoObj
                     /\ DOMAIN o = {"atom", "urls", "garbled"}
                     /\ o.atom \in BOOLEAN
                     /\ o.garbled \subseteq o.urls

ASSUME RoutesAssumption == MaxRoutes \in Nat

VARIABLES
    atom,     \* the stored Atom
    owners,   \* the stored OwnerInfos
    seen      \* the OwnerInfos in the cache that the webhook reads

vars == <<atom, owners, seen>>

-----------------------------------------------------------------------------
(* The schema of the CRD *)

SchemaOK(a) ==
    /\ Len(a.routes) <= MaxRoutes
    /\ a.routes # <<>> => Cardinality({i \in DOMAIN a.routes : a.routes[i] = a.base}) = 1
    /\ \A f \in Range(a.feeds) : \A e \in Range(f.entries) : e.links = 1 \/ e.content

(* Checks of the smooth-operator library *)

ValidateLabelsOnCreate(labels)      == labels # {}
ValidateLabelsOnUpdate(old, labels) == old = labels

ContainsBaseURL(routes, url) == routes # <<>> => url \in Range(routes)
NotRemoved(old, routes)      == Range(old) \subseteq Range(routes)

-----------------------------------------------------------------------------
(* The webhook *)

MetaTemplates(m) == IF m = NoMeta THEN {} ELSE Range(m.templates)

\* Mutant: the templates of the dataset feeds are forgotten.
validateMetadataTemplates_Service(a, o) == MetaTemplates(a.meta) \subseteq o.urls

validateMetadataTemplates(a, o) ==
    /\ MetaTemplates(a.meta) \subseteq o.urls
    /\ \A f \in Range(a.feeds) : MetaTemplates(f.meta) \subseteq o.urls

ValidateOwnerInfo(a) ==
    LET o == seen[a.ownerRef]
    IN  o # NoObj /\ o.atom /\ validateMetadataTemplates(a, o)

Distinct(names) == \A i, j \in DOMAIN names : names[i].name = names[j].name => i = j

validateDatasetFeeds(a) ==
    /\ Distinct(a.feeds)
    /\ \A f \in Range(a.feeds) :
          /\ f.meta # NoMeta /\ a.meta # NoMeta => f.meta.id # a.meta.id
          /\ f.meta # NoMeta => f.code
          /\ f.code => f.namespace
          /\ \A e \in Range(f.entries) : e.links > 1 => e.content
          /\ Distinct(f.entries)

ValidateAtom(a) == validateDatasetFeeds(a) /\ ContainsBaseURL(a.routes, a.base)

ValidateCreate(a) ==
    /\ ValidateLabelsOnCreate(a.labels)
    /\ ValidateAtom(a)
    /\ ValidateOwnerInfo(a)

\* Mutants: the old base URL need not stay; a base URL never changes.
ValidateURLs_Lost(a, old) ==
    /\ a.routes = <<>> => a.base = old.base
    /\ NotRemoved(old.routes, a.routes)
ValidateURLs_Fixed(a, old) == a.base = old.base /\ NotRemoved(old.routes, a.routes)

\* The URL checks of validateUpdate.
ValidateURLs(a, old) ==
    /\ a.routes = <<>> => a.base = old.base
    /\ a.routes # <<>> /\ a.base # old.base => ContainsBaseURL(a.routes, old.base)
    /\ NotRemoved(old.routes, a.routes)

\* Mutant: an update is only compared with the old Atom.
ValidateUpdate_Lax(a, old) ==
    /\ ValidateLabelsOnUpdate(old.labels, a.labels)
    /\ ValidateURLs(a, old)
    /\ ValidateOwnerInfo(a)

ValidateUpdate(a, old) ==
    /\ ValidateLabelsOnUpdate(old.labels, a.labels)
    /\ ValidateURLs(a, old)
    /\ ValidateAtom(a)
    /\ ValidateOwnerInfo(a)

-----------------------------------------------------------------------------
(* What the controller makes of an admitted Atom *)

\* The URLs that mutateIngressRoute makes routes for.
Routed(a) == IF a.routes # <<>> THEN Range(a.routes) ELSE {a.base}

\* The templates addMetadataLinks looks up: with onlyCSW it returns at the first csw.
LookedUp(m, onlyCSW) ==
    IF m = NoMeta THEN {}
    ELSE {m.templates[i] : i \in {j \in DOMAIN m.templates :
             onlyCSW => \A h \in 1 .. (j - 1) : m.templates[h] # "csw"}}

\* MapAtomV3ToAtomGeneratorConfig meets the service's links, those of the service's
\* entries, and those of every dataset feed.
AllLookedUp(a) ==
    LookedUp(a.meta, FALSE) \cup
    UNION {LookedUp(f.meta, TRUE) \cup LookedUp(f.meta, FALSE) : f \in Range(a.feeds)}

\* How it may end.  A metadata URL that is not there is a nil dereference, a template
\* that cannot be rendered an error; when both occur the first one in the Atom's order
\* decides, which is left open.
Outcomes(a, o) ==
    LET missing == AllLookedUp(a) \ o.urls
        bad     == AllLookedUp(a) \cap o.garbled
    IN  CASE ~ o.atom                                    -> {"error"}
          [] o.atom /\ missing \cup bad = {}             -> {"ok"}
          [] o.atom /\ missing \cup bad # {}             ->
                {r \in {"panic", "error"} : (r = "panic" => missing # {}) /\ (r = "error" => bad # {})}

-----------------------------------------------------------------------------
(* Requests *)

Init == /\ atom = NoObj
        /\ owners = [n \in OwnerNames |-> NoObj]
        /\ seen = owners

CreateAtom(a) ==
    /\ atom = NoObj
    /\ SchemaOK(a)
    /\ ValidateCreate(a)
    /\ atom' = a
    /\ UNCHANGED <<owners, seen>>

UpdateAtom(a) ==
    /\ atom # NoObj
    /\ SchemaOK(a)
    /\ ValidateUpdate(a, atom)
    /\ atom' = a
    /\ UNCHANGED <<owners, seen>>

\* ValidateDelete admits everything.
DeleteAtom ==
    /\ atom # NoObj
    /\ atom' = NoObj
    /\ UNCHANGED <<owners, seen>>

\* Nothing validates an OwnerInfo against the Atoms that refer to it.
SetOwnerInfo(n, o) ==
    /\ owners[n] # o
    /\ owners' = [owners EXCEPT ![n] = o]
    /\ UNCHANGED <<atom, seen>>

\* The webhook's cache catches up.
Observe(n) ==
    /\ seen[n] # owners[n]
    /\ seen' = [seen EXCEPT ![n] = owners[n]]
    /\ UNCHANGED <<atom, owners>>

Next == \/ \E a \in Candidates : CreateAtom(a) \/ UpdateAtom(a)
        \/ DeleteAtom
        \/ \E n \in OwnerNames : Observe(n) \/ \E o \in Infos \cup {NoObj} : SetOwnerInfo(n, o)

Spec == Init /\ [][Next]_vars

-----------------------------------------------------------------------------
(* Properties *)

\* Whatever updates led to it, the stored Atom satisfies the rules for a new one; the
\* store and the cache hold an OwnerInfo or nothing under each name.
AdmissionTypeOK == /\ atom \in Candidates \cup {NoObj}
                   /\ atom # NoObj => SchemaOK(atom) /\ ValidateAtom(atom)
                   /\ owners \in [OwnerNames -> Infos \cup {NoObj}]
                   /\ seen \in [OwnerNames -> Infos \cup {NoObj}]

Updated == atom # NoObj /\ atom' # NoObj

\* A URL where the service can be reached stays one for as long as the Atom exists,
\* whichever way updates switch between a lone baseUrl and ingressRouteUrls and move
\* the baseUrl from one to the other.
URLsStay == [][Updated => Routed(atom) \subseteq Routed(atom')]_vars

\* An Atom that is admitted never makes the mapper dereference a metadata URL that the
\* OwnerInfo does not have: validateMetadataTemplates collects at least what
\* addMetadataLinks looks up.  What is left is an error for a template that mustache
\* cannot render, which nobody validates.
AdmittedMaps ==
    [][atom' # atom /\ atom' # NoObj =>
          /\ seen[atom'.ownerRef] # NoObj
          /\ "panic" \notin Outcomes(atom', seen[atom'.ownerRef])
          /\ seen[atom'.ownerRef].garbled = {} => Outcomes(atom', seen[atom'.ownerRef]) = {"ok"}]_vars

\* The way out that the webhook's message offers, "add the old and new urls to
\* spec.ingressRouteUrls in order to change this field", is open in every state that a
\* sequence of updates reaches, as long as the list has room.
BaseCanMove ==
    atom # NoObj /\ ValidateOwnerInfo(atom) =>
        \A b \in {a.base : a \in Candidates} :
            LET urls == Routed(atom) \cup {atom.base, b}
            IN  Cardinality(urls) <= MaxRoutes =>
                    \E n \in 1 .. MaxRoutes : \E routes \in [1 .. n -> urls] :
                        LET a == [atom EXCEPT !.base = b, !.routes = routes]
                        IN  SchemaOK(a) /\ ValidateUpdate(a, atom)
=============================================================================
