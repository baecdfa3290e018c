-------------------------- MODULE MCAtomController --------------------------
(* Small instances of AtomController for TLC. *)
EXTENDS AtomController

CONSTANTS c1, c2, w1, w2, g1, g2, d1, d2

Plain(c, u, g) == [conf |-> c, urls |-> u, groups |-> g, links |-> FALSE, ttl |-> NoTTL]

\* Another title and feed list, one more route URL, one download link group less.
SpecOld == Plain(c1, {w1}, <<g1, g2>>)
SpecNew == [Plain(c2, {w1, w2}, <<g2>>) EXCEPT !.links = TRUE]
SpecOne == Plain(c1, {w1}, <<g1>>)

\* The URLs of SpecNew with the download links of SpecOld.
SpecBack == Plain(c1, {w1, w2}, <<g1, g2>>)

OwnerFull == [hasAtom |-> TRUE, hasUrls |-> TRUE, data |-> d1]
OwnerPoor == [hasAtom |-> TRUE, hasUrls |-> FALSE, data |-> d1]
OwnerNone == [hasAtom |-> FALSE, hasUrls |-> TRUE, data |-> d1]
OwnerElse == [hasAtom |-> TRUE, hasUrls |-> TRUE, data |-> d2]

TwoSpecs  == {SpecOld, SpecNew}
EditSpecs == {SpecOld, SpecNew, SpecBack}
SlimSpecs == {SpecOne, Plain(c2, {w1}, <<g1>>)}
LinkSpecs == {[SpecOne EXCEPT !.links = TRUE]}
URLSpecs  == {[SpecOne EXCEPT !.groups = <<>>], [SpecOne EXCEPT !.urls = {w1, w2}, !.groups = <<>>]}

TTL(days)    == [SpecOne EXCEPT !.groups = <<>>, !.ttl = days]
TTLSpecs     == {TTL(1), TTL(NoTTL)}
LongTTLSpecs == {TTL(5)}

OneOwner  == {OwnerFull}
TwoOwners == {OwnerFull, OwnerElse}
AllOwners == {OwnerFull, OwnerPoor, OwnerNone, OwnerElse}

NoDrift  == {}
GenKinds == {"Deployment", "StripPrefix", "Headers", "Downloads", "IngressRoute", "PodDisruptionBudget"}
AllKinds == GenKinds \cup {"Service"}
=============================================================================
