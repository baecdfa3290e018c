----------------------------- MODULE AtomService -----------------------------
(***************************************************************************)
(* What the operator promises about the URLs of one Atom, without caches,  *)
(* watches, work queue and the order of calls: users write versions of the *)
(* Atom, the operator takes them up one after the other, it may skip any,  *)
(* and publishes the one it works on.  AtomController implements this      *)
(* (AtomRefinement).                                                       *)
(***************************************************************************)
EXTENDS Naturals, Sequences

CONSTANTS
    NoObj,     \* an Atom or a route that does not exist
    Foreign,   \* what somebody else routes
    Specs      \* the specs users may apply

VARIABLES
    versions,  \* the versions from the one the operator sees to the stored one
    nextUid,   \* the uid of the next incarnation of the Atom
    working,   \* the version that is being rolled out
    route,     \* what is published, and for which incarnation
    touched    \* somebody else has changed what the operator made

vars == <<versions, nextUid, working, route, touched>>

Stored == versions[Len(versions)]

\* What clients can reach of a spec.
Shows(s) == [feeds |-> s.conf, urls |-> s.urls, downloads |-> Len(s.groups)]

Init == /\ versions = <<NoObj>>
        /\ nextUid = 1
        /\ working = NoObj
        /\ route = NoObj
        /\ touched = FALSE

-----------------------------------------------------------------------------
(* Users *)

Submit(version) == versions' = Append(versions, version)

URLsKept(old, s) == old.urls \subseteq s.urls

Create(s) ==
    /\ Stored = NoObj
    /\ Submit([uid |-> nextUid, spec |-> s])
    /\ nextUid' = nextUid + 1
    /\ UNCHANGED <<working, route, touched>>

\* Also by those who write only a status.
Update(s) ==
    /\ Stored # NoObj
    /\ URLsKept(Stored.spec, s)
    /\ Submit([uid |-> Stored.uid, spec |-> s])
    /\ UNCHANGED <<nextUid, working, route, touched>>

Delete ==
    /\ Stored # NoObj
    /\ Submit(NoObj)
    /\ UNCHANGED <<nextUid, working, route, touched>>

\* Somebody edits or deletes what the operator made.
Tamper ==
    /\ touched' = TRUE
    /\ \/ UNCHANGED route
       \/ route # NoObj /\ route' \in {NoObj, [route EXCEPT !.content = Foreign]}
    /\ UNCHANGED <<versions, nextUid, working>>

-----------------------------------------------------------------------------
(* The operator *)

See == /\ Len(versions) > 1
       /\ versions' = Tail(versions)
       /\ UNCHANGED <<nextUid, working, route, touched>>

Begin == /\ working = NoObj
         /\ versions[1] # NoObj
         /\ working' = versions[1]
         /\ UNCHANGED <<versions, nextUid, route, touched>>

Publish == /\ working # NoObj
           /\ route' = [owner |-> working.uid, content |-> Shows(working.spec)]
           /\ UNCHANGED <<versions, nextUid, working, touched>>

\* At the end of a rollout the status is written, or it ends because the TTL has elapsed
\* and the Atom is deleted.
End == /\ working # NoObj
       /\ working' = NoObj
       /\ \/ UNCHANGED versions
          \/ Submit(Stored)
          \/ Submit(NoObj)
       /\ UNCHANGED <<nextUid, route, touched>>

Restart == /\ versions' = <<Stored>>
           /\ working' = NoObj
           /\ UNCHANGED <<nextUid, route, touched>>

Withdraw ==
    /\ route # NoObj
    /\ Stored # NoObj => Stored.uid # route.owner
    /\ route' = NoObj
    /\ UNCHANGED <<versions, nextUid, working, touched>>

Next == \/ \E s \in Specs : Create(s) \/ Update(s)
        \/ Delete \/ Tamper
        \/ See \/ Begin \/ Publish \/ End \/ Restart \/ Withdraw

Spec == Init /\ [][Next]_vars

-----------------------------------------------------------------------------
(* Properties *)

\* The published URLs belong to the stored Atom, if it is the one they are published for:
\* although the operator lags behind and skips versions, clients reach nothing that users
\* of the stored Atom have not asked for.
PublishesStored ==
    ~ touched /\ route # NoObj /\ Stored # NoObj /\ Stored.uid = route.owner
        => route.content.urls \subseteq Stored.spec.urls

\* A URL that is published stays so as long as the Atom exists: no step of the operator,
\* which works on old versions and restarts at any time, goes back to fewer URLs or to an
\* earlier incarnation.
URLsStay ==
    ~ touched' /\ route # NoObj =>
        IF route' = NoObj THEN Stored = NoObj \/ Stored.uid # route.owner
        ELSE \/ route'.owner > route.owner
             \/ route'.owner = route.owner /\ route.content.urls \subseteq route'.content.urls

URLsStayPublished == [][URLsStay]_vars
=============================================================================
