---------------------------- MODULE AtomRefinement ----------------------------
(***************************************************************************)
(* The reconciler implements AtomService: seen are the cached Atom and the *)
(* ones under way to the cache, worked on is the one that the running      *)
(* Reconcile call has fetched, and published is the IngressRoute.          *)
(***************************************************************************)
EXTENDS AtomController

\* NoObj is no version of an Atom and no route.
ASSUME VersionAssumption ==
    /\ NoObj \notin [uid : Nat, spec : Specs]
    /\ NoObj \notin [owner : Nat, content : {mutateIngressRoute(s) : s \in Specs}]

Version(atom) == IF atom = NoObj THEN NoObj ELSE [uid |-> atom.uid, spec |-> atom.spec]

Seen == [i \in 1 .. (Len(pipe[AtomId]) + 1) |->
                 Version(IF i = 1 THEN cache[AtomId] ELSE pipe[AtomId][i - 1])]

Working == IF rec.pc = "idle" THEN NoObj ELSE Version(rec.atom)

Promise == INSTANCE AtomService
               WITH versions <- Seen, working <- Working, route <- api[IngressRoute],
                    touched <- ~ Untouched

\* Whatever is stale, fails, conflicts or restarts, every step of the reconciler and its
\* environment is one that AtomService allows.
Implements == Promise!Spec

\* What AtomService promises, of the reconciler: the IngressRoute of the live Atom has
\* no URL that the stored spec does not ask for,
PublishesStored == Promise!PublishesStored

\* and no step takes a URL of the IngressRoute away, or goes back to an earlier Atom.
URLsStayPublished == Promise!URLsStayPublished
=============================================================================
