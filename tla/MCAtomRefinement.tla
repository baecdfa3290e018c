--------------------------- MODULE MCAtomRefinement ---------------------------
(* AtomController's instances with what AtomService promises of it. *)
EXTENDS MCAtomController, AtomRefinement
=============================================================================
