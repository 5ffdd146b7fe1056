-------------------------- MODULE MC_ResolverLookup --------------------------
(***************************************************************************)
(* Model-checking instance of ResolverLookup: names of at most one         *)
(* character, so that "a" with the fallback "a" names the one NAD a/a; two *)
(* IPPools, so that the NAD can be relabelled from one existing IPPool to  *)
(* another while the first is deleted.                                     *)
(***************************************************************************)
EXTENDS ResolverLookup

CONSTANTS a, slash, pns, p1, p2

MCLetters == {a}

MCNamespaces == {<<>>, <<a>>}

\* the NAD a/a
MCNadKeys == {<<<<a>>, <<a>>>>}

=============================================================================
