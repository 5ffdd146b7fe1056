--------------------------- MODULE MC_VMController ---------------------------
(***************************************************************************)
(* Model-checking instance of VMController: two interfaces, two MACs, two  *)
(* networks, so that a VM can mix a resolvable and an unresolvable network *)
(* and its vmnetcfg can list two configs in either order.                  *)
(***************************************************************************)
EXTENDS VMController, TLC

CONSTANTS i1, i2, m1, m2, n1, n2

MCIfaces == {i1, i2}
MCMacs == {m1, m2}
MCNets == {n1, n2}

\* MACs are interchangeable, and so are networks: Init ranges over every
\* set of resolvable networks
MCSymmetry == Permutations(MCMacs) \cup Permutations(MCNets)

=============================================================================
