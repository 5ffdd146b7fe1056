----------------------------- MODULE MC_Resolver -----------------------------
(***************************************************************************)
(* Model-checking instance of Resolver: names of up to three characters    *)
(* over "a" and "/", so that a name can have no "/", one "/" at either end *)
(* or in the middle, or two of them; two namespaces, one of them empty;    *)
(* two NAD keys (a qualified and an unqualified-looking one) and one       *)
(* IPPool key.                                                             *)
(***************************************************************************)
EXTENDS Resolver

CONSTANTS a, slash, pns, pname

MCLetters == {a}

MCNamespaces == {<<>>, <<a>>}

\* the NADs a/a and a/aa
MCNadKeys == {<<<<a>>, <<a>>>>, <<<<a>>, <<a, a>>>>}

=============================================================================
