------------------------- MODULE MC_PoolAllocation -------------------------
(***************************************************************************)
(* Small allocation maps for TLC.  k1, k2 and k3 are dotted IPv4 strings   *)
(* ("10.0.0.5", ...), each the one spelling of its address; kbad is a      *)
(* corrupt key.                                                            *)
(***************************************************************************)
EXTENDS PoolAllocation, TLC

CONSTANTS k1, k2, k3, kbad, a1, a2, a3

\* IPv4 keys: netip.ParseAddr rejects leading zeros, one string per address
MCParseV4 == (k1 :> a1) @@ (k2 :> a2) @@ (k3 :> a3) @@ (kbad :> ParseError)


=============================================================================
