--------------------------- MODULE ResolverProofs ---------------------------
(***************************************************************************)
(* Proofs about the Network Resolver: the caches stay well typed, and      *)
(* GetIPPoolFromNetworkName classifies every lookup as spec.md 4.1 and 7   *)
(* require, for every network name, fallback namespace, NAD cache and      *)
(* IPPool cache.                                                           *)
(***************************************************************************)
EXTENDS Resolver, TLAPS

USE ResolverAssumption

\* the state predicates are preserved by every step
LEMMA TypeInvariant == Spec => []TypeOK
<1>1. Init => TypeOK
  BY DEF Init, TypeOK
<1>2. TypeOK /\ [Next]_vars => TypeOK'
  <2> SUFFICES ASSUME TypeOK, [Next]_vars PROVE TypeOK'
    OBVIOUS
  <2>1. CASE \E n \in Str(MaxLen), fb \in Namespaces : Lookup(n, fb)
    BY <2>1 DEF Lookup, TypeOK
  <2>2. CASE \E k \in NadKeys, st \in NadStates : NADChange(k, st)
    BY <2>2 DEF NADChange, TypeOK
  <2>3. CASE \E p \in PoolKeys : PoolChange(p)
    BY <2>3 DEF PoolChange, TypeOK
  <2>4. CASE UNCHANGED vars
    BY <2>4 DEF vars, TypeOK
  <2>. QED
    BY <2>1, <2>2, <2>3, <2>4 DEF Next
<1>. QED
  BY <1>1, <1>2, PTL DEF Spec

\* the lookup's result for each state the NAD cache can give for a key
LEMMA ResolveCases ==
    ASSUME NEW cache, NEW poolCache, NEW n, NEW fb,
           NadAt(cache, NadKey(n, fb)) \in NadStates
    PROVE  LET nad == NadAt(cache, NadKey(n, fb))
               r   == GetIPPoolFromNetworkName(cache, poolCache, n, fb)
               labelled == nad \in LabelMaps /\ nad.ns # NoLabel /\ nad.name # NoLabel
           IN  /\ r.err = "none" <=> labelled /\ <<nad.ns, nad.name>> \in poolCache
               /\ r.err = "none" => r.pool = <<nad.ns, nad.name>>
               /\ r.err \in {"NADNotFound", "PoolNotFound"} <=>
                    nad = NoNAD \/ (labelled /\ <<nad.ns, nad.name>> \notin poolCache)
<1> DEFINE nad == NadAt(cache, NadKey(n, fb))
          r   == GetIPPoolFromNetworkName(cache, poolCache, n, fb)
<1>1. CASE nad = NoNAD
  <2>1. r = Failure("NADNotFound")
    BY <1>1 DEF GetIPPoolFromNetworkName, NadFailure, PoolLookup
  <2>2. nad \notin LabelMaps
    BY <1>1 DEF LabelMaps
  <2>. QED
    BY <1>1, <2>1, <2>2 DEF Failure
<1>2. CASE nad = NilLabels
  <2>1. r = Failure("NoLabels")
    BY <1>2 DEF GetIPPoolFromNetworkName, NadFailure, PoolLookup
  <2>2. nad \notin LabelMaps
    BY <1>2 DEF LabelMaps
  <2>. QED
    BY <1>2, <2>1, <2>2 DEF Failure
<1>3. CASE nad \in LabelMaps
  <2>0. nad # NoNAD /\ nad # NilLabels
    BY <1>3 DEF LabelMaps
  <2>1. CASE nad.ns = NoLabel
    <3>1. r = Failure("NoNamespaceLabel")
      BY <2>0, <2>1 DEF GetIPPoolFromNetworkName, NadFailure, PoolLookup
    <3>. QED
      BY <2>0, <2>1, <3>1 DEF Failure
  <2>2. CASE nad.ns # NoLabel /\ nad.name = NoLabel
    <3>1. r = Failure("NoNameLabel")
      BY <2>0, <2>2 DEF GetIPPoolFromNetworkName, NadFailure, PoolLookup
    <3>. QED
      BY <2>0, <2>2, <3>1 DEF Failure
  <2>3. CASE nad.ns # NoLabel /\ nad.name # NoLabel /\ <<nad.ns, nad.name>> \notin poolCache
    <3>1. r = Failure("PoolNotFound")
      BY <2>0, <2>3 DEF GetIPPoolFromNetworkName, NadFailure, PoolLookup
    <3>. QED
      BY <1>3, <2>0, <2>3, <3>1 DEF Failure
  <2>4. CASE nad.ns # NoLabel /\ nad.name # NoLabel /\ <<nad.ns, nad.name>> \in poolCache
    <3>1. r = Found(<<nad.ns, nad.name>>)
      BY <2>0, <2>4 DEF GetIPPoolFromNetworkName, NadFailure, PoolLookup
    <3>. QED
      BY <1>3, <2>0, <2>4, <3>1 DEF Found
  <2>. QED
    BY <2>1, <2>2, <2>3, <2>4
<1>. QED
  BY <1>1, <1>2, <1>3 DEF NadStates

\* The resolver behaves as spec.md 4.1 and 7 say (ResolveAsSpecified), for
\* every network name, fallback and pair of caches: GetIPPoolFromNetworkName
\* returns the IPPool its NAD's labels name when both exist, NotFound when
\* either is missing and MissingLabel when a label is.
THEOREM ResolveCorrect == Spec => []ResolveAsSpecified
<1>1. TypeOK => ResolveAsSpecified
  <2> SUFFICES ASSUME TypeOK PROVE ResolveAsSpecified
    OBVIOUS
  <2>1. NadAt(nads, NadKey(name, fallback)) \in NadStates
    BY DEF TypeOK, NadAt, NadStates
  <2>. QED
    BY <2>1, ResolveCases DEF ResolveAsSpecified
<1>. QED
  BY <1>1, TypeInvariant, PTL

=============================================================================
