------------------------------ MODULE Resolver ------------------------------
(***************************************************************************)
(* The Network Resolver: GetIPPoolFromNetworkName of pkg/util/network.go   *)
(* and its two callers, hasIPPool of the VM controller and Create of the   *)
(* vmnetcfg admission webhook.  A network name is a string, a sequence of  *)
(* characters over Letters and Slash; it is split on its last slash into   *)
(* the namespace and name of a NetworkAttachmentDefinition (NAD), whose    *)
(* labels name an IPPool that must exist in the IPPool cache.              *)
(*                                                                         *)
(* The state is what a lookup depends on: the network name and fallback    *)
(* namespace of the caller's current request, the NAD cache and the        *)
(* IPPool cache.  The caches change under the callers (NADs and IPPools    *)
(* are created, relabelled and deleted); every state is a request the      *)
(* resolver may have to answer.                                            *)
(***************************************************************************)
EXTENDS Naturals, Sequences

CONSTANTS
    Letters,    \* the characters of names other than "/"
    Slash,      \* the character "/"
    MaxLen,     \* the longest network name considered
    Namespaces, \* the namespaces of VMs and vmnetcfgs (the fallbacks)
    NadKeys,    \* the <<namespace, name>> keys the NAD cache may hold
    PoolNs,     \* values of the IPPool-namespace label
    PoolNames,  \* values of the IPPool-name label
    NoNAD,      \* the NAD cache has no entry for a key
    NilLabels,  \* the NAD's Labels map is nil
    NoLabel     \* the NAD's Labels map lacks a key

ASSUME ResolverAssumption ==
    /\ Slash \notin Letters
    /\ MaxLen \in Nat
    /\ NoLabel \notin PoolNs \cup PoolNames
    /\ NoNAD # NilLabels
    /\ {NoNAD, NilLabels} \cap
         [ns : PoolNs \cup {NoLabel}, name : PoolNames \cup {NoLabel}] = {}

VARIABLES
    name,       \* the networkName argument of the current lookup
    fallback,   \* its fallbackNamespace argument
    nads,       \* the NAD cache: key |-> NoNAD, NilLabels or the two labels
    pools       \* the keys of the IPPools in the IPPool cache

vars == <<name, fallback, nads, pools>>

-----------------------------------------------------------------------------
(* Data *)

\* strings of at most n characters
Str(n) == UNION {[1..k -> Letters \cup {Slash}] : k \in 0..n}

\* the IPPool labels of a NAD: a value per label key, NoLabel if absent
LabelMaps == [ns : PoolNs \cup {NoLabel}, name : PoolNames \cup {NoLabel}]

NadStates == {NoNAD, NilLabels} \cup LabelMaps

\* the <<namespace, name>> of an IPPool
PoolKeys == PoolNs \X PoolNames

\* the failures of GetIPPoolFromNetworkName, one per error it returns
Errors == {"NADNotFound", "NoLabels", "NoNamespaceLabel", "NoNameLabel",
           "PoolNotFound"}

\* its results: the error, or "none" and the IPPool's key
Failure(e) == [err |-> e, pool |-> <<>>]

Found(p) == [err |-> "none", pool |-> p]

-----------------------------------------------------------------------------
(* The resolver *)

\* the positions of "/" in s
Slashes(s) == {k \in DOMAIN s : s[k] = Slash}

\* kv.RSplit(s, "/") (wrangler, outside this repository): the text before
\* the last "/" and the text after it; "" and s when s has no "/"
RSplit(s) ==
    IF Slashes(s) = {} THEN <<<<>>, s>>
    ELSE LET j == CHOOSE j \in Slashes(s) : \A k \in Slashes(s) : k <= j
         IN  <<SubSeq(s, 1, j - 1), SubSeq(s, j + 1, Len(s))>>

\* the NAD key of a network name: an empty namespace part is replaced by
\* the fallback namespace
NadKey(n, fb) ==
    LET parts == RSplit(n) IN
    <<IF parts[1] = <<>> THEN fb ELSE parts[1], parts[2]>>

\* the NAD cache's answer for key k
NadAt(cache, k) == IF k \in DOMAIN cache THEN cache[k] ELSE NoNAD

\* mutant: the IPPool named by the labels is returned without its Get
GetIPPoolSkippingPoolGet(cache, poolCache, n, fb) ==
    LET nad == NadAt(cache, NadKey(n, fb)) IN
    IF nad = NoNAD THEN Failure("NADNotFound")
    ELSE IF nad = NilLabels THEN Failure("NoLabels")
    ELSE IF nad.ns = NoLabel THEN Failure("NoNamespaceLabel")
    ELSE IF nad.name = NoLabel THEN Failure("NoNameLabel")
    ELSE Found(<<nad.ns, nad.name>>)

\* the checks on the NAD read from the cache, in the order of the code's
\* early returns: the error of the first that fails, or "none"
NadFailure(nad) ==
    IF nad = NoNAD THEN "NADNotFound"
    ELSE IF nad = NilLabels THEN "NoLabels"
    ELSE IF nad.ns = NoLabel THEN "NoNamespaceLabel"
    ELSE IF nad.name = NoLabel THEN "NoNameLabel"
    ELSE "none"

\* the Get of the IPPool the NAD's labels name
PoolLookup(poolCache, nad) ==
    IF <<nad.ns, nad.name>> \notin poolCache THEN Failure("PoolNotFound")
    ELSE Found(<<nad.ns, nad.name>>)

\* GetIPPoolFromNetworkName: the IPPool's key, or the error of the first
\* check that fails
GetIPPoolFromNetworkName(cache, poolCache, n, fb) ==
    LET nad == NadAt(cache, NadKey(n, fb)) IN
    IF NadFailure(nad) # "none" THEN Failure(NadFailure(nad))
    ELSE PoolLookup(poolCache, nad)

\* hasIPPool: every error, NotFound or not, counts as "no IPPool"
HasIPPool(cache, poolCache, n, ns) ==
    GetIPPoolFromNetworkName(cache, poolCache, n, ns).err = "none"

-----------------------------------------------------------------------------
(* Actions *)

Init ==
    /\ name \in Str(MaxLen)
    /\ fallback \in Namespaces
    /\ nads \in [NadKeys -> NadStates]
    /\ pools \in SUBSET PoolKeys

\* a caller resolves network n: hasIPPool with the VM's namespace, or the
\* webhook with the vmnetcfg's namespace
Lookup(n, fb) ==
    /\ name' = n
    /\ fallback' = fb
    /\ UNCHANGED <<nads, pools>>

\* the NAD at key k is created, relabelled or deleted
NADChange(k, st) ==
    /\ nads[k] # st
    /\ nads' = [nads EXCEPT ![k] = st]
    /\ UNCHANGED <<name, fallback, pools>>

\* the IPPool p is created or deleted
PoolChange(p) ==
    /\ pools' = IF p \in pools THEN pools \ {p} ELSE pools \cup {p}
    /\ UNCHANGED <<name, fallback, nads>>

Next ==
    \/ \E n \in Str(MaxLen), fb \in Namespaces : Lookup(n, fb)
    \/ \E k \in NadKeys, st \in NadStates : NADChange(k, st)
    \/ \E p \in PoolKeys : PoolChange(p)

Spec == Init /\ [][Next]_vars

-----------------------------------------------------------------------------
(* Properties *)

\* Type correctness of the request and the two caches.
TypeOK ==
    /\ name \in Str(MaxLen)
    /\ fallback \in Namespaces
    /\ nads \in [NadKeys -> NadStates]
    /\ pools \subseteq PoolKeys

\* spec.md 4.1 and 7: a lookup returns an IPPool exactly when the NAD
\* exists, carries both IPPool labels and they name an IPPool in the
\* cache, and then returns that IPPool; it fails with NotFound when the NAD
\* or the named IPPool is missing, and with MissingLabel when the NAD
\* exists but lacks a label.
ResolveAsSpecified ==
    LET nad == NadAt(nads, NadKey(name, fallback))
        r   == GetIPPoolFromNetworkName(nads, pools, name, fallback)
        labelled == nad \in LabelMaps /\ nad.ns # NoLabel /\ nad.name # NoLabel
    IN  /\ r.err = "none" <=> labelled /\ <<nad.ns, nad.name>> \in pools
        /\ r.err = "none" => r.pool = <<nad.ns, nad.name>>
        /\ r.err \in {"NADNotFound", "PoolNotFound"} <=>
             nad = NoNAD \/ (labelled /\ <<nad.ns, nad.name>> \notin pools)

\* spec.md 8: for a network name containing "/", the NAD's namespace is the
\* text before the last "/"; for a name without "/", it is the fallback
\* namespace verbatim.
NamespaceAsSpecified ==
    LET ns == NadKey(name, fallback)[1] IN
    /\ Slashes(name) # {} =>
         \E j \in Slashes(name) :
            /\ \A k \in Slashes(name) : k <= j
            /\ ns = SubSeq(name, 1, j - 1)
    /\ Slashes(name) = {} => ns = fallback

=============================================================================
