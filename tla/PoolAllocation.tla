--------------------------- MODULE PoolAllocation ---------------------------
(***************************************************************************)
(* LoadAllocated and IsIPAddrInList of pkg/util/network.go: an IPPool's    *)
(* allocation map (address string -> marker) split into the allocated,     *)
(* excluded and reserved address lists the allocation engine consults.     *)
(*                                                                         *)
(* A key is a model value; ParseAddr gives the address netip.ParseAddr     *)
(* reads from it, or ParseError.                                          *)
(*                                                                         *)
(* A call of LoadAllocated is LoadStart, one LoadIteration per key and     *)
(* LoadReturn.  Go's range visits every key once in an order it leaves     *)
(* unspecified, so an iteration takes any key not yet visited.  Nothing    *)
(* else happens to the map during the call: the engine works on its own    *)
(* copy of the IPPool, so Write and Free wait for the call to return.      *)
(***************************************************************************)
EXTENDS Naturals, Sequences, FiniteSets

CONSTANTS
    Keys,          \* the strings an allocation map may have as keys
    Addrs,         \* the addresses they spell
    ParseAddr,     \* netip.ParseAddr on each key
    ParseError,    \* ParseAddr's answer for a key that is no address
    ZeroAddr,      \* netip.Addr{}, what ParseAddr returns with its error
    Owners,        \* owner tags (MACs) the engine writes for a lease
    ExcludedMark,  \* "excluded"
    ReservedMark   \* "reserved"

ASSUME ParseAddrAssumption ==
    /\ ParseAddr \in [Keys -> Addrs \cup {ParseError}]
    /\ ParseError \notin Addrs /\ ZeroAddr \notin Addrs
    /\ {ExcludedMark, ReservedMark} \cap Owners = {} /\ ExcludedMark # ReservedMark

Markers == Owners \cup {ExcludedMark, ReservedMark}

\* the allocation maps an IPPool status can hold
AllocationMaps == UNION {[D -> Markers] : D \in SUBSET Keys}

VARIABLES
    allocated,  \* the pool's allocation map
    lists,      \* LoadAllocated's three named results
    visited,    \* the keys the range loop has visited
    loading,    \* a call of LoadAllocated is under way
    loaded      \* lists is what the last call returned for allocated

vars == <<allocated, lists, visited, loading, loaded>>

NoLists == [allocatedList |-> <<>>, excludedList |-> <<>>, reservedList |-> <<>>]

\* the loop with the "continue" on a parse error dropped: the zero Addr is
\* appended as if it were an address
LoadEntryKeepingBad(m, acc, ip) ==
    LET addr == IF ParseAddr[ip] = ParseError THEN ZeroAddr ELSE ParseAddr[ip]
        val == m[ip] IN
    IF val = ExcludedMark THEN [acc EXCEPT !.excludedList = Append(@, addr)]
    ELSE IF val = ReservedMark THEN [acc EXCEPT !.reservedList = Append(@, addr)]
    ELSE [acc EXCEPT !.allocatedList = Append(@, addr)]

\* one iteration of the range loop: skip an unparsable key, else append the
\* address to the list its marker selects
LoadEntry(m, acc, ip) ==
    LET val == m[ip] IN
    IF ParseAddr[ip] = ParseError THEN acc
    ELSE IF val = ExcludedMark THEN [acc EXCEPT !.excludedList = Append(@, ParseAddr[ip])]
    ELSE IF val = ReservedMark THEN [acc EXCEPT !.reservedList = Append(@, ParseAddr[ip])]
    ELSE [acc EXCEPT !.allocatedList = Append(@, ParseAddr[ip])]

\* exact-equality membership, as the loop compares netip.Addr values
IsIPAddrInList(ipAddr, ipAddrList) == \E i \in DOMAIN ipAddrList : ipAddrList[i] = ipAddr

Init ==
    /\ allocated \in AllocationMaps
    /\ lists = NoLists
    /\ visited = {}
    /\ loading = FALSE
    /\ loaded = FALSE

\* the engine calls LoadAllocated: the named results start out nil
LoadStart ==
    /\ ~loading
    /\ lists' = NoLists
    /\ visited' = {}
    /\ loading' = TRUE
    /\ loaded' = FALSE
    /\ UNCHANGED allocated

\* one iteration of the range loop, on a key it has not visited yet
LoadIteration(ip) ==
    /\ loading
    /\ ip \in DOMAIN allocated \ visited
    /\ lists' = LoadEntry(allocated, lists, ip)
    /\ visited' = visited \cup {ip}
    /\ UNCHANGED <<allocated, loading, loaded>>

\* the loop has visited every key and the call returns its lists
LoadReturn ==
    /\ loading
    /\ visited = DOMAIN allocated
    /\ loading' = FALSE
    /\ loaded' = TRUE
    /\ UNCHANGED <<allocated, lists, visited>>

\* the engine, the only writer of the map, records, marks or frees a key
Write(ip, val) ==
    /\ ~loading
    /\ allocated' = [k \in DOMAIN allocated \cup {ip} |-> IF k = ip THEN val ELSE allocated[k]]
    /\ loaded' = FALSE
    /\ UNCHANGED <<lists, visited, loading>>

Free(ip) ==
    /\ ~loading
    /\ ip \in DOMAIN allocated
    /\ allocated' = [k \in DOMAIN allocated \ {ip} |-> allocated[k]]
    /\ loaded' = FALSE
    /\ UNCHANGED <<lists, visited, loading>>

Next ==
    \/ LoadStart
    \/ \E ip \in Keys : LoadIteration(ip)
    \/ LoadReturn
    \/ \E ip \in Keys, val \in Markers : Write(ip, val)
    \/ \E ip \in Keys : Free(ip)

Spec == Init /\ [][Next]_vars

-----------------------------------------------------------------------------
(* Properties *)

\* the map is well formed and the lists hold addresses only, never the zero
\* Addr that netip.ParseAddr returns with its error
AllocationTypeOK ==
    /\ allocated \in AllocationMaps
    /\ lists \in [{"allocatedList", "excludedList", "reservedList"} -> Seq(Addrs)]
    /\ visited \subseteq Keys
    /\ loading \in BOOLEAN
    /\ loaded \in BOOLEAN

\* the parsable keys of the set V
Parsable(V) == {k \in V : ParseAddr[k] # ParseError}

\* the addresses of the keys of V carrying in m a marker of the set ms
Marked(m, V, ms) == {ParseAddr[k] : k \in {k \in Parsable(V) : m[k] \in ms}}

\* the lists l partition the parsable keys of V by their markers in m,
\* with one entry per key
PartitionOf(l, m, V) ==
    /\ \A a \in Addrs \cup {ZeroAddr} :
         /\ IsIPAddrInList(a, l.excludedList) <=> a \in Marked(m, V, {ExcludedMark})
         /\ IsIPAddrInList(a, l.reservedList) <=> a \in Marked(m, V, {ReservedMark})
         /\ IsIPAddrInList(a, l.allocatedList) <=> a \in Marked(m, V, Owners)
    /\ Len(l.excludedList) + Len(l.reservedList) + Len(l.allocatedList)
         = Cardinality(Parsable(V))

\* spec.md 3 and 4.2, LoadAllocated: whatever order Go ranges over the map
\* in, an address is in the excluded (reserved, allocated) list exactly when
\* some parsable key spelling it carries that marker, and the lists hold
\* one entry per parsable key: unparsable keys are dropped and nothing else.
PartitionExact == loaded => PartitionOf(lists, allocated, DOMAIN allocated)

=============================================================================
