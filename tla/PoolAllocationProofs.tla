------------------------ MODULE PoolAllocationProofs ------------------------
(***************************************************************************)
(* LoadAllocated partitions the allocation map exactly, for every map, key *)
(* set and order of the range loop.  The argument is the loop invariant:   *)
(* the lists partition the parsable keys visited so far.                   *)
(***************************************************************************)
EXTENDS PoolAllocation, FiniteSetTheorems, SequenceTheorems, TLAPS

\* the range loop's invariant, and what it gives once the call returns
LoopInv ==
    /\ IsFiniteSet(visited)
    /\ loading \/ loaded => /\ visited \subseteq DOMAIN allocated
                            /\ PartitionOf(lists, allocated, visited)
    /\ loaded => visited = DOMAIN allocated /\ ~loading

IInv == AllocationTypeOK /\ LoopInv

ListNames == {"allocatedList", "excludedList", "reservedList"}

-----------------------------------------------------------------------------
(* The operators *)

\* appending x to a list adds exactly x to the addresses it holds
LEMMA InListAppend ==
    ASSUME NEW S, NEW s \in Seq(S), NEW x \in S, NEW a
    PROVE  IsIPAddrInList(a, Append(s, x)) <=> IsIPAddrInList(a, s) \/ a = x
<1>1. /\ DOMAIN Append(s, x) = 1 .. Len(s) + 1
      /\ \A i \in 1 .. Len(s) : Append(s, x)[i] = s[i]
      /\ Append(s, x)[Len(s) + 1] = x
      /\ DOMAIN s = 1 .. Len(s) /\ Len(s) \in Nat
  BY AppendProperties, LenProperties
<1>. QED
  BY <1>1 DEF IsIPAddrInList

\* a visited key that is parsable and carries a marker of ms adds its
\* address to the addresses marked ms, and any other key adds none
LEMMA MarkedAddIn ==
    ASSUME NEW m, NEW V, NEW ip, NEW ms, ParseAddr[ip] # ParseError, m[ip] \in ms
    PROVE  Marked(m, V \cup {ip}, ms) = Marked(m, V, ms) \cup {ParseAddr[ip]}
BY DEF Marked, Parsable

LEMMA MarkedAddOut ==
    ASSUME NEW m, NEW V, NEW ip, NEW ms, ParseAddr[ip] = ParseError \/ m[ip] \notin ms
    PROVE  Marked(m, V \cup {ip}, ms) = Marked(m, V, ms)
BY DEF Marked, Parsable

\* a visited key adds one parsable key exactly when it is parsable
LEMMA ParsableAdd ==
    ASSUME NEW V, IsFiniteSet(V), NEW ip, ip \notin V
    PROVE  /\ IsFiniteSet(Parsable(V))
           /\ Cardinality(Parsable(V \cup {ip})) =
                IF ParseAddr[ip] # ParseError THEN Cardinality(Parsable(V)) + 1
                ELSE Cardinality(Parsable(V))
<1>1. IsFiniteSet(Parsable(V))
  BY FS_Subset DEF Parsable
<1>2. CASE ParseAddr[ip] # ParseError
  <2>1. Parsable(V \cup {ip}) = Parsable(V) \cup {ip} /\ ip \notin Parsable(V)
    BY <1>2 DEF Parsable
  <2>. QED
    BY <1>1, <1>2, <2>1, FS_AddElement
<1>3. CASE ParseAddr[ip] = ParseError
  <2>1. Parsable(V \cup {ip}) = Parsable(V)
    BY <1>3 DEF Parsable
  <2>. QED
    BY <1>1, <1>3, <2>1
<1>. QED
  BY <1>1, <1>2, <1>3

\* One iteration of the range loop keeps the lists a partition: after it
\* they partition the visited keys and the key it visited.
LEMMA EntryPartition ==
    ASSUME NEW m, NEW D \in SUBSET Keys, m \in [D -> Markers],
           NEW V \in SUBSET D, IsFiniteSet(V), NEW ip \in D \ V,
           NEW l \in [ListNames -> Seq(Addrs)], PartitionOf(l, m, V)
    PROVE  /\ LoadEntry(m, l, ip) \in [ListNames -> Seq(Addrs)]
           /\ PartitionOf(LoadEntry(m, l, ip), m, V \cup {ip})
<1>0. /\ Cardinality(Parsable(V)) \in Nat
      /\ \A n \in ListNames : Len(l[n]) \in Nat
  BY ParsableAdd, FS_CardinalityType, LenProperties DEF ListNames
<1>1. CASE ParseAddr[ip] = ParseError
  <2>1. LoadEntry(m, l, ip) = l
    BY <1>1 DEF LoadEntry
  <2>2. \A ms : Marked(m, V \cup {ip}, ms) = Marked(m, V, ms)
    BY <1>1, MarkedAddOut
  <2>3. Cardinality(Parsable(V \cup {ip})) = Cardinality(Parsable(V))
    BY <1>1, ParsableAdd
  <2>. QED
    BY <2>1, <2>2, <2>3 DEF PartitionOf
<1>2. CASE ParseAddr[ip] # ParseError /\ m[ip] = ExcludedMark
  <2>1. ParseAddr[ip] \in Addrs
    BY <1>2, ParseAddrAssumption
  <2>2. LoadEntry(m, l, ip) = [l EXCEPT !.excludedList = Append(l.excludedList, ParseAddr[ip])]
    BY <1>2, ParseAddrAssumption DEF LoadEntry
  <2>3. Marked(m, V \cup {ip}, {ExcludedMark}) = Marked(m, V, {ExcludedMark}) \cup {ParseAddr[ip]}
    BY <1>2 DEF Marked, Parsable
  <2>4. /\ Marked(m, V \cup {ip}, {ReservedMark}) = Marked(m, V, {ReservedMark})
        /\ Marked(m, V \cup {ip}, Owners) = Marked(m, V, Owners)
    BY <1>2, MarkedAddOut, ParseAddrAssumption
  <2>5. Cardinality(Parsable(V \cup {ip})) = Cardinality(Parsable(V)) + 1
    BY <1>2, ParsableAdd
  <2>6. /\ Append(l.excludedList, ParseAddr[ip]) \in Seq(Addrs)
        /\ Len(Append(l.excludedList, ParseAddr[ip])) = Len(l.excludedList) + 1
        /\ \A a : IsIPAddrInList(a, Append(l.excludedList, ParseAddr[ip]))
                    <=> IsIPAddrInList(a, l.excludedList) \/ a = ParseAddr[ip]
    BY <2>1, AppendProperties, InListAppend DEF ListNames
  <2>7. /\ LoadEntry(m, l, ip).excludedList = Append(l.excludedList, ParseAddr[ip])
        /\ LoadEntry(m, l, ip).reservedList = l.reservedList
        /\ LoadEntry(m, l, ip).allocatedList = l.allocatedList
        /\ LoadEntry(m, l, ip) \in [ListNames -> Seq(Addrs)]
    BY <2>2, <2>6 DEF ListNames
  <2>8. \A a \in Addrs \cup {ZeroAddr} :
          /\ IsIPAddrInList(a, LoadEntry(m, l, ip).excludedList)
               <=> a \in Marked(m, V \cup {ip}, {ExcludedMark})
          /\ IsIPAddrInList(a, LoadEntry(m, l, ip).reservedList)
               <=> a \in Marked(m, V \cup {ip}, {ReservedMark})
          /\ IsIPAddrInList(a, LoadEntry(m, l, ip).allocatedList)
               <=> a \in Marked(m, V \cup {ip}, Owners)
    BY <2>3, <2>4, <2>6, <2>7 DEF PartitionOf
  <2>9. Len(LoadEntry(m, l, ip).excludedList) + Len(LoadEntry(m, l, ip).reservedList)
          + Len(LoadEntry(m, l, ip).allocatedList) = Cardinality(Parsable(V \cup {ip}))
    BY <1>0, <2>5, <2>6, <2>7 DEF PartitionOf, ListNames
  <2>. QED
    BY <2>7, <2>8, <2>9 DEF PartitionOf
<1>3. CASE ParseAddr[ip] # ParseError /\ m[ip] = ReservedMark
  <2>1. ParseAddr[ip] \in Addrs
    BY <1>3, ParseAddrAssumption
  <2>2. LoadEntry(m, l, ip) = [l EXCEPT !.reservedList = Append(l.reservedList, ParseAddr[ip])]
    BY <1>3, ParseAddrAssumption DEF LoadEntry
  <2>3. Marked(m, V \cup {ip}, {ReservedMark}) = Marked(m, V, {ReservedMark}) \cup {ParseAddr[ip]}
    BY <1>3 DEF Marked, Parsable
  <2>4. /\ Marked(m, V \cup {ip}, {ExcludedMark}) = Marked(m, V, {ExcludedMark})
        /\ Marked(m, V \cup {ip}, Owners) = Marked(m, V, Owners)
    BY <1>3, MarkedAddOut, ParseAddrAssumption
  <2>5. Cardinality(Parsable(V \cup {ip})) = Cardinality(Parsable(V)) + 1
    BY <1>3, ParsableAdd
  <2>6. /\ Append(l.reservedList, ParseAddr[ip]) \in Seq(Addrs)
        /\ Len(Append(l.reservedList, ParseAddr[ip])) = Len(l.reservedList) + 1
        /\ \A a : IsIPAddrInList(a, Append(l.reservedList, ParseAddr[ip]))
                    <=> IsIPAddrInList(a, l.reservedList) \/ a = ParseAddr[ip]
    BY <2>1, AppendProperties, InListAppend DEF ListNames
  <2>7. /\ LoadEntry(m, l, ip).reservedList = Append(l.reservedList, ParseAddr[ip])
        /\ LoadEntry(m, l, ip).excludedList = l.excludedList
        /\ LoadEntry(m, l, ip).allocatedList = l.allocatedList
        /\ LoadEntry(m, l, ip) \in [ListNames -> Seq(Addrs)]
    BY <2>2, <2>6 DEF ListNames
  <2>8. \A a \in Addrs \cup {ZeroAddr} :
          /\ IsIPAddrInList(a, LoadEntry(m, l, ip).excludedList)
               <=> a \in Marked(m, V \cup {ip}, {ExcludedMark})
          /\ IsIPAddrInList(a, LoadEntry(m, l, ip).reservedList)
               <=> a \in Marked(m, V \cup {ip}, {ReservedMark})
          /\ IsIPAddrInList(a, LoadEntry(m, l, ip).allocatedList)
               <=> a \in Marked(m, V \cup {ip}, Owners)
    BY <2>3, <2>4, <2>6, <2>7 DEF PartitionOf
  <2>9. Len(LoadEntry(m, l, ip).excludedList) + Len(LoadEntry(m, l, ip).reservedList)
          + Len(LoadEntry(m, l, ip).allocatedList) = Cardinality(Parsable(V \cup {ip}))
    BY <1>0, <2>5, <2>6, <2>7 DEF PartitionOf, ListNames
  <2>. QED
    BY <2>7, <2>8, <2>9 DEF PartitionOf
<1>4. CASE ParseAddr[ip] # ParseError /\ m[ip] \in Owners
  <2>1. ParseAddr[ip] \in Addrs
    BY <1>4, ParseAddrAssumption
  <2>2. LoadEntry(m, l, ip) = [l EXCEPT !.allocatedList = Append(l.allocatedList, ParseAddr[ip])]
    BY <1>4, ParseAddrAssumption DEF LoadEntry
  <2>3. Marked(m, V \cup {ip}, Owners) = Marked(m, V, Owners) \cup {ParseAddr[ip]}
    BY <1>4, MarkedAddIn
  <2>4. /\ Marked(m, V \cup {ip}, {ExcludedMark}) = Marked(m, V, {ExcludedMark})
        /\ Marked(m, V \cup {ip}, {ReservedMark}) = Marked(m, V, {ReservedMark})
    BY <1>4, MarkedAddOut, ParseAddrAssumption
  <2>5. Cardinality(Parsable(V \cup {ip})) = Cardinality(Parsable(V)) + 1
    BY <1>4, ParsableAdd
  <2>6. /\ Append(l.allocatedList, ParseAddr[ip]) \in Seq(Addrs)
        /\ Len(Append(l.allocatedList, ParseAddr[ip])) = Len(l.allocatedList) + 1
        /\ \A a : IsIPAddrInList(a, Append(l.allocatedList, ParseAddr[ip]))
                    <=> IsIPAddrInList(a, l.allocatedList) \/ a = ParseAddr[ip]
    BY <2>1, AppendProperties, InListAppend DEF ListNames
  <2>7. /\ LoadEntry(m, l, ip).allocatedList = Append(l.allocatedList, ParseAddr[ip])
        /\ LoadEntry(m, l, ip).excludedList = l.excludedList
        /\ LoadEntry(m, l, ip).reservedList = l.reservedList
        /\ LoadEntry(m, l, ip) \in [ListNames -> Seq(Addrs)]
    BY <2>2, <2>6 DEF ListNames
  <2>8. \A a \in Addrs \cup {ZeroAddr} :
          /\ IsIPAddrInList(a, LoadEntry(m, l, ip).excludedList)
               <=> a \in Marked(m, V \cup {ip}, {ExcludedMark})
          /\ IsIPAddrInList(a, LoadEntry(m, l, ip).reservedList)
               <=> a \in Marked(m, V \cup {ip}, {ReservedMark})
          /\ IsIPAddrInList(a, LoadEntry(m, l, ip).allocatedList)
               <=> a \in Marked(m, V \cup {ip}, Owners)
    BY <2>3, <2>4, <2>6, <2>7 DEF PartitionOf
  <2>9. Len(LoadEntry(m, l, ip).excludedList) + Len(LoadEntry(m, l, ip).reservedList)
          + Len(LoadEntry(m, l, ip).allocatedList) = Cardinality(Parsable(V \cup {ip}))
    BY <1>0, <2>5, <2>6, <2>7 DEF PartitionOf, ListNames
  <2>. QED
    BY <2>7, <2>8, <2>9 DEF PartitionOf
<1>. QED
  BY <1>1, <1>2, <1>3, <1>4 DEF Markers

-----------------------------------------------------------------------------
(* The loop invariant *)

\* the lists of a call that has just started partition the empty set
LEMMA StartPartition ==
    ASSUME NEW m
    PROVE  /\ NoLists \in [ListNames -> Seq(Addrs)]
           /\ PartitionOf(NoLists, m, {})
<1>1. /\ \A ms : Marked(m, {}, ms) = {}
      /\ Parsable({}) = {}
  BY DEF Marked, Parsable
<1>2. \A a : ~IsIPAddrInList(a, << >>)
  BY DEF IsIPAddrInList
<1>3. Cardinality(Parsable({})) = 0 /\ Len(<< >>) = 0
  BY <1>1, FS_EmptySet
<1>4. NoLists \in [ListNames -> Seq(Addrs)]
  <2>1. << >> \in Seq(Addrs)
    BY EmptySeq
  <2>2. NoLists = [n \in ListNames |-> << >>]
    BY DEF NoLists, ListNames
  <2>. QED
    BY <2>1, <2>2
<1>5. PartitionOf(NoLists, m, {})
  BY <1>1, <1>2, <1>3 DEF NoLists, PartitionOf
<1>. QED
  BY <1>4, <1>5

LEMMA InitIInv == Init => IInv
BY StartPartition, FS_EmptySet DEF Init, IInv, AllocationTypeOK, LoopInv, ListNames

LEMMA NextIInv == IInv /\ [Next]_vars => IInv'
<1> SUFFICES ASSUME IInv, [Next]_vars PROVE IInv'
  OBVIOUS
<1>0. PICK D \in SUBSET Keys : allocated \in [D -> Markers]
  BY DEF IInv, AllocationTypeOK, AllocationMaps
<1>1. CASE LoadStart
  BY <1>1, StartPartition, FS_EmptySet DEF LoadStart, IInv, AllocationTypeOK, LoopInv, ListNames
<1>2. ASSUME NEW ip \in Keys, LoadIteration(ip) PROVE IInv'
  <2>1. /\ visited \subseteq D /\ IsFiniteSet(visited) /\ ip \in D \ visited
        /\ lists \in [ListNames -> Seq(Addrs)]
        /\ PartitionOf(lists, allocated, visited)
    BY <1>0, <1>2 DEF LoadIteration, IInv, AllocationTypeOK, LoopInv, ListNames
  <2>2. /\ LoadEntry(allocated, lists, ip) \in [ListNames -> Seq(Addrs)]
        /\ PartitionOf(LoadEntry(allocated, lists, ip), allocated, visited \cup {ip})
    BY <1>0, <2>1, EntryPartition
  <2>3. IsFiniteSet(visited \cup {ip})
    BY <2>1, FS_AddElement
  <2>. QED
    BY <1>0, <1>2, <2>1, <2>2, <2>3
       DEF LoadIteration, IInv, AllocationTypeOK, LoopInv, ListNames
<1>3. CASE LoadReturn
  BY <1>3 DEF LoadReturn, IInv, AllocationTypeOK, LoopInv
<1>4. ASSUME NEW ip \in Keys, NEW val \in Markers, Write(ip, val) PROVE IInv'
  <2>1. allocated' \in [D \cup {ip} -> Markers]
    BY <1>0, <1>4 DEF Write
  <2>2. allocated' \in AllocationMaps
    <3>1. D \cup {ip} \in SUBSET Keys
      BY <1>0
    <3>. QED
      BY <2>1, <3>1 DEF AllocationMaps
  <2>. QED
    BY <1>4, <2>2 DEF Write, IInv, AllocationTypeOK, LoopInv
<1>5. ASSUME NEW ip \in Keys, Free(ip) PROVE IInv'
  <2>1. allocated' \in [D \ {ip} -> Markers]
    BY <1>0, <1>5 DEF Free
  <2>. QED
    BY <1>5, <2>1 DEF Free, IInv, AllocationTypeOK, LoopInv, AllocationMaps
<1>6. CASE UNCHANGED vars
  BY <1>6 DEF vars, IInv, AllocationTypeOK, LoopInv
<1>. QED
  BY <1>1, <1>2, <1>3, <1>4, <1>5, <1>6 DEF Next

-----------------------------------------------------------------------------
(* The theorems *)

\* LoadAllocated's lists hold addresses only: a corrupt key never puts the
\* zero Addr of a failed netip.ParseAddr into them.
THEOREM AllocationTypeCorrect == Spec => []AllocationTypeOK
<1>1. Spec => []IInv
  BY InitIInv, NextIInv, PTL DEF Spec
<1>. QED
  BY <1>1, PTL DEF IInv

\* Whatever order Go's range visits the allocation map in, a returned call
\* of LoadAllocated partitions the map's parsable keys exactly by marker,
\* one list entry per key.
THEOREM PartitionCorrect == Spec => []PartitionExact
<1>1. IInv => PartitionExact
  BY DEF IInv, LoopInv, PartitionExact
<1>. QED
  BY <1>1, InitIInv, NextIInv, PTL DEF Spec

=============================================================================
