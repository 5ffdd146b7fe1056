CONSTANTS
    k1 = k1  k2 = k2  k3 = k3  kbad = kbad
    a1 = a1  a2 = a2  a3 = a3
    Keys = {k1, k2, k3, kbad}
    Addrs = {a1, a2, a3}
    ParseAddr <- MCParseV4
    ParseError = ParseError
    ZeroAddr = ZeroAddr
    Owners = {o1, o2}
    ExcludedMark = ExcludedMark
    ReservedMark = ReservedMark
SPECIFICATION Spec
INVARIANTS AllocationTypeOK PartitionExact
