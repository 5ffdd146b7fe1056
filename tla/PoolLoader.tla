----------------------------- MODULE PoolLoader -----------------------------
(***************************************************************************)
(* The address arithmetic of the Pool State Loader (pkg/util/network.go):  *)
(* LoadCIDR, which computes a pool's network and broadcast addresses byte  *)
(* by byte, and IsIPInBetweenOf, which compares addresses as netip does,   *)
(* byte by byte from the most significant one.  An address is a sequence  *)
(* of Width bytes of ByteBits bits (4 bytes of 8 bits for IPv4); the       *)
(* references are the arithmetic on the number an address stands for.     *)
(* The state is the CIDR that LoadPool is asked to load.                   *)
(***************************************************************************)
EXTENDS Integers, Sequences, Bitwise

CONSTANTS
    ByteBits,  \* bits per byte
    Width      \* bytes per address

ASSUME PoolLoaderAssumption ==
    /\ ByteBits \in Nat \ {0}
    /\ Width \in Nat \ {0}

VARIABLES
    ip,        \* the address part of the CIDR
    prefix     \* its prefix length

vars == <<ip, prefix>>

-----------------------------------------------------------------------------
(* Data *)

Byte == 0..(2^ByteBits - 1)

\* the bytes of an address, most significant first (net.IP)
IP == [1..Width -> Byte]

Bits == Width * ByteBits

\* the number an address stands for
Value(a) ==
    LET v[k \in 0..Width] == IF k = 0 THEN 0 ELSE v[k - 1] * 2^ByteBits + a[k]
    IN  v[Width]

-----------------------------------------------------------------------------
(* The loader *)

\* net.CIDRMask(p, Bits): the first p bits set, byte by byte
CIDRMask(p) ==
    [i \in 1..Width |->
        LET ones == IF p >= i * ByteBits THEN ByteBits
                    ELSE IF p <= (i - 1) * ByteBits THEN 0
                    ELSE p - (i - 1) * ByteBits
        IN  2^ByteBits - 2^(ByteBits - ones)]

\* net.ParseCIDR: the IPNet, whose IP is the address with the host bits
\* cleared (ip.Mask(m)), and the mask
ParseCIDR(a, p) ==
    [ip |-> [i \in 1..Width |-> a[i] & CIDRMask(p)[i]], mask |-> CIDRMask(p)]

\* ^b on a byte
Complement(b) == (2^ByteBits - 1) - b

\* mutant: the mask is ORed in without being inverted
LoadCIDRUninverted(a, p) ==
    LET ipNet == ParseCIDR(a, p) IN
    [network |-> ipNet.ip,
     broadcast |-> [i \in 1..Width |-> ipNet.ip[i] | ipNet.mask[i]]]

\* LoadCIDR: the network address is the IPNet's IP; the broadcast address
\* is a copy of it with every byte ORed with the inverted mask
LoadCIDR(a, p) ==
    LET ipNet == ParseCIDR(a, p) IN
    [network |-> ipNet.ip,
     broadcast |-> [i \in 1..Width |-> ipNet.ip[i] | Complement(ipNet.mask[i])]]

\* netip.Addr.Compare for two addresses of one family: the first byte in
\* which they differ decides
Compare(x, y) ==
    LET diff == {i \in 1..Width : x[i] # y[i]} IN
    IF diff = {} THEN 0
    ELSE LET i == CHOOSE i \in diff : \A j \in diff : i <= j
         IN  IF x[i] < y[i] THEN -1 ELSE 1

\* IsIPInBetweenOf on parsed addresses: ip1 <= ip <= ip2, both inclusive
IsIPInBetweenOf(a, lo, hi) == Compare(a, lo) >= 0 /\ Compare(a, hi) <= 0

-----------------------------------------------------------------------------
(* Actions *)

Init ==
    /\ ip \in IP
    /\ prefix \in 0..Bits

\* LoadPool loads the CIDR a/p of an IPPool (LoadPool calls LoadCIDR first)
Load(a, p) ==
    /\ ip' = a
    /\ prefix' = p

Next == \E a \in IP, p \in 0..Bits : Load(a, p)

Spec == Init /\ [][Next]_vars

-----------------------------------------------------------------------------
(* Properties *)

\* spec.md 4.2 and 8: LoadCIDR's network address is the CIDR's address
\* with the host bits zeroed and its broadcast address has them all set,
\* and IsIPInBetweenOf(x, network, broadcast) holds exactly for the
\* addresses x of the CIDR, both ends included.  This ties the byte-wise
\* OR with the inverted mask and netip's byte-wise comparison to the
\* arithmetic on the numbers the addresses stand for.
CIDRRangeExact ==
    LET r    == LoadCIDR(ip, prefix)
        host == 2^(Bits - prefix)
    IN  /\ Value(r.network) = (Value(ip) \div host) * host
        /\ Value(r.broadcast) = Value(r.network) + host - 1
        /\ \A x \in IP :
             IsIPInBetweenOf(x, r.network, r.broadcast) <=>
               Value(x) \div host = Value(ip) \div host

=============================================================================
