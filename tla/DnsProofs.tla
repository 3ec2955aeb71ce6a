------------------------------ MODULE DnsProofs ------------------------------
(***************************************************************************)
(* Proofs about the bootstrap lookup, for every list of servers and every  *)
(* answer they may give: what ipv4_in_cidr (src/targets.rs:47-50) decides  *)
(* of an address, a network and a prefix length; that the packet parser of *)
(* resolve_plain_dns stays inside the packet and moves on; that it reads   *)
(* the address a grammar of packets says is there, and the lookup returns  *)
(* what the first server with an answer says; and which of the addresses   *)
(* found EchCache is given.                                                *)
(***************************************************************************)
EXTENDS Dns, WellFoundedInduction, TLAPS

(* The mask of a prefix has its first prefix bits set, and no other.       *)
LEMMA MaskBits ==
    ASSUME NEW prefix \in 1..Width
    PROVE  Mask(prefix) = [i \in Bits |-> i <= prefix]
<1>1. (Width - prefix) % Width = Width - prefix
  BY DEF Width
<1>2. ASSUME NEW i \in Bits
      PROVE  (i + (Width - prefix) <= Width /\ Ones[i + (Width - prefix)]) = (i <= prefix)
  BY DEF Ones, Bits, Width
<1> QED BY <1>1, <1>2 DEF Mask, ShiftLeft

(* An address is in network/prefix exactly when it agrees with the network *)
(* on the first prefix bits (ipv4_in_cidr, src/targets.rs:47).             *)
THEOREM CidrIsPrefix ==
    ASSUME NEW ip \in Word, NEW network \in Word, NEW prefix \in 1..Width
    PROVE  ipv4_in_cidr(ip, network, prefix) <=> \A i \in 1..prefix : ip[i] = network[i]
<1> DEFINE M == Mask(prefix)
<1>1. \A i \in Bits : M[i] = (i <= prefix)
  BY MaskBits
<1>2. 1..prefix \subseteq Bits /\ \A i \in Bits : i \in 1..prefix <=> i <= prefix
  BY DEF Bits, Width
<1>3. \A i \in Bits : ip[i] \in BOOLEAN /\ network[i] \in BOOLEAN
  BY DEF Word
<1> HIDE DEF M
<1>4. And(ip, M) = And(network, M)
        <=> \A i \in Bits : (ip[i] /\ M[i]) = (network[i] /\ M[i])
  BY DEF And
<1>5. (\A i \in Bits : (ip[i] /\ M[i]) = (network[i] /\ M[i]))
        <=> \A i \in 1..prefix : ip[i] = network[i]
  BY <1>1, <1>2, <1>3
<1> QED BY <1>4, <1>5 DEF ipv4_in_cidr, M

(* A prefix of 0, which no range of the table has, would stand for one     *)
(* address instead of all: the shift is by the whole width.                *)
THEOREM ZeroPrefixIsOneAddress ==
    ASSUME NEW ip \in Word, NEW network \in Word
    PROVE  ipv4_in_cidr(ip, network, 0) <=> ip = network
<1>1. Mask(0) = [i \in Bits |-> TRUE]
  <2>1. (Width - 0) % Width = 0
    BY DEF Width
  <2>2. \A i \in Bits : i + 0 <= Width /\ Ones[i + 0]
    BY DEF Ones, Bits, Width
  <2> QED BY <2>1, <2>2 DEF Mask, ShiftLeft
<1>2. And(ip, Mask(0)) = ip /\ And(network, Mask(0)) = network
  BY <1>1 DEF And, Word
<1> QED BY <1>2 DEF ipv4_in_cidr

(* An address that first differs from the network on a bit of the prefix   *)
(* lies before the range or after it.                                      *)
LEMMA Outside ==
    ASSUME NEW ip \in Word, NEW network \in Word, NEW prefix \in 1..Width,
           NEW k \in 1..prefix,
           ip[k] # network[k],
           \A j \in 1..(k - 1) : ip[j] = network[j]
    PROVE  Less(ip, FirstOf(network, prefix)) \/ Less(LastOf(network, prefix), ip)
<1>1. k \in Bits /\ 1..k \subseteq Bits
  BY DEF Bits, Width
<1>2. \A j \in 1..k : FirstOf(network, prefix)[j] = network[j]
  BY <1>1, MaskBits DEF FirstOf, And, Word
<1>3. \A j \in 1..k : LastOf(network, prefix)[j] = network[j]
  BY <1>1, MaskBits DEF LastOf, Or, Not, Word
<1>4. ip[k] \in BOOLEAN /\ network[k] \in BOOLEAN
  BY <1>1 DEF Word
<1>5. CASE network[k]
  <2>0. k \in 1..k
    OBVIOUS
  <2>1. ~ip[k] /\ FirstOf(network, prefix)[k]
    BY <1>2, <1>4, <1>5, <2>0, Zenon
  <2>2. \A j \in 1..(k - 1) : ip[j] = FirstOf(network, prefix)[j]
    BY <1>2
  <2> QED BY <1>1, <2>1, <2>2 DEF Less
<1>6. CASE ~network[k]
  <2>0. k \in 1..k
    OBVIOUS
  <2>1. ~LastOf(network, prefix)[k] /\ ip[k]
    BY <1>3, <1>4, <1>6, <2>0, Zenon
  <2>2. \A j \in 1..(k - 1) : LastOf(network, prefix)[j] = ip[j]
    BY <1>3
  <2> QED BY <1>1, <2>1, <2>2 DEF Less
<1> QED BY <1>4, <1>5, <1>6

(* A set of naturals with a member has a least one.                        *)
LEMMA LeastOf ==
    ASSUME NEW S \in SUBSET Nat, S # {}
    PROVE  \E k \in S : \A j \in S : k <= j
<1>1. PICK k \in S : \A j \in S : ~ (<<j, k>> \in OpToRel(<, Nat))
  BY NatLessThanWellFounded, WFMin
<1>2. \A j \in S : ~ (j < k)
  BY <1>1 DEF OpToRel
<1> QED BY <1>2

(* A range has no holes: an address is in it exactly when it lies between  *)
(* the first and the last one, which is how Cloudflare publishes them and  *)
(* the tests of src/targets.rs:57-93 probe them.                           *)
THEOREM CidrIsRange ==
    ASSUME NEW ip \in Word, NEW network \in Word, NEW prefix \in 1..Width
    PROVE  ipv4_in_cidr(ip, network, prefix)
             <=> /\ ~Less(ip, FirstOf(network, prefix))
                 /\ ~Less(LastOf(network, prefix), ip)
<1> DEFINE LowEnd == FirstOf(network, prefix)
           HighEnd == LastOf(network, prefix)
<1>0. \A i \in Bits : i \in 1..prefix <=> i <= prefix
  BY DEF Bits, Width
<1>1. ASSUME ipv4_in_cidr(ip, network, prefix), Less(ip, LowEnd)
      PROVE  FALSE
  <2>1. \A i \in Bits : LowEnd[i] = (network[i] /\ i <= prefix)
    BY MaskBits DEF FirstOf, And
  <2>2. \A i \in 1..prefix : ip[i] = network[i]
    BY <1>1, CidrIsPrefix
  <2>3. PICK i \in Bits : ~ip[i] /\ LowEnd[i]
    BY <1>1 DEF Less
  <2>4. network[i] /\ i <= prefix
    BY <2>1, <2>3
  <2> QED BY <1>0, <2>2, <2>3, <2>4
<1>2. ASSUME ipv4_in_cidr(ip, network, prefix), Less(HighEnd, ip)
      PROVE  FALSE
  <2>1. \A i \in Bits : HighEnd[i] = (network[i] \/ ~(i <= prefix))
    BY MaskBits DEF LastOf, Or, Not
  <2>2. \A i \in 1..prefix : ip[i] = network[i]
    BY <1>2, CidrIsPrefix
  <2>3. PICK i \in Bits : ~HighEnd[i] /\ ip[i]
    BY <1>2 DEF Less
  <2>4. ~network[i] /\ i <= prefix
    BY <2>1, <2>3
  <2> QED BY <1>0, <2>2, <2>3, <2>4
<1>3. ASSUME ~ipv4_in_cidr(ip, network, prefix)
      PROVE  Less(ip, LowEnd) \/ Less(HighEnd, ip)
  <2> DEFINE D == {i \in 1..prefix : ip[i] # network[i]}
  <2>1. D # {} /\ D \in SUBSET Nat
    BY <1>3, CidrIsPrefix
  <2>2. PICK k \in D : \A j \in D : k <= j
    BY <2>1, LeastOf
  <2>3. \A j \in 1..(k - 1) : ip[j] = network[j]
    BY <2>2
  <2> QED BY <2>2, <2>3, Outside
<1> QED BY <1>1, <1>2, <1>3

-----------------------------------------------------------------------------
(* Addresses as four octets.                                               *)

(* Bit r of an octet, bit 1 the most significant.                          *)
Bit(a, r) == (a \div 2^(8 - r)) % 2 = 1

(* The powers of two an octet is divided by.                               *)
LEMMA Powers ==
    /\ 2^(8 - 0) = 256 /\ 2^(8 - 1) = 128 /\ 2^(8 - 2) = 64 /\ 2^(8 - 3) = 32
    /\ 2^(8 - 4) = 16 /\ 2^(8 - 5) = 8 /\ 2^(8 - 6) = 4 /\ 2^(8 - 7) = 2 /\ 2^(8 - 8) = 1
OBVIOUS

(* The part of an octet above one bit and that bit make up the part that   *)
(* ends with it.                                                           *)
LEMMA Halves ==
    ASSUME NEW x \in Nat, NEW y \in Nat
    PROVE  x = y <=> x \div 2 = y \div 2 /\ (x % 2 = 1) = (y % 2 = 1)
OBVIOUS

(* Two octets agree on r bits if they do on one less and on bit r.         *)
LEMMA OneMoreBit ==
    ASSUME NEW a \in 0..255, NEW b \in 0..255, NEW r \in 1..8
    PROVE  a \div 2^(8 - r) = b \div 2^(8 - r)
             <=> a \div 2^(8 - (r - 1)) = b \div 2^(8 - (r - 1)) /\ Bit(a, r) = Bit(b, r)
<1>1. \A x \in 0..255 :
        /\ x \div 1 \in Nat   /\ x \div 2 = (x \div 1) \div 2
        /\ x \div 2 \in Nat   /\ x \div 4 = (x \div 2) \div 2
        /\ x \div 4 \in Nat   /\ x \div 8 = (x \div 4) \div 2
        /\ x \div 8 \in Nat   /\ x \div 16 = (x \div 8) \div 2
        /\ x \div 16 \in Nat  /\ x \div 32 = (x \div 16) \div 2
        /\ x \div 32 \in Nat  /\ x \div 64 = (x \div 32) \div 2
        /\ x \div 64 \in Nat  /\ x \div 128 = (x \div 64) \div 2
        /\ x \div 128 \in Nat /\ x \div 256 = (x \div 128) \div 2
  OBVIOUS
<1>2. \A x \in 0..255 : /\ x \div 2^(8 - r) \in Nat
                        /\ x \div 2^(8 - (r - 1)) = (x \div 2^(8 - r)) \div 2
  <2>0. r \in {1, 2, 3, 4, 5, 6, 7, 8}
    OBVIOUS
  <2>1. CASE r = 1
    BY <1>1, <2>1, Powers
  <2>2. CASE r = 2
    BY <1>1, <2>2, Powers
  <2>3. CASE r = 3
    BY <1>1, <2>3, Powers
  <2>4. CASE r = 4
    BY <1>1, <2>4, Powers
  <2>5. CASE r = 5
    BY <1>1, <2>5, Powers
  <2>6. CASE r = 6
    BY <1>1, <2>6, Powers
  <2>7. CASE r = 7
    BY <1>1, <2>7, Powers
  <2>8. CASE r = 8
    BY <1>1, <2>8, Powers
  <2> QED BY <2>0, <2>1, <2>2, <2>3, <2>4, <2>5, <2>6, <2>7, <2>8
<1> DEFINE x == a \div 2^(8 - r)
           y == b \div 2^(8 - r)
<1>3. x \in Nat /\ y \in Nat
  BY <1>2
<1>4. a \div 2^(8 - (r - 1)) = x \div 2 /\ b \div 2^(8 - (r - 1)) = y \div 2
  BY <1>2
<1>5. Bit(a, r) = (x % 2 = 1) /\ Bit(b, r) = (y % 2 = 1)
  BY DEF Bit
<1> HIDE DEF x, y
<1>6. x = y <=> x \div 2 = y \div 2 /\ (x % 2 = 1) = (y % 2 = 1)
  BY <1>3, Halves
<1> QED BY <1>4, <1>5, <1>6, Zenon DEF x, y

SameBit(a, b, r) == Bit(a, r) = Bit(b, r)

(* The first r bits of an octet are what dividing by 2^(8 - r) leaves.     *)
LEMMA OctetBits ==
    ASSUME NEW a \in 0..255, NEW b \in 0..255, NEW r \in 1..8
    PROVE  (\A j \in 1..r : SameBit(a, b, j)) <=> a \div 2^(8 - r) = b \div 2^(8 - r)
<1> DEFINE Same(n) == a \div 2^(8 - n) = b \div 2^(8 - n)
           Agree(n) == SameBit(a, b, n)
<1>1. \A n \in 1..8 : Same(n) <=> Same(n - 1) /\ Agree(n)
  BY OneMoreBit DEF SameBit
<1>2. Same(0)
  BY Powers
<1> HIDE DEF Same, Agree
<1>3. /\ Same(1) <=> Agree(1)
      /\ Same(2) <=> Same(1) /\ Agree(2)
      /\ Same(3) <=> Same(2) /\ Agree(3)
      /\ Same(4) <=> Same(3) /\ Agree(4)
      /\ Same(5) <=> Same(4) /\ Agree(5)
      /\ Same(6) <=> Same(5) /\ Agree(6)
      /\ Same(7) <=> Same(6) /\ Agree(7)
      /\ Same(8) <=> Same(7) /\ Agree(8)
  BY <1>1, <1>2
<1>4. (\A j \in 1..r : Agree(j)) <=> Same(r)
  <2>0. r \in {1, 2, 3, 4, 5, 6, 7, 8} /\ \A j \in 1..r : j \in {1, 2, 3, 4, 5, 6, 7, 8}
    OBVIOUS
  <2>1. CASE r \in {1, 2, 3, 4}
    BY <1>3, <2>1
  <2>2. CASE r \in {5, 6, 7, 8}
    BY <1>3, <2>2
  <2> QED BY <2>0, <2>1, <2>2
<1> QED BY <1>4 DEF Same, Agree

(* Two octets with the same bits are the same.                             *)
LEMMA SameOctet ==
    ASSUME NEW a \in 0..255, NEW b \in 0..255
    PROVE  (\A j \in 1..8 : SameBit(a, b, j)) <=> a = b
<1>1. \A r \in 1..8 :
        (\A j \in 1..r : SameBit(a, b, j)) <=> a \div 2^(8 - r) = b \div 2^(8 - r)
  BY OctetBits
<1>2. 8 \in 1..8 /\ a \div 2^(8 - 8) = a /\ b \div 2^(8 - 8) = b
  BY Powers
<1> QED BY <1>1, <1>2, Zenon

(* Bit 8(o - 1) + j of the word of an address is bit j of its octet o      *)
(* (ipv4_as_u32, src/targets.rs:29-31).                                    *)
LEMMA WordBits ==
    ASSUME NEW octets \in Octets
    PROVE  /\ ipv4_as_u32(octets) \in Word
           /\ \A o \in 1..4 : \A j \in 1..8 :
                 ipv4_as_u32(octets)[8 * (o - 1) + j] = Bit(octets[o], j)
<1>1. ipv4_as_u32(octets) \in Word
  BY DEF ipv4_as_u32, Word
<1>2. ASSUME NEW o \in 1..4, NEW j \in 1..8
      PROVE  ipv4_as_u32(octets)[8 * (o - 1) + j] = Bit(octets[o], j)
  <2> DEFINE i == 8 * (o - 1) + j
  <2>1. i \in Bits /\ 1 + (i - 1) \div 8 = o /\ 7 - ((i - 1) % 8) = 8 - j
    BY DEF Bits, Width
  <2> HIDE DEF i
  <2>2. ipv4_as_u32(octets)[i]
          = ((octets[1 + (i - 1) \div 8] \div 2^(7 - ((i - 1) % 8))) % 2 = 1)
    BY <2>1, Zenon DEF ipv4_as_u32
  <2> QED BY <2>1, <2>2, Zenon DEF Bit, i
<1> QED BY <1>1, <1>2

(* Masking two words (ipv4_in_cidr, src/targets.rs:47-50) compares the     *)
(* octets that lie in the prefix whole and the first bits of the next one. *)
THEOREM CidrByOctets ==
    ASSUME NEW ip \in Octets, NEW network \in Octets, NEW prefix \in 1..32
    PROVE  ipv4_in_cidr(ipv4_as_u32(ip), ipv4_as_u32(network), prefix)
             <=> InRange(ip, network, prefix)
<1> DEFINE q == (prefix - 1) \div 8
           r == prefix - 8 * q
           Same(i) == ipv4_as_u32(ip)[i] = ipv4_as_u32(network)[i]
           Agree(o, j) == SameBit(ip[o], network[o], j)
<1>1. q \in 0..3 /\ r \in 1..8 /\ prefix = 8 * q + r
  OBVIOUS
<1>2. ipv4_in_cidr(ipv4_as_u32(ip), ipv4_as_u32(network), prefix)
        <=> \A i \in 1..prefix : Same(i)
  BY WordBits, CidrIsPrefix DEF Width
<1>3. \A o \in 1..4 : \A j \in 1..8 : Same(8 * (o - 1) + j) <=> Agree(o, j)
  BY WordBits DEF SameBit
<1>4. ASSUME NEW o \in 1..4
      PROVE  (\A j \in 1..8 : Agree(o, j)) <=> ip[o] = network[o]
  <2>1. ip[o] \in 0..255 /\ network[o] \in 0..255
    BY DEF Octets
  <2> QED BY <2>1, SameOctet
<1>5. (\A j \in 1..r : Agree(q + 1, j))
        <=> ip[q + 1] \div 2^(8 - r) = network[q + 1] \div 2^(8 - r)
  <2>1. ip[q + 1] \in 0..255 /\ network[q + 1] \in 0..255
    BY <1>1 DEF Octets
  <2> DEFINE a == ip[q + 1]
             b == network[q + 1]
  <2> HIDE DEF a, b
  <2>2. \A n \in 1..8 : (\A j \in 1..n : SameBit(a, b, j)) <=> a \div 2^(8 - n) = b \div 2^(8 - n)
    BY <2>1, OctetBits DEF a, b
  <2> HIDE DEF q, r
  <2> QED BY <1>1, <2>2, Zenon DEF a, b
<1> HIDE DEF q, r, Same, Agree
<1>6. (\A i \in 1..prefix : Same(i))
        <=> /\ \A o \in 1..q : \A j \in 1..8 : Agree(o, j)
            /\ \A j \in 1..r : Agree(q + 1, j)
  <2>1. \A i \in 1..prefix :
          \E o \in 1..4, j \in 1..8 :
             i = 8 * (o - 1) + j /\ (o \in 1..q \/ (o = q + 1 /\ j \in 1..r))
    <3> SUFFICES ASSUME NEW i \in 1..prefix
                 PROVE  \E o \in 1..4, j \in 1..8 :
                    i = 8 * (o - 1) + j /\ (o \in 1..q \/ (o = q + 1 /\ j \in 1..r))
      OBVIOUS
    <3> DEFINE o == 1 + (i - 1) \div 8
               j == i - 8 * (o - 1)
    <3>1. o \in 1..4 /\ j \in 1..8 /\ i = 8 * (o - 1) + j
      BY <1>1
    <3>2. o \in 1..q \/ (o = q + 1 /\ j \in 1..r)
      BY <1>1
    <3> QED BY <3>1, <3>2
  <2>2. \A o \in 1..q : \A j \in 1..8 : o \in 1..4 /\ 8 * (o - 1) + j \in 1..prefix
    BY <1>1
  <2>3. \A j \in 1..r : q + 1 \in 1..4 /\ j \in 1..8 /\ 8 * (q + 1 - 1) + j \in 1..prefix
    BY <1>1
  <2>4. ASSUME \A i \in 1..prefix : Same(i)
        PROVE  /\ \A o \in 1..q : \A j \in 1..8 : Agree(o, j)
               /\ \A j \in 1..r : Agree(q + 1, j)
    <3>1. ASSUME NEW o \in 1..q, NEW j \in 1..8
          PROVE  Agree(o, j)
      BY <1>3, <2>2, <2>4, Zenon
    <3>2. ASSUME NEW j \in 1..r
          PROVE  Agree(q + 1, j)
      <4> DEFINE i == 8 * ((q + 1) - 1) + j
      <4>1. i \in 1..prefix /\ q + 1 \in 1..4 /\ j \in 1..8
        BY <1>1, <2>3
      <4>2. Same(i) <=> Agree(q + 1, j)
        BY <1>3, <4>1, Zenon
      <4> HIDE DEF i
      <4> QED BY <2>4, <4>1, <4>2, Zenon
    <3> QED BY <3>1, <3>2, Zenon
  <2>5. ASSUME /\ \A o \in 1..q : \A j \in 1..8 : Agree(o, j)
               /\ \A j \in 1..r : Agree(q + 1, j)
        PROVE  \A i \in 1..prefix : Same(i)
    <3> SUFFICES ASSUME NEW i \in 1..prefix
                 PROVE  Same(i)
      OBVIOUS
    <3>1. PICK o \in 1..4, j \in 1..8 :
             i = 8 * (o - 1) + j /\ (o \in 1..q \/ (o = q + 1 /\ j \in 1..r))
      BY <2>1
    <3>2. Agree(o, j)
      BY <2>5, <3>1, Zenon
    <3> QED BY <1>3, <3>1, <3>2, Zenon
  <2> QED BY <2>4, <2>5
<1>7. (\A o \in 1..q : \A j \in 1..8 : Agree(o, j)) <=> \A o \in 1..q : ip[o] = network[o]
  <2>1. \A o \in 1..q : o \in 1..4
    BY <1>1
  <2> QED BY <1>4, <2>1, Zenon
<1> QED BY <1>2, <1>5, <1>6, <1>7, Zenon DEF InRange, q, r

(* Every range of the table is an address and a prefix length.             *)
LEMMA RangeTable ==
    \A range \in CLOUDFLARE_IPV4_CIDRS : range[1] \in Octets /\ range[2] \in 1..32
<1>1. \A range \in CLOUDFLARE_IPV4_CIDRS : range[1] \in Octets
  BY DEF CLOUDFLARE_IPV4_CIDRS, Octets
<1>2. \A range \in CLOUDFLARE_IPV4_CIDRS : range[2] \in 1..32
  BY DEF CLOUDFLARE_IPV4_CIDRS
<1> QED BY <1>1, <1>2

(* An address is Cloudflare's exactly when its octets are in a range of    *)
(* the table (is_cloudflare_ip, src/targets.rs:39-45).                     *)
THEOREM CloudflareByOctets ==
    ASSUME NEW ip \in Octets
    PROVE  is_cloudflare_ip(ip)
             <=> \E range \in CLOUDFLARE_IPV4_CIDRS : InRange(ip, range[1], range[2])
BY RangeTable, CidrByOctets DEF is_cloudflare_ip

-----------------------------------------------------------------------------
LEMMA ByteType ==
    ASSUME ParserInv, asked > 0
    PROVE  /\ Len(Data) \in Nat
           /\ \A i \in Nat : Byte(Data, i) \in 0..255 /\ U16(Data, i) \in Nat
<1>1. asked \in 1..Len(servers)
  BY DnsAssumption DEF ParserInv
<1>2. Len(Data) \in Nat /\ \A j \in 1..Len(Data) : Data[j] \in 0..255
  BY <1>1, DnsAssumption DEF ParserInv, Data, Server
<1>3. \A i \in Nat : Byte(Data, i) \in 0..255
  BY <1>2 DEF Byte
<1>4. ASSUME NEW i \in Nat
      PROVE  U16(Data, i) \in Nat
  <2>1. i + 1 \in Nat
    OBVIOUS
  <2>2. Byte(Data, i) \in 0..255 /\ Byte(Data, i + 1) \in 0..255
    BY <1>3, <2>1
  <2>3. \A a, b \in 0..255 : a * 256 + b \in Nat
    OBVIOUS
  <2> QED BY <2>2, <2>3, Zenon DEF U16
<1> QED BY <1>2, <1>3, <1>4

(* The strings of a DoH answer that parse are IPv4 addresses.              *)
LEMMA DohAddresses ==
    ASSUME ParserInv, asked > 0
    PROVE  parse_a_records(Server.json) \subseteq Octets
<1>1. asked \in 1..Len(servers)
  BY DnsAssumption DEF ParserInv
<1>2. \A t \in Range(Server.json) : t.tag = "ip" => t.ip \in Octets
  BY <1>1, DnsAssumption DEF ParserInv, Server
<1> QED
  BY <1>2 DEF parse_a_records, Range

(* The parser's invariant is inductive.                                    *)
THEOREM ParserInvariant == Spec => []ParserInv
<1>1. Init => ParserInv
  BY DnsAssumption DEF Init, ParserInv, InBounds, Asking
<1>2. ParserInv /\ [Next]_vars => ParserInv'
  <2> SUFFICES ASSUME ParserInv, [Next]_vars
               PROVE  ParserInv'
    OBVIOUS
  <2> USE DEF ParserInv, InBounds, Asking, Data, Server
  <2>0. Len(servers) \in Nat
    BY DnsAssumption
  <2>1. CASE NextServer
    <3>1. \A i \in 1..Len(servers) : Len(servers[i].packet) \in Nat
      BY DnsAssumption
    <3>2. asked' \in 0..Len(servers) /\ touched' = 0 /\ UNCHANGED <<servers, pos, left>>
      BY <2>0, <2>1 DEF NextServer
    <3>3. pc' \in Asking => asked' = asked + 1
      BY <2>1 DEF NextServer, Give
    <3>4. asked' > 0 => touched' <= Len(servers'[asked'].packet)
      BY <2>0, <3>1, <3>2
    <3>5. pc' \in {"doh", "plain", "retain"} /\ found' \in SUBSET Octets
      BY <2>1 DEF NextServer, Give
    <3> QED BY <3>2, <3>3, <3>4, <3>5
  <2>2. CASE DohAnswer
    <3>1. parse_a_records(Server.json) \subseteq Octets
      BY <2>2, DohAddresses DEF DohAnswer
    <3> HIDE DEF Server
    <3>2. found' \in SUBSET Octets
      BY <2>2, <3>1 DEF DohAnswer, Give
    <3>3. pc' \in {"retain", "plain", "next"}
          /\ UNCHANGED <<servers, asked, pos, left, touched>>
      BY <2>2 DEF DohAnswer, Give
    <3> QED BY <2>2, <3>2, <3>3 DEF DohAnswer, Server
  <2>3. CASE Receive
    <3>1. asked > 0 /\ Len(Data) \in Nat
      BY <2>3, ByteType DEF Receive
    <3>2. U16(Data, 6) \in Nat
      BY <3>1, ByteType
    <3> QED BY <2>3, <3>1, <3>2 DEF Receive, GiveUp, Touch
  <2>4. CASE SkipName
    <3>1. asked > 0
      BY <2>4 DEF SkipName
    <3>2. Len(Data) \in Nat /\ Byte(Data, pos) \in 0..255
      BY <3>1, ByteType
    <3>3. pos' \in Nat
      <4>0. 1 \in Nat /\ 2 \in Nat /\ \A b \in 0..255 : 1 + b \in Nat
        OBVIOUS
      <4>1. Step(Data, pos) \in Nat
        BY <3>2, <4>0, Zenon DEF Step
      <4>2. pos' = pos \/ pos' = pos + Step(Data, pos) + 4 \/ pos' = pos + Step(Data, pos) + 0
        BY <2>4 DEF SkipName, GiveUp
      <4> QED BY <4>1, <4>2
    <3>4. touched' \in Nat /\ touched' <= Len(Data)
      BY <2>4, <3>1, <3>2 DEF SkipName, PastEnd, Touch
    <3>5. UNCHANGED <<servers, asked, found>> /\ left' = left
      BY <2>4 DEF SkipName, GiveUp
    <3>6. pc' \in Asking \cup {"next"}
      BY <2>4 DEF SkipName, GiveUp
    <3> QED BY <3>1, <3>3, <3>4, <3>5, <3>6
  <2>5. CASE NextAnswer
    BY <2>5 DEF NextAnswer, GiveUp
  <2>6. CASE Record
    <3>1. asked > 0
      BY <2>6 DEF Record
    <3>2. Len(Data) \in Nat /\ U16(Data, pos + 8) \in Nat
      <4>1. pos + 8 \in Nat
        OBVIOUS
      <4> QED BY <3>1, <4>1, ByteType
    <3>3. pos' \in Nat
      BY <2>6, <3>2 DEF Record, GiveUp, Give
    <3>4. touched' \in Nat /\ touched' <= Len(Data)
      <4>1. touched \in Nat /\ touched <= Len(Data)
        BY <3>1
      <4>2. \/ touched' = touched
            \/ pos + 10 <= Len(Data) /\ Touch(pos + 10)
            \/ pos + 10 + 4 <= Len(Data) /\ Touch(pos + 10 + 4)
        BY <2>6 DEF Record
      <4> HIDE <2>6 DEF Data
      <4> QED BY <3>2, <4>1, <4>2 DEF Touch
    <3>5. UNCHANGED <<servers, asked>> /\ left' = left
      BY <2>6 DEF Record, GiveUp, Give
    <3>6. pc' \in {"answers", "retain", "next"}
      BY <2>6 DEF Record, GiveUp, Give
    <3>7. found' \in SUBSET Octets
      <4>1. \A i \in 1..4 : Byte(Data, pos + 10 + i - 1) \in 0..255
        <5>1. \A i \in 1..4 : pos + 10 + i - 1 \in Nat
          OBVIOUS
        <5> QED BY <3>1, <5>1, ByteType
      <4>2. [i \in 1..4 |-> Byte(Data, pos + 10 + i - 1)] \in Octets
        BY <4>1 DEF Octets
      <4>3. \/ found' = {[i \in 1..4 |-> Byte(Data, pos + 10 + i - 1)]}
            \/ found' = found
        BY <2>6 DEF Record, Give, GiveUp
      <4> HIDE DEF Data
      <4> QED BY <4>2, <4>3, Zenon DEF ParserInv
    <3> QED BY <3>1, <3>3, <3>4, <3>5, <3>6, <3>7
  <2>7. CASE Retain
    BY <2>7 DEF Retain
  <2>8. CASE UNCHANGED vars
    BY <2>8 DEF vars
  <2> QED BY <2>1, <2>2, <2>3, <2>4, <2>5, <2>6, <2>7, <2>8 DEF Next
<1> QED BY <1>1, <1>2, PTL DEF Spec

(* No byte outside the packet is read, wherever the packet was cut and     *)
(* whatever lengths it contains (skip_name and the record loop,            *)
(* src/dns.rs:66-92 and 173-188).                                          *)
THEOREM StaysInBounds == Spec => []InBounds
<1>1. ParserInv => InBounds
  BY DEF ParserInv
<1> QED BY <1>1, ParserInvariant, PTL

(* Every name is skipped by at least one byte.                             *)
LEMMA StepType ==
    ASSUME ParserInv, asked > 0
    PROVE  Step(Data, pos) \in Nat /\ Step(Data, pos) >= 1
<1>1. Byte(Data, pos) \in 0..255
  BY ByteType DEF ParserInv
<1>2. \A b \in 0..255 : 1 + b \in Nat /\ 1 + b >= 1
  OBVIOUS
<1>3. 1 \in Nat /\ 1 >= 1 /\ 2 \in Nat /\ 2 >= 1
  OBVIOUS
<1> QED BY <1>1, <1>2, <1>3, Zenon DEF Step

(* Every step brings the lookup nearer to its end, in an order without     *)
(* infinite descents: whatever the servers send, there are finitely many   *)
(* of them, positions in a packet and answers it may announce.             *)
THEOREM Advancing == Spec => LookupAdvances
<1>1. ParserInv /\ [Next]_vars => [Advances]_vars
  <2> SUFFICES ASSUME ParserInv, Next
               PROVE  Advances
    BY DEF vars
  <2> USE DEF ParserInv, Asking, Advances, Rank
  <2>1. CASE NextServer
    BY <2>1, DnsAssumption DEF NextServer, Give
  <2>2. CASE DohAnswer
    BY <2>2 DEF DohAnswer, Give
  <2>3. CASE Receive
    BY <2>3 DEF Receive, GiveUp
  <2>4. CASE SkipName
    <3>1. Step(Data, pos) \in Nat /\ Step(Data, pos) >= 1 /\ Len(Data) \in Nat
      BY <2>4, StepType, ByteType DEF SkipName
    <3>2. CASE pc' = "next"
      BY <2>4, <3>2 DEF SkipName
    <3>3. CASE pc' # "next"
      <4>1. ~PastEnd
        BY <2>4, <3>3 DEF SkipName, GiveUp
      <4>2. pos < Len(Data) /\ pos' \in {pos + Step(Data, pos), pos + Step(Data, pos) + 4}
        BY <2>4, <3>1, <4>1 DEF SkipName, PastEnd
      <4>3. Rank[pc'] = Rank[pc] /\ UNCHANGED <<servers, asked>>
        BY <2>4, <4>1 DEF SkipName
      <4> QED BY <3>1, <4>2, <4>3
    <3> QED BY <3>2, <3>3
  <2>5. CASE NextAnswer
    BY <2>5 DEF NextAnswer, GiveUp
  <2>6. CASE Record
    <3>1. Len(Data) \in Nat /\ U16(Data, pos + 8) \in Nat
      <4>1. pos + 8 \in Nat /\ asked > 0
        BY <2>6 DEF Record
      <4> QED BY <4>1, ByteType
    <3>2. CASE pc' \in {"next", "retain"}
      BY <2>6, <3>2 DEF Record
    <3>3. CASE pc' \notin {"next", "retain"}
      <4>1. /\ pos + 10 <= Len(Data) /\ pos' = pos + 10 + U16(Data, pos + 8)
            /\ pc' = "answers" /\ pc = "record" /\ UNCHANGED <<servers, asked>>
        BY <2>6, <3>1, <3>3 DEF Record, GiveUp, Give
      <4> QED BY <3>1, <4>1
    <3> QED BY <3>2, <3>3
  <2>7. CASE Retain
    BY <2>7 DEF Retain
  <2> QED BY <2>1, <2>2, <2>3, <2>4, <2>5, <2>6, <2>7 DEF Next
<1> QED BY <1>1, ParserInvariant, PTL DEF Spec, LookupAdvances

-----------------------------------------------------------------------------
(* Once n names have been read without an address, and the next one is not *)
(* whole or beyond the count, the packet has none.                         *)
LEMMA NothingMore ==
    ASSUME NEW d, NEW names, NEW n \in Nat,
           Len(names) \in Nat, U16(d, 6) \in Nat,
           HasRead(d, names, n),
           n + 1 <= Len(names) /\ n <= U16(d, 6) => ~Whole(d, names, n + 1)
    PROVE  FirstAddress(d, names) = {}
<1> SUFFICES ASSUME NEW r \in AddressRecords(d, names)
             PROVE  FALSE
  BY DEF FirstAddress
<1>1. /\ r \in 2..Len(names) /\ r - 1 <= U16(d, 6)
      /\ \A i \in 1..r : Whole(d, names, i)
      /\ IsAddress(d, Fixed(d, names[r]))
  BY DEF AddressRecords
<1>2. r > n
  BY <1>1 DEF HasRead
<1>3. n + 1 \in 1..r
  BY <1>1, <1>2
<1> QED BY <1>1, <1>3

(* The first address is that of the first record that holds one.           *)
LEMMA FirstOne ==
    ASSUME NEW d, NEW names, NEW k \in 2..Len(names),
           Len(names) \in Nat, U16(d, 6) \in Nat,
           HasRead(d, names, k - 1), Whole(d, names, k),
           k - 1 <= U16(d, 6),
           IsAddress(d, Fixed(d, names[k]))
    PROVE  FirstAddress(d, names) = {[i \in 1..4 |-> Byte(d, Fixed(d, names[k]) + 9 + i)]}
<1>1. \A i \in 1..k : Whole(d, names, i)
  <2>1. \A i \in 1..k : i \in 1..(k - 1) \/ i = k
    OBVIOUS
  <2> QED BY <2>1 DEF HasRead
<1>2. k \in AddressRecords(d, names)
  BY <1>1 DEF AddressRecords
<1>3. \A r \in AddressRecords(d, names) : k <= r
  <2> SUFFICES ASSUME NEW r \in AddressRecords(d, names), r < k
               PROVE  FALSE
    BY DEF AddressRecords
  <2> QED BY DEF AddressRecords, HasRead
<1>4. \A r \in AddressRecords(d, names) :
          (\A j \in AddressRecords(d, names) : r <= j) => r = k
  BY <1>2, <1>3 DEF AddressRecords
<1> QED BY <1>2, <1>3, <1>4 DEF FirstAddress

(* A label leads to the next part of its name, an end to what follows it.  *)
LEMMA NextPart ==
    ASSUME NEW d, NEW names, NEW k \in 1..Len(names), NEW at \in Nat,
           Len(d) \in Nat, LaidOut(d, names),
           AtName(d, names, k, at), at < Len(d)
    PROVE  /\ ~NameEnds(d, at) => AtName(d, names, k, at + 1 + Byte(d, at))
           /\ NameEnds(d, at) => AtRecord(d, names, k, at + (IF Byte(d, at) = 0 THEN 1 ELSE 2))
<1>1. IsName(d, names[k]) /\ Len(names) \in Nat
  BY DEF LaidOut
<1> DEFINE n == names[k]
<1>2. PICK j \in 1..Len(n) : at = n[j] /\ \A i \in 1..(j - 1) : n[i] < Len(d)
  BY <1>1 DEF AtName
<1>3. \A i \in 1..j : n[i] < Len(d)
  <2>1. \A i \in 1..j : i \in 1..(j - 1) \/ i = j
    OBVIOUS
  <2> QED BY <1>2, <2>1
<1>4. Len(n) \in Nat /\ (NameEnds(d, at) <=> j = Len(n))
  BY <1>1, <1>2 DEF IsName
<1>5. ASSUME ~NameEnds(d, at)
      PROVE  AtName(d, names, k, at + 1 + Byte(d, at))
  <2>1. j + 1 \in 1..Len(n) /\ j \in 1..(Len(n) - 1)
    BY <1>4, <1>5
  <2>2. n[j + 1] = at + 1 + Byte(d, at)
    BY <1>1, <1>2, <2>1 DEF IsName
  <2>3. \A i \in 1..((j + 1) - 1) : n[i] < Len(d)
    BY <1>3
  <2> QED BY <1>1, <2>1, <2>2, <2>3, SMTT(20) DEF AtName
<1>6. ASSUME NameEnds(d, at)
      PROVE  AtRecord(d, names, k, at + (IF Byte(d, at) = 0 THEN 1 ELSE 2))
  <2>1. j = Len(n)
    BY <1>4, <1>6
  <2>2. at + (IF Byte(d, at) = 0 THEN 1 ELSE 2) = Fixed(d, n)
    BY <1>2, <2>1 DEF Fixed, LastOfName
  <2> QED BY <1>1, <1>3, <2>1, <2>2 DEF AtRecord
<1> QED BY <1>5, <1>6

(* Where one name and what belongs to it ends, the next one begins.        *)
LEMMA NextName ==
    ASSUME NEW d, NEW names, NEW k \in Nat \ {0},
           Len(d) \in Nat, U16(d, 6) \in Nat, LaidOut(d, names),
           HasRead(d, names, k), k <= U16(d, 6)
    PROVE  AtName(d, names, k + 1, After(d, names, k))
<1>1. Len(names) \in Nat /\ k \in 1..Len(names) /\ Whole(d, names, k)
  BY DEF HasRead, LaidOut
<1>2. CASE k < Len(names)
  <2>1. names[k + 1][1] = After(d, names, k) /\ Len(names[k + 1]) \in Nat \ {0}
    BY <1>1, <1>2 DEF LaidOut, IsName
  <2> QED BY <1>1, <1>2, <2>1 DEF AtName
<1>3. CASE k = Len(names)
  BY <1>1, <1>3 DEF AtName, LaidOut
<1> QED BY <1>1, <1>2, <1>3

(* A record that is whole and holds no address is read past.               *)
LEMMA ReadPast ==
    ASSUME NEW d, NEW names, NEW k \in Nat, k >= 2,
           Len(d) \in Nat, Len(names) \in Nat,
           HasRead(d, names, k - 1), AtRecord(d, names, k, pos),
           pos + 10 <= Len(d), ~IsAddress(d, pos)
    PROVE  HasRead(d, names, k)
<1>1. \A i \in 1..k : i \in 1..(k - 1) \/ i = k
  OBVIOUS
<1>2. \A i \in 2..k : i \in 2..(k - 1) \/ i = k
  OBVIOUS
<1> QED BY <1>1, <1>2 DEF HasRead, AtRecord, Whole

-----------------------------------------------------------------------------
(* What the proof of each step starts from, for a server that is asked.    *)
LEMMA ServerTypes ==
    ASSUME ParserInv, AllLaidOut, asked > 0
    PROVE  /\ asked \in 1..Len(servers) /\ Len(servers) \in Nat
           /\ LaidOut(Data, Server.names) /\ Len(Server.names) \in Nat \ {0}
           /\ Len(Data) \in Nat /\ pos \in Nat /\ left \in Nat
           /\ U16(Data, 6) \in Nat
<1>1. asked \in 1..Len(servers) /\ Len(servers) \in Nat
  BY DnsAssumption DEF ParserInv
<1>2. LaidOut(Data, Server.names)
  BY <1>1 DEF ParserInv, AllLaidOut, Data, Server
<1> QED BY <1>1, <1>2, ByteType DEF LaidOut, ParserInv

(* A server whose packet holds no address is passed.                       *)
LEMMA PassesServer ==
    ASSUME ParserInv, asked > 0, Len(servers) \in Nat, Passed(asked - 1),
           DohSays(Server) = {}, UdpSays(Server) = {},
           UNCHANGED <<servers, asked>>
    PROVE  Passed(asked)'
<1>1. Says(servers[asked]) = {}
  BY DEF Says, Server
<1>2. \A i \in 1..asked : i \in 1..(asked - 1) \/ i = asked
  BY DEF ParserInv
<1>3. Passed(asked)
  BY <1>1, <1>2 DEF Passed
<1> QED BY <1>3 DEF Passed

(* The server that is asked is the first with an answer.                   *)
LEMMA ServerWins ==
    ASSUME ParserInv, asked \in 1..Len(servers), Passed(asked - 1),
           found' = Says(Server), found' # {}, pc' = "retain",
           UNCHANGED <<servers, asked>>
    PROVE  (ReaderInv /\ FirstServerWins)'
<1>1. FirstServerWins'
  BY DEF FirstServerWins, Passed, Server
<1> QED BY <1>1 DEF ReaderInv, Asking

(* A lookup that gives a server up goes on to the next one.                *)
LEMMA GivesUp ==
    ASSUME ParserInv, asked > 0, Len(servers) \in Nat, Passed(asked - 1),
           DohSays(Server) = {}, UdpSays(Server) = {},
           UNCHANGED <<servers, asked>>, pc' = "next"
    PROVE  (ReaderInv /\ FirstServerWins)'
BY PassesServer DEF ReaderInv, FirstServerWins, Asking

(* It stays at the packet of the server it asks.                           *)
LEMMA ReadsOn ==
    ASSUME ReaderInv, pc \in Asking \ {"doh"}, Server.kind # "port",
           UNCHANGED <<servers, asked>>,
           pc' \in Asking \ {"doh", "plain"},
           AtPacket(Data, Server.names, U16(Data, 6) - left + 1)'
    PROVE  (ReaderInv /\ FirstServerWins)'
<1>1. Passed(asked - 1) /\ DohSays(Server) = {} /\ Server.kind # "doh"
  BY DEF ReaderInv
<1>2. Server' = Server
  BY DEF Server
<1>3. Passed(asked - 1)'
  BY <1>1 DEF Passed
<1>4. DohSays(Server)' = DohSays(Server)
  BY <1>2
<1> QED BY <1>1, <1>2, <1>3, <1>4 DEF ReaderInv, FirstServerWins, Asking

LEMMA NextServerKeeps ==
    ASSUME ParserInv, ReaderInv, NextServer
    PROVE  (ReaderInv /\ FirstServerWins)'
<1>1. Passed(asked) /\ Len(servers) \in Nat /\ UNCHANGED servers
  BY DnsAssumption DEF NextServer, ReaderInv, ParserInv
<1>2. CASE asked = Len(servers)
  <2>1. found' = {} /\ pc' = "retain" /\ asked' = asked
    BY <1>2 DEF NextServer, Give
  <2>2. FirstServerWins'
    BY <1>1, <1>2, <2>1 DEF FirstServerWins, Passed
  <2> QED BY <2>1, <2>2 DEF ReaderInv, Asking
<1>3. CASE asked # Len(servers)
  <2>1. asked' = asked + 1 /\ asked \in Nat
        /\ pc' = IF Server'.kind \in {"doh", "name"} THEN "doh" ELSE "plain"
    BY <1>1, <1>3 DEF NextServer, Server, ParserInv
  <2>2. Passed(asked - 1)'
    BY <1>1, <2>1 DEF Passed
  <2>3. pc' = "plain" => DohSays(Server)' = {} /\ Server'.kind # "doh"
    BY <2>1 DEF DohSays
  <2> QED BY <2>1, <2>2, <2>3 DEF ReaderInv, FirstServerWins, Asking
<1> QED BY <1>2, <1>3

LEMMA DohAnswerKeeps ==
    ASSUME ParserInv, ReaderInv, DohAnswer
    PROVE  (ReaderInv /\ FirstServerWins)'
<1>1. /\ pc = "doh" /\ Passed(asked - 1) /\ Server.kind \in {"doh", "name"}
      /\ asked \in 1..Len(servers) /\ Len(servers) \in Nat /\ asked > 0
      /\ UNCHANGED <<servers, asked>>
  BY DnsAssumption DEF DohAnswer, ReaderInv, ParserInv, Asking
<1>2. DohSays(Server) = parse_a_records(Server.json)
  BY <1>1 DEF DohSays
<1>3. CASE parse_a_records(Server.json) # {}
  <2>1. found' = Says(Server) /\ found' # {} /\ pc' = "retain"
    BY <1>2, <1>3 DEF DohAnswer, Give, Says
  <2> QED BY <1>1, <2>1, ServerWins
<1>4. CASE parse_a_records(Server.json) = {} /\ Server.kind = "name"
  <2>1. pc' = "plain" /\ Server' = Server
    BY <1>1, <1>4 DEF DohAnswer, Server
  <2>2. DohSays(Server)' = {} /\ Passed(asked - 1)'
    BY <1>1, <1>2, <1>4, <2>1 DEF Passed
  <2> QED BY <1>4, <2>1, <2>2 DEF ReaderInv, FirstServerWins, Asking
<1>5. CASE parse_a_records(Server.json) = {} /\ Server.kind # "name"
  <2>1. pc' = "next" /\ UdpSays(Server) = {}
    BY <1>1, <1>5 DEF DohAnswer, UdpSays
  <2> QED BY <1>1, <1>2, <1>5, <2>1, GivesUp
<1> QED BY <1>3, <1>4, <1>5

LEMMA ReceiveKeeps ==
    ASSUME ParserInv, AllLaidOut, ReaderInv, Receive
    PROVE  (ReaderInv /\ FirstServerWins)'
<1>1. /\ pc = "plain" /\ asked > 0 /\ UNCHANGED <<servers, asked>>
      /\ Passed(asked - 1) /\ DohSays(Server) = {} /\ Server.kind # "doh"
  BY DEF Receive, ReaderInv, ParserInv, Asking
<1>2. /\ LaidOut(Data, Server.names) /\ Len(Server.names) \in Nat \ {0}
      /\ Len(Data) \in Nat /\ U16(Data, 6) \in Nat /\ Len(servers) \in Nat
  BY <1>1, ServerTypes
<1>3. CASE Server.kind = "port" \/ Len(Data) < 12 \/ U16(Data, 0) # TxId
  <2>1. pc' = "next"
    BY <1>3 DEF Receive, GiveUp
  <2>2. UdpSays(Server) = {}
    BY <1>3 DEF UdpSays, Data
  <2> QED BY <1>1, <1>2, <2>1, <2>2, GivesUp
<1>4. CASE ~(Server.kind = "port" \/ Len(Data) < 12 \/ U16(Data, 0) # TxId)
  <2>1. pc' = "question" /\ pos' = 12 /\ left' = U16(Data, 6)
    BY <1>4 DEF Receive
  <2>2. AtName(Data, Server.names, 1, 12) /\ HasRead(Data, Server.names, 0)
    BY <1>2 DEF AtName, HasRead, LaidOut, IsName
  <2>3. Data' = Data /\ Server' = Server
    BY <1>1 DEF Data, Server
  <2>4. U16(Data, 6) - left' + 1 = 1 /\ Len(Data) >= 12
    BY <1>2, <1>4, <2>1
  <2>5. AtPacket(Data, Server.names, U16(Data, 6) - left + 1)'
    BY <1>2, <1>4, <2>1, <2>2, <2>3, <2>4 DEF AtPacket
  <2> QED BY <1>1, <1>4, <2>1, <2>5, ReadsOn DEF Asking
<1> QED BY <1>3, <1>4

(* What is known wherever the parser is in a packet.                       *)
LEMMA InPacket ==
    ASSUME ParserInv, AllLaidOut, ReaderInv, pc \in {"question", "answers", "name", "record"}
    PROVE  /\ asked > 0 /\ asked \in 1..Len(servers) /\ Len(servers) \in Nat
           /\ Passed(asked - 1) /\ DohSays(Server) = {}
           /\ Server.kind \notin {"doh", "port"}
           /\ LaidOut(Data, Server.names) /\ Len(Server.names) \in Nat \ {0}
           /\ Len(Data) \in Nat /\ pos \in Nat /\ left \in Nat
           /\ U16(Data, 6) \in Nat /\ left <= U16(Data, 6)
           /\ AtPacket(Data, Server.names, U16(Data, 6) - left + 1)
           /\ UdpSays(Server) = FirstAddress(Data, Server.names)
<1>1. asked > 0
  BY DEF ParserInv, Asking
<1>2. /\ Passed(asked - 1) /\ DohSays(Server) = {} /\ Server.kind \notin {"doh", "port"}
      /\ AtPacket(Data, Server.names, U16(Data, 6) - left + 1)
  BY DEF ReaderInv, Asking
<1>3. left <= U16(Data, 6) /\ Len(Data) >= 12 /\ U16(Data, 0) = TxId
  BY <1>2 DEF AtPacket
<1>4. Len(Data) \in Nat
  BY <1>1, ServerTypes
<1>5. UdpSays(Server) = FirstAddress(Data, Server.names)
  BY <1>2, <1>3, <1>4 DEF UdpSays, Data
<1> QED BY <1>1, <1>2, <1>3, <1>5, ServerTypes

LEMMA SkipNameKeeps ==
    ASSUME ParserInv, AllLaidOut, ReaderInv, SkipName
    PROVE  (ReaderInv /\ FirstServerWins)'
<1> DEFINE d == Data
           names == Server.names
           k == U16(Data, 6) - left + 1
<1>1. pc \in {"question", "name"} /\ UNCHANGED <<servers, asked>> /\ Data' = Data /\ Server' = Server
  BY DEF SkipName, Data, Server
<1>2. /\ asked > 0 /\ Len(servers) \in Nat
      /\ Passed(asked - 1) /\ DohSays(Server) = {} /\ Server.kind \notin {"doh", "port"}
      /\ LaidOut(d, names) /\ Len(names) \in Nat \ {0}
      /\ Len(d) \in Nat /\ pos \in Nat /\ left \in Nat
      /\ U16(d, 6) \in Nat /\ left <= U16(d, 6)
      /\ AtPacket(d, names, k) /\ UdpSays(Server) = FirstAddress(d, names)
  BY <1>1, InPacket
<1>3. /\ Len(d) >= 12 /\ U16(d, 0) = TxId
      /\ HasRead(d, names, k - 1) /\ AtName(d, names, k, pos)
      /\ pc = "question" => left = U16(d, 6)
      /\ pc = "name" => left < U16(d, 6)
  BY <1>1, <1>2 DEF AtPacket
<1>4. k \in Nat \ {0} /\ (pc = "question" => k = 1) /\ k - 1 \in Nat
  BY <1>2, <1>3
<1>5. CASE PastEnd
  <2>1. pc' = "next"
    BY <1>5 DEF SkipName, GiveUp
  <2>2. ASSUME k <= Len(names), Whole(d, names, k)
        PROVE  FALSE
    <3>1. PICK j \in 1..Len(names[k]) : pos = names[k][j]
      BY <1>3, <2>2 DEF AtName
    <3>2. pos < Len(d)
      BY <2>2, <3>1 DEF Whole
    <3> QED BY <1>2, <1>5, <3>2 DEF PastEnd
  <2>3. (k - 1) + 1 = k
    BY <1>4
  <2>4. FirstAddress(d, names) = {}
    BY <1>2, <1>3, <1>4, <2>2, <2>3, NothingMore
  <2> QED BY <1>1, <1>2, <2>1, <2>4, GivesUp
<1>6. CASE ~PastEnd
  <2>1. pos < Len(d) /\ left' = left
    BY <1>2, <1>6 DEF SkipName, PastEnd
  <2>2. k \in 1..Len(names)
    BY <1>2, <1>3, <1>4, <2>1 DEF AtName
  <2>3. /\ ~NameEnds(d, pos) => AtName(d, names, k, pos + 1 + Byte(d, pos))
        /\ NameEnds(d, pos) => AtRecord(d, names, k, pos + (IF Byte(d, pos) = 0 THEN 1 ELSE 2))
    BY <1>2, <1>3, <2>1, <2>2, NextPart
  <2>4. Byte(d, pos) \in 0..255
    BY <1>2, ByteType
  <2> HIDE DEF d, names, k
  <2>5. AtPacket(Data, Server.names, U16(Data, 6) - left + 1)' <=>
            /\ Len(d) >= 12 /\ U16(d, 0) = TxId
            /\ left <= U16(d, 6)
            /\ HasRead(d, names, IF pc' = "answers" THEN k ELSE k - 1)
            /\ pc' = "question" => left = U16(d, 6)
            /\ pc' \in {"question", "name"} => AtName(d, names, k, pos')
            /\ pc' = "answers" => pos' = After(d, names, k)
            /\ pc' \in {"name", "record"} => left < U16(d, 6)
            /\ pc' = "record" => AtRecord(d, names, k, pos')
    BY <1>1, <2>1 DEF AtPacket, d, names, k
  <2>6. CASE ~NameEnds(d, pos)
    <3>0. Step(d, pos) = 1 + Byte(d, pos)
      BY <2>6 DEF Step, NameEnds
    <3>1. pc' = pc /\ pos' = pos + 1 + Byte(d, pos)
      <4>1. pc' = pc /\ pos' = pos + Step(d, pos) + 0
        BY <1>6, <2>6 DEF SkipName, d
      <4>2. pos \in Nat
        BY <1>2
      <4>3. pos + (1 + Byte(d, pos)) + 0 = pos + 1 + Byte(d, pos)
        BY <2>4, <4>2
      <4> QED BY <3>0, <4>1, <4>3, Zenon
    <3>2. AtPacket(Data, Server.names, U16(Data, 6) - left + 1)'
      BY <1>1, <1>2, <1>3, <2>3, <2>5, <2>6, <3>1
    <3> QED BY <1>1, <1>2, <3>1, <3>2, ReadsOn DEF Asking
  <2>7. CASE NameEnds(d, pos) /\ pc = "question"
    <3>1. pc' = "answers" /\ pos' = pos + (IF Byte(d, pos) = 0 THEN 1 ELSE 2) + 4
      BY <1>2, <1>6, <2>4, <2>7 DEF SkipName, Step, NameEnds, d
    <3>2. AtRecord(d, names, 1, pos + (IF Byte(d, pos) = 0 THEN 1 ELSE 2))
      BY <1>4, <2>3, <2>7
    <3>3. HasRead(d, names, 1) /\ pos' = After(d, names, 1)
      BY <3>1, <3>2 DEF AtRecord, HasRead, Whole, After
    <3>4. AtPacket(Data, Server.names, U16(Data, 6) - left + 1)'
      BY <1>2, <1>3, <1>4, <2>5, <2>7, <3>1, <3>3
    <3> QED BY <1>1, <1>2, <3>1, <3>4, ReadsOn DEF Asking
  <2>8. CASE NameEnds(d, pos) /\ pc = "name"
    <3>1. pc' = "record" /\ pos' = pos + (IF Byte(d, pos) = 0 THEN 1 ELSE 2)
      BY <1>2, <1>6, <2>4, <2>8 DEF SkipName, Step, NameEnds, d
    <3>2. AtPacket(Data, Server.names, U16(Data, 6) - left + 1)'
      BY <1>2, <1>3, <2>3, <2>5, <2>8, <3>1
    <3> QED BY <1>1, <1>2, <3>1, <3>2, ReadsOn DEF Asking
  <2> QED BY <1>1, <2>6, <2>7, <2>8
<1> QED BY <1>5, <1>6

LEMMA NextAnswerKeeps ==
    ASSUME ParserInv, AllLaidOut, ReaderInv, NextAnswer
    PROVE  (ReaderInv /\ FirstServerWins)'
<1> DEFINE d == Data
           names == Server.names
           k == U16(Data, 6) - left + 1
<1>1. pc = "answers" /\ UNCHANGED <<servers, asked>> /\ Data' = Data /\ Server' = Server
  BY DEF NextAnswer, Data, Server
<1>2. /\ asked > 0 /\ Len(servers) \in Nat
      /\ Passed(asked - 1) /\ DohSays(Server) = {} /\ Server.kind \notin {"doh", "port"}
      /\ LaidOut(d, names) /\ Len(names) \in Nat \ {0}
      /\ Len(d) \in Nat /\ left \in Nat
      /\ U16(d, 6) \in Nat /\ left <= U16(d, 6)
      /\ AtPacket(d, names, k) /\ UdpSays(Server) = FirstAddress(d, names)
  BY <1>1, InPacket
<1>3. /\ Len(d) >= 12 /\ U16(d, 0) = TxId
      /\ HasRead(d, names, k) /\ pos = After(d, names, k)
  BY <1>1, <1>2 DEF AtPacket
<1>4. k \in Nat \ {0}
  BY <1>2
<1>5. CASE left = 0
  <2>1. pc' = "next"
    BY <1>5 DEF NextAnswer, GiveUp
  <2>2. k \in Nat /\ k = U16(d, 6) + 1 /\ ~(k <= U16(d, 6))
    BY <1>2, <1>5
  <2> HIDE DEF d, names, k
  <2>3. FirstAddress(d, names) = {}
    BY <1>2, <1>3, <2>2, NothingMore
  <2> QED BY <1>1, <1>2, <2>1, <2>3, GivesUp
<1>6. CASE left # 0
  <2>1. left' = left - 1 /\ pc' = "name" /\ pos' = pos
    BY <1>6 DEF NextAnswer
  <2>2. k <= U16(d, 6) /\ left' < U16(d, 6) /\ left' <= U16(d, 6)
    BY <1>2, <1>6, <2>1
  <2>3. AtName(d, names, k + 1, pos')
    <3> HIDE DEF d, names, k
    <3> QED BY <1>2, <1>3, <1>4, <2>1, <2>2, NextName
  <2>4. U16(d, 6) - left' + 1 = k + 1 /\ (k + 1) - 1 = k
    BY <1>2, <2>1
  <2> HIDE DEF d, names, k
  <2>5. AtPacket(Data, Server.names, U16(Data, 6) - left + 1)'
    BY <1>1, <1>3, <2>1, <2>2, <2>3, <2>4 DEF AtPacket, d, names
  <2> QED BY <1>1, <1>2, <2>1, <2>5, ReadsOn DEF Asking
<1> QED BY <1>5, <1>6

LEMMA RecordKeeps ==
    ASSUME ParserInv, AllLaidOut, ReaderInv, Record
    PROVE  (ReaderInv /\ FirstServerWins)'
<1> DEFINE d == Data
           names == Server.names
           k == U16(Data, 6) - left + 1
<1>1. pc = "record" /\ UNCHANGED <<servers, asked>> /\ Data' = Data /\ Server' = Server
  BY DEF Record, Data, Server
<1>2. /\ asked > 0 /\ asked \in 1..Len(servers) /\ Len(servers) \in Nat
      /\ Passed(asked - 1) /\ DohSays(Server) = {} /\ Server.kind \notin {"doh", "port"}
      /\ LaidOut(d, names) /\ Len(names) \in Nat \ {0}
      /\ Len(d) \in Nat /\ pos \in Nat /\ left \in Nat
      /\ U16(d, 6) \in Nat /\ left <= U16(d, 6)
      /\ AtPacket(d, names, k) /\ UdpSays(Server) = FirstAddress(d, names)
  BY <1>1, InPacket
<1>3. /\ Len(d) >= 12 /\ U16(d, 0) = TxId
      /\ HasRead(d, names, k - 1) /\ AtRecord(d, names, k, pos) /\ left < U16(d, 6)
  BY <1>1, <1>2 DEF AtPacket
<1>4. k \in Nat /\ k >= 2 /\ k - 1 \in Nat /\ (k - 1) + 1 = k /\ k - 1 <= U16(d, 6)
  BY <1>2, <1>3
<1>5. pos = Fixed(d, names[k]) /\ k \in 2..Len(names)
  BY <1>2, <1>3, <1>4 DEF AtRecord
<1>6. CASE pos + 10 > Len(d)
  <2>1. pc' = "next"
    BY <1>6 DEF Record, GiveUp
  <2> HIDE DEF d, names, k
  <2>2. ~Whole(d, names, k)
    <3>1. k # 1 /\ ~(Fixed(d, names[k]) + 10 <= Len(d))
      BY <1>2, <1>4, <1>5, <1>6
    <3> QED BY <3>1 DEF Whole
  <2>3. FirstAddress(d, names) = {}
    BY <1>2, <1>3, <1>4, <2>2, NothingMore
  <2> QED BY <1>1, <1>2, <2>1, <2>3, GivesUp
<1>7. CASE pos + 10 <= Len(d) /\ IsAddress(d, pos)
  <2>1. pc' = "retain" /\ found' = {[i \in 1..4 |-> Byte(d, pos + 10 + i - 1)]}
    BY <1>2, <1>7 DEF Record, Give, IsAddress
  <2>2. Whole(d, names, k)
    BY <1>3, <1>5, <1>7 DEF AtRecord, Whole
  <2>3. \A i \in 1..4 : pos + 10 + i - 1 = pos + 9 + i
    BY <1>2
  <2>4. found' = {[i \in 1..4 |-> Byte(d, pos + 9 + i)]}
    BY <2>1, <2>3, Zenon
  <2> HIDE DEF d, names, k
  <2>5. FirstAddress(d, names) = found'
    <3>1. /\ k \in 2..Len(names) /\ Len(names) \in Nat /\ U16(d, 6) \in Nat
          /\ HasRead(d, names, k - 1) /\ k - 1 <= U16(d, 6)
      BY <1>2, <1>3, <1>4, <1>5
    <3>2. IsAddress(d, Fixed(d, names[k]))
      BY <1>5, <1>7
    <3>3. FirstAddress(d, names) = {[i \in 1..4 |-> Byte(d, Fixed(d, names[k]) + 9 + i)]}
      BY <2>2, <3>1, <3>2, FirstOne
    <3> QED BY <1>5, <2>4, <3>3, Zenon
  <2>6. found' = Says(Server) /\ found' # {}
    BY <1>2, <2>4, <2>5 DEF Says
  <2> QED BY <1>1, <1>2, <2>1, <2>6, ServerWins
<1>8. CASE pos + 10 <= Len(d) /\ ~IsAddress(d, pos)
  <2>1. /\ pc' = "answers" /\ left' = left
        /\ pos' = pos + 10 + U16(d, pos + 8)
    BY <1>2, <1>8 DEF Record, IsAddress
  <2>2. pos' = After(d, names, k)
    BY <1>4, <1>5, <2>1 DEF After
  <2>3. HasRead(d, names, k)
    <3> HIDE DEF d, names, k
    <3> QED BY <1>2, <1>3, <1>4, <1>8, ReadPast
  <2> HIDE DEF d, names, k
  <2>4. AtPacket(Data, Server.names, U16(Data, 6) - left + 1)'
    BY <1>1, <1>2, <1>3, <2>1, <2>2, <2>3 DEF AtPacket, d, names, k
  <2> QED BY <1>1, <1>2, <2>1, <2>4, ReadsOn DEF Asking
<1> QED BY <1>2, <1>6, <1>7, <1>8

(* The parser reads a packet as its names are laid out, record by record,  *)
(* and servers are given up only if they say nothing.                      *)
THEOREM Invariance == Spec => []LookupInv
<1>1. CASE ~AllLaidOut
  <2>1. ParserInv => LookupInv
    BY <1>1 DEF LookupInv
  <2> QED BY <2>1, ParserInvariant, PTL
<1>2. CASE AllLaidOut
  <2> DEFINE R == ReaderInv /\ FirstServerWins
  <2>1. Init => R
    BY DEF Init, ReaderInv, FirstServerWins, Passed, Asking
  <2>2. ParserInv /\ R /\ [Next]_vars => R'
    <3> SUFFICES ASSUME ParserInv, R, [Next]_vars
                 PROVE  R'
      OBVIOUS
    <3>1. CASE Next
      <4>1. CASE Retain
        BY <4>1 DEF Retain, ReaderInv, FirstServerWins, Asking
      <4> QED
        BY <1>2, <3>1, <4>1, NextServerKeeps, DohAnswerKeeps, ReceiveKeeps,
           SkipNameKeeps, NextAnswerKeeps, RecordKeeps DEF Next
    <3>2. CASE UNCHANGED vars
      BY <3>2 DEF vars, ReaderInv, FirstServerWins, Passed, AtPacket, Data, Server
    <3> QED BY <3>1, <3>2
  <2>3. ParserInv /\ R => LookupInv
    BY DEF LookupInv
  <2> HIDE DEF R
  <2> QED BY <2>1, <2>2, <2>3, ParserInvariant, PTL DEF Spec
<1> QED BY <1>1, <1>2

(* The lookup returns what the first --dns server with an answer says, for *)
(* any packets, read as their names are laid out, and any DoH answers      *)
(* (resolve_multi_no_fallback, src/dns.rs:97-126).                         *)
THEOREM FirstAnswerWins ==
    ASSUME AllLaidOut
    PROVE  Spec => []FirstServerWins
<1>1. LookupInv => FirstServerWins
  BY DEF LookupInv
<1> QED BY <1>1, Invariance, PTL

-----------------------------------------------------------------------------
(* Every packet is laid out somehow.                                       *)

IsPacket(d) == Len(d) \in Nat /\ \A i \in 1..Len(d) : d[i] \in 0..255

(* The bytes of any packet, and the numbers read from them.                *)
LEMMA PacketBytes ==
    ASSUME NEW d, IsPacket(d), NEW i \in Nat
    PROVE  Byte(d, i) \in 0..255 /\ U16(d, i) \in Nat
<1>1. \A j \in Nat : Byte(d, j) \in 0..255
  BY DEF IsPacket, Byte
<1>2. \A a, b \in 0..255 : a * 256 + b \in Nat
  OBVIOUS
<1>3. i + 1 \in Nat
  OBVIOUS
<1> QED BY <1>1, <1>2, <1>3, Zenon DEF U16

(* A sequence t is a sequence s with e added at its front.                 *)
Prepends(t, e, s) ==
    /\ Len(t) = Len(s) + 1
    /\ t[1] = e
    /\ \A k \in 1..Len(t) :
          k # 1 =>
            \E i \in 1..Len(s) :
               /\ k = i + 1
               /\ t[k] = s[i]
               /\ k < Len(t) <=> i < Len(s)
               /\ k < Len(t) => t[k + 1] = s[i + 1]
    /\ Len(s) # 0 => 1 < Len(t) /\ t[2] = s[1]

LEMMA Prepended ==
    ASSUME NEW S, NEW e \in S, NEW s \in Seq(S), NEW t, t = <<e>> \o s
    PROVE  t \in Seq(S) /\ Prepends(t, e, s)
<1>1. t \in Seq(S) /\ Len(s) \in Nat /\ Len(t) = Len(s) + 1 /\ t[1] = e
  OBVIOUS
<1>2. \A i \in 1..Len(s) : t[i + 1] = s[i]
  OBVIOUS
<1>3. ASSUME NEW k \in 1..Len(t), k # 1
      PROVE  \E i \in 1..Len(s) : /\ k = i + 1
                                  /\ t[k] = s[i]
                                  /\ k < Len(t) <=> i < Len(s)
                                  /\ k < Len(t) => t[k + 1] = s[i + 1]
  <2> DEFINE i == k - 1
  <2>1. i \in 1..Len(s) /\ k = i + 1 /\ (k < Len(t) <=> i < Len(s))
    BY <1>1, <1>3
  <2>2. i < Len(s) => i + 1 \in 1..Len(s) /\ t[(i + 1) + 1] = s[i + 1]
    BY <1>1, <1>2, <2>1
  <2> HIDE DEF i
  <2>3. t[k] = s[i]
    BY <1>2, <2>1, Zenon
  <2>4. k < Len(t) => t[k + 1] = s[i + 1]
    BY <2>1, <2>2, Zenon
  <2> QED BY <2>1, <2>3, <2>4, Zenon
<1>4. Len(s) # 0 => 1 < Len(t) /\ t[2] = s[1]
  BY <1>1, <1>2
<1> QED BY <1>1, <1>3, <1>4, Zenon DEF Prepends

(* What is never wrong from n on, and wrong only if it is wrong again      *)
(* later, is never wrong: what the lemmas below descend by.                *)
LEMMA NoFirstBad ==
    ASSUME NEW n \in Nat, NEW Bad \in SUBSET Nat,
           \A p \in Bad : p < n /\ \E q \in Bad : p < q
    PROVE  Bad = {}
<1> SUFFICES ASSUME Bad # {}
             PROVE  FALSE
  OBVIOUS
<1> DEFINE D == {m \in Nat : n - m \in Bad}
<1>1. D # {}
  <2>1. PICK p \in Bad : TRUE
    OBVIOUS
  <2>2. n - p \in Nat /\ n - (n - p) = p
    BY <2>1
  <2> QED BY <2>1, <2>2
<1>2. PICK m \in D : \A k \in D : m <= k
  BY <1>1, LeastOf
<1>3. PICK q \in Bad : n - m < q
  BY <1>2
<1>4. n - q \in Nat /\ n - (n - q) = q
  BY <1>3
<1>5. n - q \in D
  BY <1>3, <1>4
<1> QED BY <1>2, <1>3, <1>4, <1>5

(* A name begins at every position.                                        *)
LEMMA HasName ==
    ASSUME NEW d, IsPacket(d), NEW at \in Nat
    PROVE  \E n \in Seq(Nat) : IsName(d, n) /\ n[1] = at /\ LastOfName(n) \in Nat /\ at <= LastOfName(n)
<1> DEFINE Named(n, p) == IsName(d, n) /\ n[1] = p /\ LastOfName(n) \in Nat /\ p <= LastOfName(n)
           Bad == {p \in Nat : ~ \E n \in Seq(Nat) : Named(n, p)}
<1>0. Len(d) \in Nat
  BY DEF IsPacket
<1>b. \A p \in Nat : Byte(d, p) \in Nat
  <2>1. \A b \in 0..255 : b \in Nat
    OBVIOUS
  <2> QED BY <2>1, PacketBytes, Zenon
<1>1. ASSUME NEW p \in Nat, p < Len(d) => NameEnds(d, p)
      PROVE  Named(<<p>>, p)
  <2>1. Len(<<p>>) = 1 /\ <<p>>[1] = p
    OBVIOUS
  <2> QED BY <1>1, <2>1 DEF IsName, LastOfName
<1>2. ASSUME NEW p \in Nat, ~NameEnds(d, p),
             NEW n \in Seq(Nat), Named(n, p + 1 + Byte(d, p))
      PROVE  Named(<<p>> \o n, p)
  <2> DEFINE t == <<p>> \o n
  <2>1. Prepends(t, p, n)
    BY Prepended
  <2> USE DEF Prepends
  <2> HIDE DEF t
  <2>2. Byte(d, p) \in Nat
    BY <1>b
  <2>3. Len(n) \in Nat \ {0}
    BY <1>2 DEF IsName
  <2>4. LastOfName(t) = LastOfName(n)
    BY <2>1, <2>3 DEF LastOfName
  <2>5. ASSUME NEW k \in 1..Len(t)
        PROVE  /\ t[k] \in Nat
               /\ t[k] < Len(d) => (NameEnds(d, t[k]) <=> k = Len(t))
               /\ k < Len(t) /\ t[k] < Len(d) => t[k + 1] = t[k] + 1 + Byte(d, t[k])
    <3>1. CASE k = 1
      BY <1>2, <2>1, <2>3, <3>1
    <3>2. CASE k # 1
      <4>1. PICK i \in 1..Len(n) : /\ k = i + 1
                                   /\ t[k] = n[i]
                                   /\ k < Len(t) <=> i < Len(n)
                                   /\ k < Len(t) => t[k + 1] = n[i + 1]
        BY <2>1, <3>2, Zenon
      <4>2. /\ n[i] \in Nat
            /\ n[i] < Len(d) => (NameEnds(d, n[i]) <=> i = Len(n))
            /\ i < Len(n) /\ n[i] < Len(d) => n[i + 1] = n[i] + 1 + Byte(d, n[i])
        BY <1>2, <2>3 DEF IsName
      <4>3. k = Len(t) <=> i = Len(n)
        BY <2>1, <2>3, <4>1
      <4> QED BY <4>1, <4>2, <4>3, Zenon
    <3> QED BY <3>1, <3>2
  <2>6. IsName(d, t)
    <3>1. \A k \in 1..(Len(t) - 1) : k \in 1..Len(t) /\ k < Len(t)
      BY <2>1, <2>3
    <3> QED BY <2>1, <2>3, <2>5, <3>1 DEF IsName
  <2> QED BY <1>2, <2>1, <2>2, <2>4, <2>6 DEF t
<1> HIDE DEF Named
<1>3. ASSUME NEW p \in Bad
      PROVE  p < Len(d) /\ \E q \in Bad : p < q
  <2>0. p \in Nat /\ ~Named(<<p>>, p)
    <3>1. p \in Nat /\ \A n \in Seq(Nat) : ~Named(n, p)
      OBVIOUS
    <3>2. <<p>> \in Seq(Nat)
      BY <3>1
    <3> QED BY <3>1, <3>2, Zenon
  <2>1. p < Len(d) /\ ~NameEnds(d, p)
    BY <1>0, <1>1, <2>0
  <2> DEFINE q == p + 1 + Byte(d, p)
  <2>2. q \in Nat /\ p < q
    <3>1. \A b \in Nat : p + 1 + b \in Nat /\ p < p + 1 + b
      BY <2>0
    <3> QED BY <1>b, <2>0, <3>1, Zenon
  <2>3. ASSUME NEW n \in Seq(Nat), Named(n, q)
        PROVE  FALSE
    <3>1. Named(<<p>> \o n, p) /\ <<p>> \o n \in Seq(Nat)
      BY <1>2, <2>0, <2>1, <2>3, Prepended
    <3> QED BY <3>1
  <2> HIDE DEF q
  <2>4. q \in Bad
    BY <2>2, <2>3
  <2> QED BY <2>1, <2>2, <2>4
<1>4. Bad = {}
  BY <1>0, <1>3, NoFirstBad
<1> QED BY <1>4 DEF Named

(* A record of a packet, whole, and what follows it.                       *)
RecordWhole(d, n) == (\A j \in 1..Len(n) : n[j] < Len(d)) /\ Fixed(d, n) + 10 <= Len(d)
RecordAfter(d, n) == Fixed(d, n) + 10 + U16(d, Fixed(d, n) + 8)

(* The names of the records from a position on.                            *)
Laid(d, names, at) ==
    /\ Len(names) \in Nat \ {0}
    /\ names[1][1] = at
    /\ \A k \in 1..Len(names) : IsName(d, names[k])
    /\ \A k \in 1..Len(names) :
          RecordWhole(d, names[k]) =>
              IF k < Len(names) THEN names[k + 1][1] = RecordAfter(d, names[k])
              ELSE RecordAfter(d, names[k]) >= Len(d)

(* One name is enough if nothing follows it, and one more before others if *)
(* they begin after it.                                                    *)
LEMMA LaidOne ==
    ASSUME NEW d, IsPacket(d), NEW n \in Seq(Nat), IsName(d, n),
           RecordWhole(d, n) => RecordAfter(d, n) >= Len(d)
    PROVE  Laid(d, <<n>>, n[1])
<1>1. Len(<<n>>) = 1 /\ <<n>>[1] = n
  OBVIOUS
<1> QED BY <1>1 DEF Laid

LEMMA LaidMore ==
    ASSUME NEW d, IsPacket(d), NEW n \in Seq(Nat), IsName(d, n),
           NEW names \in Seq(Seq(Nat)), Laid(d, names, RecordAfter(d, n))
    PROVE  Laid(d, <<n>> \o names, n[1])
<1> DEFINE t == <<n>> \o names
<1>1. Prepends(t, n, names)
  BY Prepended
<1> USE DEF Prepends
<1> HIDE DEF t
<1>2. Len(names) \in Nat \ {0}
  BY DEF Laid
<1>3. ASSUME NEW k \in 1..Len(t)
      PROVE  /\ IsName(d, t[k])
             /\ RecordWhole(d, t[k]) =>
                  IF k < Len(t) THEN t[k + 1][1] = RecordAfter(d, t[k])
                  ELSE RecordAfter(d, t[k]) >= Len(d)
  <2>1. CASE k = 1
    <3>1. 1 < Len(t) /\ t[2] = names[1]
      BY <1>1, <1>2
    <3> QED BY <1>1, <2>1, <3>1 DEF Laid
  <2>2. CASE k # 1
    <3>1. PICK i \in 1..Len(names) :
             /\ k = i + 1
             /\ t[k] = names[i]
             /\ k < Len(t) <=> i < Len(names)
             /\ k < Len(t) => t[k + 1] = names[i + 1]
      BY <1>1, <2>2, Zenon
    <3>5. /\ IsName(d, names[i])
          /\ RecordWhole(d, names[i]) =>
                  IF i < Len(names) THEN names[i + 1][1] = RecordAfter(d, names[i])
                  ELSE RecordAfter(d, names[i]) >= Len(d)
      BY DEF Laid
    <3> QED BY <3>1, <3>5, Zenon
  <2> QED BY <2>1, <2>2
<1>4. Len(t) \in Nat \ {0} /\ t[1][1] = n[1]
  BY <1>1, <1>2
<1>5. Laid(d, t, n[1])
  BY <1>3, <1>4, Zenon DEF Laid
<1> QED BY <1>5 DEF t

(* A list of records begins at every position.                             *)
LEMMA HasRecords ==
    ASSUME NEW d, IsPacket(d), NEW at \in Nat
    PROVE  \E names \in Seq(Seq(Nat)) : Laid(d, names, at)
<1> DEFINE Bad == {p \in Nat : ~ \E names \in Seq(Seq(Nat)) : Laid(d, names, p)}
<1>0. Len(d) \in Nat
  BY DEF IsPacket
<1>1. ASSUME NEW p \in Bad
      PROVE  p < Len(d) /\ \E q \in Bad : p < q
  <2>1. PICK n \in Seq(Nat) :
           IsName(d, n) /\ n[1] = p /\ LastOfName(n) \in Nat /\ p <= LastOfName(n)
    BY HasName
  <2>2. p \in Nat /\ <<n>> \in Seq(Seq(Nat))
    OBVIOUS
  <2>3. RecordWhole(d, n) /\ ~(RecordAfter(d, n) >= Len(d))
    BY <2>1, <2>2, LaidOne
  <2>4. Fixed(d, n) \in Nat /\ p < Fixed(d, n)
    BY <2>1, <2>2 DEF Fixed
  <2>5. RecordAfter(d, n) \in Nat /\ p < RecordAfter(d, n)
    <3>1. Fixed(d, n) + 8 \in Nat
      BY <2>4
    <3>2. U16(d, Fixed(d, n) + 8) \in Nat
      BY <3>1, PacketBytes
    <3>3. \A a, b \in Nat : p < a => a + 10 + b \in Nat /\ p < a + 10 + b
      BY <2>2
    <3> QED BY <2>4, <3>2, <3>3, Zenon DEF RecordAfter
  <2>6. p < Len(d)
    BY <1>0, <2>2, <2>3, <2>5
  <2>7. ASSUME NEW names \in Seq(Seq(Nat)), Laid(d, names, RecordAfter(d, n))
        PROVE  FALSE
    <3>1. Laid(d, <<n>> \o names, p) /\ <<n>> \o names \in Seq(Seq(Nat))
      BY <2>1, <2>7, LaidMore, Prepended
    <3> QED BY <3>1
  <2>8. RecordAfter(d, n) \in Bad
    BY <2>5, <2>7
  <2> QED BY <2>5, <2>6, <2>8
<1>2. Bad = {}
  BY <1>0, <1>1, NoFirstBad
<1> QED BY <1>2

(* Whatever bytes a server answers with (src/dns.rs:128-192), names can be *)
(* laid out over them: that they are is no restriction on the answers.     *)
THEOREM EveryPacketIsLaidOut ==
    ASSUME NEW d, IsPacket(d)
    PROVE  \E names \in Seq(Seq(Nat)) : LaidOut(d, names)
<1>0. Len(d) \in Nat
  BY DEF IsPacket
<1>1. PICK n \in Seq(Nat) : IsName(d, n) /\ n[1] = 12 /\ LastOfName(n) \in Nat
  BY HasName
<1>2. Fixed(d, n) + 4 \in Nat
  BY <1>1 DEF Fixed
<1>3. PICK rest \in Seq(Seq(Nat)) : Laid(d, rest, Fixed(d, n) + 4)
  BY <1>2, HasRecords
<1> DEFINE t == <<n>> \o rest
<1>4. t \in Seq(Seq(Nat)) /\ Prepends(t, n, rest)
  BY Prepended
<1> USE DEF Prepends
<1> HIDE DEF t
<1>5. Len(rest) \in Nat \ {0}
  BY <1>3 DEF Laid
<1>6. ASSUME NEW k \in 1..Len(t)
      PROVE  /\ IsName(d, t[k])
             /\ Whole(d, t, k) =>
                  IF k < Len(t) THEN t[k + 1][1] = After(d, t, k)
                  ELSE k > U16(d, 6) \/ After(d, t, k) >= Len(d)
  <2>1. CASE k = 1
    <3>1. 1 < Len(t) /\ t[2] = rest[1]
      BY <1>4, <1>5
    <3> QED BY <1>1, <1>3, <1>4, <2>1, <3>1 DEF Laid, After
  <2>2. CASE k # 1
    <3>1. PICK i \in 1..Len(rest) :
             /\ k = i + 1
             /\ t[k] = rest[i]
             /\ k < Len(t) <=> i < Len(rest)
             /\ k < Len(t) => t[k + 1] = rest[i + 1]
      BY <1>4, <2>2, Zenon
    <3>5. /\ IsName(d, rest[i])
          /\ RecordWhole(d, rest[i]) =>
                  IF i < Len(rest) THEN rest[i + 1][1] = RecordAfter(d, rest[i])
                  ELSE RecordAfter(d, rest[i]) >= Len(d)
      BY <1>3 DEF Laid
    <3>6. Whole(d, t, k) => RecordWhole(d, rest[i])
      BY <2>2, <3>1 DEF Whole, RecordWhole
    <3>7. After(d, t, k) = RecordAfter(d, rest[i])
      BY <2>2, <3>1 DEF After, RecordAfter
    <3> QED BY <3>1, <3>5, <3>6, <3>7, Zenon
  <2> QED BY <2>1, <2>2
<1>7. LaidOut(d, t)
  <2>1. Len(t) \in Nat \ {0} /\ t[1][1] = 12
    BY <1>1, <1>4, <1>5
  <2> QED BY <1>6, <2>1, Zenon DEF LaidOut
<1> QED BY <1>4, <1>7

-----------------------------------------------------------------------------
(* Two of the built-in addresses lie in a range of Cloudflare's, the other *)
(* two in none: those ranges begin with other octets than 1.               *)
LEMMA BuiltInServers ==
    /\ Ranged(CF_DOH_IPS) = {<<104, 16, 248, 249>>, <<104, 16, 249, 249>>}
    /\ CF_DOH_IPS \ Ranged(CF_DOH_IPS) = {<<1, 1, 1, 1>>, <<1, 0, 0, 1>>}
<1> DEFINE In(ip) == \E range \in CLOUDFLARE_IPV4_CIDRS : InRange(ip, range[1], range[2])
<1>1. ASSUME NEW ip \in {<<104, 16, 248, 249>>, <<104, 16, 249, 249>>}
      PROVE  In(ip)
  <2> DEFINE range == <<<<104, 16, 0, 0>>, 13>>
  <2>1. range \in CLOUDFLARE_IPV4_CIDRS
    BY DEF CLOUDFLARE_IPV4_CIDRS
  <2>2. (13 - 1) \div 8 = 1 /\ 13 - 8 * 1 = 5
    OBVIOUS
  <2>3. ip[1] = 104 /\ ip[2] = 16
    OBVIOUS
  <2>4. \A i \in 1..1 : ip[i] = range[1][i]
    BY <2>3
  <2>5. ip[1 + 1] = range[1][1 + 1]
    BY <2>3
  <2>6. range[2] = 13
    OBVIOUS
  <2>7. InRange(ip, range[1], range[2])
    <3> HIDE DEF range
    <3> QED BY <2>2, <2>4, <2>5, <2>6 DEF InRange
  <2> QED BY <2>1, <2>7
<1>2. ASSUME NEW ip \in {<<1, 1, 1, 1>>, <<1, 0, 0, 1>>}
      PROVE  ~In(ip)
  <2> SUFFICES ASSUME NEW range \in CLOUDFLARE_IPV4_CIDRS,
                      InRange(ip, range[1], range[2])
               PROVE  FALSE
    OBVIOUS
  <2>1. range[1][1] # 1 /\ range[2] \in 13..22
    BY DEF CLOUDFLARE_IPV4_CIDRS
  <2>2. (range[2] - 1) \div 8 >= 1 /\ (range[2] - 1) \div 8 \in Int
    BY <2>1
  <2>3. 1 \in 1..((range[2] - 1) \div 8)
    BY <2>2
  <2>4. ip[1] = range[1][1]
    BY <2>3 DEF InRange
  <2>5. ip[1] = 1
    OBVIOUS
  <2> QED BY <2>1, <2>4, <2>5
<1>3. <<1, 1, 1, 1>> # <<104, 16, 248, 249>> /\ <<1, 0, 0, 1>> # <<104, 16, 248, 249>>
      /\ <<1, 1, 1, 1>> # <<104, 16, 249, 249>> /\ <<1, 0, 0, 1>> # <<104, 16, 249, 249>>
  OBVIOUS
<1>4. Ranged(CF_DOH_IPS) = {ip \in CF_DOH_IPS : In(ip)}
  BY DEF Ranged
<1> HIDE DEF In
<1> QED
  BY <1>1, <1>2, <1>3, <1>4 DEF CF_DOH_IPS

(* The DoH servers EchCache is given are those found that are Cloudflare's *)
(* by their octets, and the four built-in ones if there is none            *)
(* (cloudflare_doh_ips, src/ech.rs:139-163).                               *)
THEOREM BootstrapIsUsable == Spec => []BootstrapUsable
<1> DEFINE Usable(found_, result_) ==
      \/ result_ = Ranged(found_) /\ result_ # {}
      \/ /\ Ranged(found_) = {}
         /\ Ranged(result_) = {<<104, 16, 248, 249>>, <<104, 16, 249, 249>>}
         /\ result_ \ Ranged(result_) = {<<1, 1, 1, 1>>, <<1, 0, 0, 1>>}
<1>1. Init => BootstrapUsable
  BY DEF Init, BootstrapUsable
<1>2. ParserInv /\ BootstrapUsable /\ [Next]_vars => BootstrapUsable'
  <2> SUFFICES ASSUME ParserInv, BootstrapUsable, [Next]_vars
               PROVE  BootstrapUsable'
    OBVIOUS
  <2>1. CASE Retain
    <3>1. found \subseteq Octets
      BY DEF ParserInv
    <3>2. {ip \in found : is_cloudflare_ip(ip)} = Ranged(found)
      BY <3>1, CloudflareByOctets DEF Ranged
    <3>3. result' = IF Ranged(found) = {} THEN CF_DOH_IPS ELSE Ranged(found)
      BY <2>1, <3>2, Zenon DEF Retain
    <3>4. found' = found
      BY <2>1 DEF Retain
    <3>5. Usable(found, result')
      BY <3>3, BuiltInServers, Zenon
    <3>6. Usable(found', result') => BootstrapUsable'
      BY DEF BootstrapUsable, Ranged
    <3> QED BY <3>4, <3>5, <3>6
  <2>2. CASE NextServer \/ DohAnswer \/ Receive \/ SkipName \/ NextAnswer \/ Record
    <3>1. pc' # "done"
      BY <2>2 DEF NextServer, DohAnswer, Receive, SkipName, NextAnswer, Record, Give, GiveUp
    <3> QED BY <3>1 DEF BootstrapUsable
  <2>3. CASE UNCHANGED vars
    BY <2>3 DEF vars, BootstrapUsable
  <2> QED BY <2>1, <2>2, <2>3 DEF Next
<1> QED BY <1>1, <1>2, ParserInvariant, PTL DEF Spec
=============================================================================
