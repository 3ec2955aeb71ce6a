-------------------------------- MODULE Cidr --------------------------------
(***************************************************************************)
(* The words and masks of targets.rs: an IPv4 address as a u32, and the    *)
(* test that it lies in one of Cloudflare's ranges.  A word is a function  *)
(* from its bits to BOOLEAN, bit 1 the most significant, so that the width *)
(* is that of the code and the shift is the shift.                         *)
(***************************************************************************)
EXTENDS Integers

Width == 32
Bits == 1..Width
Word == [Bits -> BOOLEAN]

Ones == [i \in Bits |-> TRUE]
And(x, y) == [i \in Bits |-> x[i] /\ y[i]]
Or(x, y) == [i \in Bits |-> x[i] \/ y[i]]
Not(x) == [i \in Bits |-> ~x[i]]

(* x << k: a shift by the whole width panics in a debug build, and is one  *)
(* by 0 in a release build.                                                *)
ShiftLeft(x, k) ==
    [i \in Bits |-> i + (k % Width) <= Width /\ x[i + (k % Width)]]

\* Mutant: the mask is one bit short.
MaskShort(prefix) == ShiftLeft(Ones, Width - prefix + 1)

Mask(prefix) == ShiftLeft(Ones, Width - prefix)

ipv4_in_cidr(ip, network, prefix) ==
    And(ip, Mask(prefix)) = And(network, Mask(prefix))

(* u32::from and ipv4_as_u32: octets in network order.                     *)
ipv4_as_u32(octets) ==
    [i \in Bits |-> (octets[1 + (i - 1) \div 8] \div 2^(7 - ((i - 1) % 8))) % 2 = 1]

(* The first and the last address of a range, and the order of addresses.  *)
FirstOf(network, prefix) == And(network, Mask(prefix))
LastOf(network, prefix) == Or(network, Not(Mask(prefix)))

Less(x, y) ==
    \E i \in Bits : /\ ~x[i] /\ y[i]
                    /\ \A j \in 1..(i - 1) : x[j] = y[j]
=============================================================================
