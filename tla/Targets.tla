------------------------------- MODULE Targets -------------------------------
(***************************************************************************)
(* The two tables of targets.rs.  A host name is the sequence of its       *)
(* labels, an address the sequence of its four octets.                     *)
(***************************************************************************)
EXTENDS Cidr, Sequences, SequencesExt

TARGETS ==
    {<<"chii", "in">>, <<"bgm", "tv">>, <<"lain", "bgm", "tv">>,
     <<"next", "bgm", "tv">>, <<"api", "bgm", "tv">>}

(* host == target, or host ends with a dot and target.                     *)
is_target(host) == \E target \in TARGETS : IsSuffix(target, host)

CLOUDFLARE_IPV4_CIDRS ==
    {<<<<173, 245, 48, 0>>, 20>>,  <<<<103, 21, 244, 0>>, 22>>,
     <<<<103, 22, 200, 0>>, 22>>,  <<<<103, 31, 4, 0>>, 22>>,
     <<<<141, 101, 64, 0>>, 18>>,  <<<<108, 162, 192, 0>>, 18>>,
     <<<<190, 93, 240, 0>>, 20>>,  <<<<188, 114, 96, 0>>, 20>>,
     <<<<197, 234, 240, 0>>, 22>>, <<<<198, 41, 128, 0>>, 17>>,
     <<<<162, 158, 0, 0>>, 15>>,   <<<<104, 16, 0, 0>>, 13>>,
     <<<<104, 24, 0, 0>>, 14>>,    <<<<172, 64, 0, 0>>, 13>>,
     <<<<131, 0, 72, 0>>, 22>>}

is_cloudflare_ip(ip) ==
    \E range \in CLOUDFLARE_IPV4_CIDRS :
        ipv4_in_cidr(ipv4_as_u32(ip), ipv4_as_u32(range[1]), range[2])
=============================================================================
