-------------------------------- MODULE Edge --------------------------------
(***************************************************************************)
(* The network the proxy talks to, as far as src/ech.rs, src/dns.rs and    *)
(* src/backend.rs use it: the bootstrap resolvers named by --dns, the      *)
(* Cloudflare DoH servers that answer GREASE handshakes and DNS queries,   *)
(* and the Cloudflare addresses that serve the target hosts.               *)
(*                                                                         *)
(* The network starts out troubled: every call may end in every way its    *)
(* caller can observe, and the ECH key pair may be rotated.  It may settle *)
(* (calm), after which each address behaves in one way for ever.           *)
(***************************************************************************)
EXTENDS Integers

CONSTANTS
    Targets,      \* host names accepted by is_target
    Ips,          \* IPv4 addresses
    MaxKey,       \* bound on the number of ECH keys (rotations + 1)
    Resolved,     \* A records the --dns servers may return for CF_DOH_HOST
    Answers,      \* A records Cloudflare DoH may return for a target
    DohServers,   \* addresses where a Cloudflare DoH server answers
    Zone,         \* [Targets -> the A records published once calm]
    Serving,      \* [Targets -> the addresses that serve the host]
    BlackHoles,   \* addresses where a TCP connect gets no answer
    Silent        \* addresses that accept a TCP connect and then stay mute

ASSUME EdgeAssumption ==
    /\ MaxKey \in Nat \ {0}
    /\ Resolved \subseteq SUBSET Ips
    /\ Answers \subseteq SUBSET Ips
    /\ DohServers \subseteq Ips
    /\ Zone \in [Targets -> SUBSET Ips]
    /\ Serving \in [Targets -> SUBSET Ips]
    /\ BlackHoles \subseteq Ips
    /\ Silent \subseteq Ips

VARIABLES
    key,          \* the ECH key the edge hands out in retry configs
    calm          \* has the network settled?

edgeVars == <<key, calm>>

Keys == 1..MaxKey

EdgeTypeOK ==
    /\ key \in Keys
    /\ calm \in BOOLEAN

EdgeInit ==
    /\ key = 1
    /\ calm = FALSE

(* The A records of CF_DOH_HOST; {} is a bootstrap that fails. *)
BootstrapAnswers == IF calm THEN {DohServers} ELSE Resolved \cup {{}}

(* A GREASE handshake with ip may yield a retry config, or fail, or (there *)
(* is no timeout in ech_get_retry_config) never return.                    *)
GreaseSucceeds(ip) == ~calm \/ ip \in DohServers
GreaseFails(ip)    == ~calm \/ ip \notin DohServers
GreaseHangs(ip)    == ip \in Silent

(* What a DoH query for h may be answered, over ECH with key k.            *)
(* parse_a_records finds at least one address: answers are not empty.      *)
QueryAnswers(h, ip, k) ==
    IF ~calm THEN Answers \ {{}}
    ELSE IF ip \in DohServers /\ k = key THEN {Zone[h]} \ {{}}
    ELSE {}
QueryFails(h, ip, k) == ~calm \/ QueryAnswers(h, ip, k) = {}

(* How connect_ech(h, ip, k) may end.                                      *)
ConnectOutcomes(h, ip, k) ==
    IF ~calm THEN {"ok", "tcp_timeout", "handshake_timeout", "rejected"}
    ELSE IF ip \in BlackHoles THEN {"tcp_timeout"}
    ELSE IF ip \in Serving[h] /\ k = key THEN {"ok"}
    ELSE {"rejected"}

RotateKey ==
    /\ ~calm
    /\ key < MaxKey
    /\ key' = key + 1
    /\ UNCHANGED calm

Settle ==
    /\ ~calm
    /\ calm' = TRUE
    /\ UNCHANGED key
=============================================================================
