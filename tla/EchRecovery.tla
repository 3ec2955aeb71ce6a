----------------------------- MODULE EchRecovery -----------------------------
(***************************************************************************)
(* How the caches of EchCache recover once the network has settled: what a *)
(* request may still find poisoned, how many requests that may cost, and   *)
(* that the target is reachable again in the end.                          *)
(*                                                                         *)
(* Two history variables count, for each target, the requests that were    *)
(* made after the network settled and failed all the same.                 *)
(***************************************************************************)
EXTENDS EchCache, FiniteSets

CONSTANT MaxFailures    \* bound on the count of failures

ASSUME RecoveryAssumption == MaxFailures \in Nat

VARIABLES
    late,       \* [Workers -> was its request made after Settle?]
    failures    \* [Targets -> its late requests that failed, so far]

recoveryVars == <<vars, late, failures>>

RInit ==
    /\ Init
    /\ late = [w \in Workers |-> FALSE]
    /\ failures = [h \in Targets |-> 0]

(* A request is late if it is made in a calm network.                      *)
ROpenBackend(w, h) ==
    /\ OpenBackend(w, h)
    /\ late' = [late EXCEPT ![w] = calm]
    /\ UNCHANGED failures

Fails(w) == Busy(w) /\ pc'[w] = "failed"

RStep(w) ==
    /\ Step(w)
    /\ failures' = IF Fails(w) /\ late[w] /\ host[w] \in Targets
                      /\ failures[host[w]] < MaxFailures
                   THEN [failures EXCEPT ![host[w]] = @ + 1]
                   ELSE failures
    /\ UNCHANGED late

RFinish(w) ==
    /\ Finish(w)
    /\ late' = [late EXCEPT ![w] = FALSE]
    /\ UNCHANGED failures

RNext ==
    \/ EdgeStep /\ UNCHANGED <<late, failures>>
    \/ \E w \in Workers :
          \/ \E h \in Hosts : ROpenBackend(w, h)
          \/ RStep(w)
          \/ RFinish(w)

RSpec == RInit /\ [][RNext]_recoveryVars

RFairSpec == RSpec /\ \A w \in Workers : WF_recoveryVars(RStep(w))

-----------------------------------------------------------------------------
(* The hosts that can be reached once the network is calm: no published    *)
(* Cloudflare address refuses them, and at least one serves them.          *)
Reachable(h) ==
    LET published == Zone[h] \cap CloudflareIps
    IN  /\ published \cap Serving[h] # {}
        /\ published \subseteq Serving[h] \cup BlackHoles

Asked(h)  == \E w \in Workers : pc[w] = "lookup_ips" /\ host[w] = h
Served(h) == \E w \in Workers : pc[w] = "open" /\ host[w] = h

(* Once the network is calm, a reachable target is served again and again  *)
(* to a user who keeps asking for it, whatever the caches held when it     *)
(* settled and whatever the requests for other hosts, broken ones          *)
(* included, do to the shared caches: "IPs and ECH config lists are cached *)
(* in memory and invalidated after connection failures" (README.md:137).   *)
Recovery ==
    \A h \in Targets : Reachable(h) =>
        (<>[]calm /\ []<>Asked(h) => []<>Served(h))

(* What the network left in the caches makes fewer than MaxFailures late   *)
(* requests for a reachable target fail, ever: a failure invalidates what  *)
(* it used (src/backend.rs:40-45, src/ech.rs:203-204), and no late store   *)
(* by another worker brings back more than that.                           *)
FewFailures ==
    \A h \in Targets : Reachable(h) => failures[h] < MaxFailures

(* "Try each resolved CF DoH IP until GREASE succeeds" (src/ech.rs:82): a  *)
(* worker that has a working DoH server still to try gets a config.        *)
GreaseFindsServer ==
    \A w \in Workers :
        calm /\ pc[w] = "grease" /\ todo[w] \cap DohServers # {}
            ~> pc[w] = "config_store"

(* "ECH timeouts try the next target IP" (README.md:187): a request whose  *)
(* last connect timed out has no address left to try when it fails.        *)
TimeoutsTryEveryIp ==
    \A w \in Workers :
        pc[w] = "failed" /\ outcome[w] \in {"tcp_timeout", "handshake_timeout"}
            => todo[w] = {}

-----------------------------------------------------------------------------
(* Why fewer than two fail of a user who makes one request at a time, if   *)
(* no answer can fill a cache with what only times out: a list of DoH      *)
(* servers without a working one, or of addresses without one that answers *)
(* (StaleTargetIps shows what the latter does).                            *)
OneAtATime == \A v, w \in Workers : v = w

Answering(S) == ~(S \subseteq BlackHoles)

Survivable ==
    /\ \A S \in Resolved \cup {DohServers, {}} :
          LET kept == S \cap CloudflareIps
          IN  (IF kept = {} THEN BuiltIn ELSE kept) \cap DohServers # {}
    /\ \A S \in Answers :
          S \cap CloudflareIps = {} \/ Answering(S \cap CloudflareIps)
    /\ \A h \in Targets : Serving[h] \cap BlackHoles = {}

(* What a request knows about its chances, a late one above all.           *)
RequestKnows(w) ==
    /\ late[w] => calm /\ pc[w] # "no_ech"
    /\ pc[w] = "cf_store" \/ (late[w] /\ pc[w] \in {"grease", "hung"}) =>
          todo[w] \cap DohServers # {}
    /\ pc[w] = "drop_ips" => config = None
    /\ Busy(w) /\ host[w] \in Targets /\ addrs[w] = None /\ pc[w] # "lookup_ips" =>
          ips[host[w]] = None
    /\ Busy(w) /\ host[w] \in Targets /\ Reachable(host[w]) =>
          /\ addrs[w] # None =>
                \/ Answering(addrs[w] \cap CloudflareIps)
                \/ pc[w] = "retain" /\ addrs[w] \cap CloudflareIps = {}
          /\ late[w] /\ pc[w] = "retain" => addrs[w] = Zone[host[w]]
          /\ late[w] /\ pc[w] = "connect" => Answering(todo[w])

(* A failed late request has left nothing that could make another one      *)
(* fail: what is cached and held now comes from the calm network.          *)
Recovered(h) ==
    /\ calm
    /\ config \in {None, key}
    /\ ips[h] \in {None, Zone[h] \cap CloudflareIps}
    /\ \A w \in Workers : Busy(w) =>
          /\ late[w]
          /\ ecl[w] \in {None, key}
          /\ host[w] = h =>
                /\ pc[w] \notin {"drop_config", "drop_ips"}
                /\ pc[w] # "retain" => addrs[w] \in {None, Zone[h] \cap CloudflareIps}
                /\ pc[w] = "query" => todo[w] \cap DohServers # {}
                /\ pc[w] = "connect" =>
                      /\ todo[w] \cap Serving[h] # {}
                      /\ todo[w] \subseteq Serving[h] \cup BlackHoles

RTypeOK ==
    /\ late \in [Workers -> BOOLEAN]
    /\ failures \in [Targets -> 0..MaxFailures]

HostRecovers(h) ==
    /\ ips[h] # None => Answering(ips[h])
    /\ failures[h] <= 1
    /\ failures[h] = 1 => Recovered(h)

RIInv ==
    /\ IInv
    /\ RTypeOK
    /\ cf_ips # None => cf_ips \cap DohServers # {}
    /\ \A w \in Workers : RequestKnows(w)
    /\ \A h \in Targets : Reachable(h) => HostRecovers(h)
=============================================================================
