------------------------------ MODULE EchCache ------------------------------
(***************************************************************************)
(* EchCache (src/ech.rs) and open_backend (src/backend.rs), as run by many *)
(* connection threads at once.  The three mutexes of EchCache protect one  *)
(* Option or map each and are held for a single statement, so every locked *)
(* statement is one action; everything between two of them interleaves.    *)
(*                                                                         *)
(* A worker is one handle_client thread inside open_backend; "idle" stands *)
(* for the thread that has ended and the next one to be spawned.           *)
(* Vec<Ipv4Addr> is a set: the loops try its addresses in some order.      *)
(*                                                                         *)
(* A definition marked "Mutant" is a wrong version of the next one: it is  *)
(* no part of the specification, and shows which property would notice.    *)
(***************************************************************************)
EXTENDS Edge

CONSTANTS
    Workers,        \* connection threads
    Others,         \* host names is_target rejects
    CloudflareIps,  \* the addresses is_cloudflare_ip accepts
    BuiltIn,        \* CF_DOH_IPS
    Overrides,      \* EchCache.hosts, the --hosts file (any names)
    None            \* Option::None

Hosts == Targets \cup Others

ASSUME CacheAssumption ==
    /\ Targets \cap Others = {}
    /\ CloudflareIps \subseteq Ips
    /\ BuiltIn \in (SUBSET Ips) \ {{}}
    /\ None \notin Hosts /\ None \notin Keys
    /\ \A S \in SUBSET Ips : S # None

VARIABLES
    config,     \* EchCache.config: the cached ECH config list
    ips,        \* EchCache.ips: host -> its cached addresses
    cf_ips,     \* EchCache.cf_ips: the cached DoH server addresses
    pc,         \* where each worker is
    host,       \* the host of its request
    ecl,        \* the ECH config it holds (a clone of the cache's)
    addrs,      \* the result of get_target_ips, None until it returns
    todo,       \* the addresses its current loop has still to try
    outcome,    \* how its last connect_ech ended
    stream,     \* the stream open_backend returned
    issued,     \* history: the keys handed out by GREASE handshakes
    answered    \* history: the addresses DoH answered for each target

cacheVars == <<config, ips, cf_ips>>
history == <<issued, answered>>
vars == <<edgeVars, cacheVars, pc, host, ecl, addrs, todo, outcome, stream, history>>

Stages == {"idle", "direct", "lookup_ips", "get_ech", "cf_lookup", "bootstrap",
           "cf_store", "grease", "hung", "config_store", "query", "retain",
           "ips_store", "no_ech", "connect", "drop_config", "drop_ips",
           "open", "failed"}

(* open_backend has been called and has not returned.                      *)
Busy(w) == pc[w] \notin {"idle", "open", "failed"}

EchStream(ip, k) == [route |-> "ech", to |-> ip, key |-> k]
DirectStream(a)  == [route |-> "direct", to |-> a, key |-> None]
DirectAddress(h) == IF h \in DOMAIN Overrides THEN Overrides[h] ELSE h

Init ==
    /\ EdgeInit
    /\ config = None
    /\ ips = [h \in Targets |-> None]
    /\ cf_ips = None
    /\ pc = [w \in Workers |-> "idle"]
    /\ host = [w \in Workers |-> None]
    /\ ecl = [w \in Workers |-> None]
    /\ addrs = [w \in Workers |-> None]
    /\ todo = [w \in Workers |-> {}]
    /\ outcome = [w \in Workers |-> None]
    /\ stream = [w \in Workers |-> None]
    /\ issued = {}
    /\ answered = [h \in Targets |-> {}]

Goto(w, stage) == pc' = [pc EXCEPT ![w] = stage]

-----------------------------------------------------------------------------
(* open_backend: the branch on is_target, and the direct connection.       *)

\* Mutant: the --hosts file is asked before is_target.
OpenBackendHostsFirst(w, h) ==
    /\ pc[w] = "idle"
    /\ Goto(w, IF h \in Targets \ DOMAIN Overrides THEN "lookup_ips" ELSE "direct")
    /\ host' = [host EXCEPT ![w] = h]
    /\ UNCHANGED <<edgeVars, cacheVars, ecl, addrs, todo, outcome, stream, history>>

OpenBackend(w, h) ==
    /\ pc[w] = "idle"
    /\ Goto(w, IF h \in Targets THEN "lookup_ips" ELSE "direct")
    /\ host' = [host EXCEPT ![w] = h]
    /\ UNCHANGED <<edgeVars, cacheVars, ecl, addrs, todo, outcome, stream, history>>

ConnectDirect(w) ==
    /\ pc[w] = "direct"
    /\ \/ /\ Goto(w, "open")
          /\ stream' = [stream EXCEPT ![w] = DirectStream(DirectAddress(host[w]))]
       \/ /\ Goto(w, "failed")
          /\ UNCHANGED stream
    /\ UNCHANGED <<edgeVars, cacheVars, host, ecl, addrs, todo, outcome, history>>

-----------------------------------------------------------------------------
(* get_target_ips: the cache probe; on a miss, resolve_via_ech_multi.      *)

LookupIps(w) ==
    /\ pc[w] = "lookup_ips"
    /\ Goto(w, "get_ech")
    /\ addrs' = [addrs EXCEPT ![w] = ips[host[w]]]
    /\ UNCHANGED <<edgeVars, cacheVars, host, ecl, todo, outcome, stream, history>>

(* get_ech returns config c, either to resolve_via_ech_multi, which goes   *)
(* on to the DoH servers, or to open_backend, which starts connecting and  *)
(* passes over the addresses that are not Cloudflare's.                    *)
ReturnEch(w, c) ==
    /\ ecl' = [ecl EXCEPT ![w] = c]
    /\ IF addrs[w] = None
       THEN /\ Goto(w, "cf_lookup")
            /\ UNCHANGED todo
       ELSE /\ Goto(w, "connect")
            /\ todo' = [todo EXCEPT ![w] = addrs[w] \cap CloudflareIps]

GetEch(w) ==
    /\ pc[w] = "get_ech"
    /\ IF config # None
       THEN ReturnEch(w, config)
       ELSE /\ Goto(w, "cf_lookup")
            /\ UNCHANGED <<ecl, todo>>
    /\ UNCHANGED <<edgeVars, cacheVars, host, addrs, outcome, stream, history>>

(* cloudflare_doh_ips returns S: to get_ech, which holds no config yet, or *)
(* to resolve_via_ech_multi, which does.                                   *)
ReturnDohIps(w, S) ==
    /\ todo' = [todo EXCEPT ![w] = S]
    /\ Goto(w, IF ecl[w] = None THEN "grease" ELSE "query")

CfLookup(w) ==
    /\ pc[w] = "cf_lookup"
    /\ IF cf_ips # None
       THEN ReturnDohIps(w, cf_ips)
       ELSE /\ Goto(w, "bootstrap")
            /\ UNCHANGED todo
    /\ UNCHANGED <<edgeVars, cacheVars, host, ecl, addrs, outcome, stream, history>>

(* resolve_multi_no_fallback, retain, and the built-in addresses if        *)
(* nothing is left.                                                        *)
Bootstrap(w) ==
    /\ pc[w] = "bootstrap"
    /\ \E answer \in BootstrapAnswers :
          LET kept == answer \cap CloudflareIps
          IN  todo' = [todo EXCEPT ![w] = IF kept = {} THEN BuiltIn ELSE kept]
    /\ Goto(w, "cf_store")
    /\ UNCHANGED <<edgeVars, cacheVars, host, ecl, addrs, outcome, stream, history>>

CfStore(w) ==
    /\ pc[w] = "cf_store"
    /\ cf_ips' = todo[w]
    /\ ReturnDohIps(w, todo[w])
    /\ UNCHANGED <<edgeVars, config, ips, host, ecl, addrs, outcome, stream, history>>

-----------------------------------------------------------------------------
(* get_ech: the GREASE loop over the DoH servers.                          *)

GreaseOk(w) ==
    /\ pc[w] = "grease"
    /\ \E ip \in todo[w] : GreaseSucceeds(ip)
    /\ ecl' = [ecl EXCEPT ![w] = key]
    /\ issued' = issued \cup {key}
    /\ todo' = [todo EXCEPT ![w] = {}]
    /\ Goto(w, "config_store")
    /\ UNCHANGED <<edgeVars, cacheVars, host, addrs, outcome, stream, answered>>

\* Mutant: a failure looks the DoH addresses up again.
GreaseFailRetries(w) ==
    /\ pc[w] = "grease"
    /\ \E ip \in todo[w] : GreaseFails(ip)
    /\ Goto(w, "cf_lookup")
    /\ UNCHANGED <<edgeVars, cacheVars, host, ecl, addrs, todo, outcome, stream, history>>

\* Mutant: the first failure ends the loop.
GreaseFailGivesUp(w) ==
    /\ pc[w] = "grease"
    /\ \E ip \in todo[w] : GreaseFails(ip)
    /\ todo' = [todo EXCEPT ![w] = {}]
    /\ UNCHANGED <<edgeVars, cacheVars, pc, host, ecl, addrs, outcome, stream, history>>

GreaseFail(w) ==
    /\ pc[w] = "grease"
    /\ \E ip \in todo[w] :
          /\ GreaseFails(ip)
          /\ todo' = [todo EXCEPT ![w] = @ \ {ip}]
    /\ UNCHANGED <<edgeVars, cacheVars, pc, host, ecl, addrs, outcome, stream, history>>

GreaseHang(w) ==
    /\ pc[w] = "grease"
    /\ \E ip \in todo[w] : GreaseHangs(ip)
    /\ Goto(w, "hung")
    /\ UNCHANGED <<edgeVars, cacheVars, host, ecl, addrs, todo, outcome, stream, history>>

\* Mutant: open_backend connects although get_ech failed.
GreaseExhaustedConnects(w) ==
    /\ pc[w] = "grease"
    /\ todo[w] = {}
    /\ IF addrs[w] = None
       THEN /\ Goto(w, "failed")
            /\ UNCHANGED todo
       ELSE /\ Goto(w, "connect")
            /\ todo' = [todo EXCEPT ![w] = addrs[w]]
    /\ UNCHANGED <<edgeVars, cacheVars, host, ecl, addrs, outcome, stream, history>>

(* "all CF DoH IPs failed for GREASE": get_target_ips passes the error on, *)
(* open_backend invalidates the config first.                              *)
GreaseExhausted(w) ==
    /\ pc[w] = "grease"
    /\ todo[w] = {}
    /\ Goto(w, IF addrs[w] = None THEN "failed" ELSE "no_ech")
    /\ UNCHANGED <<edgeVars, cacheVars, host, ecl, addrs, todo, outcome, stream, history>>

ConfigStore(w) ==
    /\ pc[w] = "config_store"
    /\ config' = ecl[w]
    /\ ReturnEch(w, ecl[w])
    /\ UNCHANGED <<edgeVars, ips, cf_ips, host, addrs, outcome, stream, history>>

NoEch(w) ==
    /\ pc[w] = "no_ech"
    /\ config' = None
    /\ Goto(w, "failed")
    /\ UNCHANGED <<edgeVars, ips, cf_ips, host, ecl, addrs, todo, outcome, stream, history>>

-----------------------------------------------------------------------------
(* resolve_via_ech_multi: the DoH queries, and get_target_ips' filter.     *)

QueryOk(w) ==
    /\ pc[w] = "query"
    /\ \E ip \in todo[w] : \E answer \in QueryAnswers(host[w], ip, ecl[w]) :
          /\ addrs' = [addrs EXCEPT ![w] = answer]
          /\ answered' = [answered EXCEPT ![host[w]] = @ \cup answer]
    /\ ecl' = [ecl EXCEPT ![w] = None]
    /\ todo' = [todo EXCEPT ![w] = {}]
    /\ Goto(w, "retain")
    /\ UNCHANGED <<edgeVars, cacheVars, host, outcome, stream, issued>>

QueryFail(w) ==
    /\ pc[w] = "query"
    /\ \E ip \in todo[w] :
          /\ QueryFails(host[w], ip, ecl[w])
          /\ todo' = [todo EXCEPT ![w] = @ \ {ip}]
    /\ UNCHANGED <<edgeVars, cacheVars, pc, host, ecl, addrs, outcome, stream, history>>

\* Mutant: the failed config stays cached.
QueryExhaustedKeeps(w) ==
    /\ pc[w] = "query"
    /\ todo[w] = {}
    /\ Goto(w, "failed")
    /\ UNCHANGED <<edgeVars, cacheVars, host, ecl, addrs, todo, outcome, stream, history>>

QueryExhausted(w) ==
    /\ pc[w] = "query"
    /\ todo[w] = {}
    /\ config' = None
    /\ Goto(w, "failed")
    /\ UNCHANGED <<edgeVars, ips, cf_ips, host, ecl, addrs, todo, outcome, stream, history>>

\* Mutant: an answer without a Cloudflare address is cached too.
RetainEmpty(w) ==
    /\ pc[w] = "retain"
    /\ addrs' = [addrs EXCEPT ![w] = @ \cap CloudflareIps]
    /\ Goto(w, "ips_store")
    /\ UNCHANGED <<edgeVars, cacheVars, host, ecl, todo, outcome, stream, history>>

Retain(w) ==
    /\ pc[w] = "retain"
    /\ LET kept == addrs[w] \cap CloudflareIps
       IN  /\ addrs' = [addrs EXCEPT ![w] = kept]
           /\ Goto(w, IF kept = {} THEN "failed" ELSE "ips_store")
    /\ UNCHANGED <<edgeVars, cacheVars, host, ecl, todo, outcome, stream, history>>

IpsStore(w) ==
    /\ pc[w] = "ips_store"
    /\ ips' = [ips EXCEPT ![host[w]] = addrs[w]]
    /\ Goto(w, "get_ech")
    /\ UNCHANGED <<edgeVars, config, cf_ips, host, ecl, addrs, todo, outcome, stream, history>>

-----------------------------------------------------------------------------
(* open_backend: the connect loop.  connect_ech keeps the error kind of    *)
(* TcpStream::connect_timeout and turns every handshake error, a timeout   *)
(* included, into ErrorKind::Other: is_timeout sees the first kind only.   *)

IsTimeout(o) == o = "tcp_timeout"

Connect(w) ==
    /\ pc[w] = "connect"
    /\ \E ip \in todo[w] : \E o \in ConnectOutcomes(host[w], ip, ecl[w]) :
          /\ outcome' = [outcome EXCEPT ![w] = o]
          /\ todo' = [todo EXCEPT ![w] = @ \ {ip}]
          /\ \/ /\ o = "ok"
                /\ stream' = [stream EXCEPT ![w] = EchStream(ip, ecl[w])]
                /\ Goto(w, "open")
             \/ /\ IsTimeout(o)
                /\ UNCHANGED <<pc, stream>>
             \/ /\ o # "ok" /\ ~IsTimeout(o)
                /\ Goto(w, "drop_config")
                /\ UNCHANGED stream
    /\ UNCHANGED <<edgeVars, cacheVars, host, ecl, addrs, history>>

ConnectExhausted(w) ==
    /\ pc[w] = "connect"
    /\ todo[w] = {}
    /\ Goto(w, "failed")
    /\ UNCHANGED <<edgeVars, cacheVars, host, ecl, addrs, todo, outcome, stream, history>>

DropConfig(w) ==
    /\ pc[w] = "drop_config"
    /\ config' = None
    /\ Goto(w, "drop_ips")
    /\ UNCHANGED <<edgeVars, ips, cf_ips, host, ecl, addrs, todo, outcome, stream, history>>

\* Mutant: a failed connect does not invalidate the addresses.
DropIpsKeeps(w) ==
    /\ pc[w] = "drop_ips"
    /\ Goto(w, "failed")
    /\ UNCHANGED <<edgeVars, cacheVars, host, ecl, addrs, todo, outcome, stream, history>>

DropIps(w) ==
    /\ pc[w] = "drop_ips"
    /\ ips' = [ips EXCEPT ![host[w]] = None]
    /\ Goto(w, "failed")
    /\ UNCHANGED <<edgeVars, config, cf_ips, host, ecl, addrs, todo, outcome, stream, history>>

(* The thread is done with its stream, or with the error, and ends.        *)
Finish(w) ==
    /\ pc[w] \in {"open", "failed"}
    /\ Goto(w, "idle")
    /\ host' = [host EXCEPT ![w] = None]
    /\ ecl' = [ecl EXCEPT ![w] = None]
    /\ addrs' = [addrs EXCEPT ![w] = None]
    /\ todo' = [todo EXCEPT ![w] = {}]
    /\ outcome' = [outcome EXCEPT ![w] = None]
    /\ stream' = [stream EXCEPT ![w] = None]
    /\ UNCHANGED <<edgeVars, cacheVars, history>>

-----------------------------------------------------------------------------
(* Everything open_backend does after it was called.                       *)
Step(w) ==
    \/ ConnectDirect(w)
    \/ LookupIps(w) \/ GetEch(w)
    \/ CfLookup(w) \/ Bootstrap(w) \/ CfStore(w)
    \/ GreaseOk(w) \/ GreaseFail(w) \/ GreaseHang(w) \/ GreaseExhausted(w)
    \/ ConfigStore(w) \/ NoEch(w)
    \/ QueryOk(w) \/ QueryFail(w) \/ QueryExhausted(w)
    \/ Retain(w) \/ IpsStore(w)
    \/ Connect(w) \/ ConnectExhausted(w) \/ DropConfig(w) \/ DropIps(w)

EdgeStep == (RotateKey \/ Settle) /\ UNCHANGED <<cacheVars, pc, host, ecl, addrs,
                                                 todo, outcome, stream, history>>

Next ==
    \/ EdgeStep
    \/ \E w \in Workers :
          \/ \E h \in Hosts : OpenBackend(w, h)
          \/ Step(w)
          \/ Finish(w)

Spec == Init /\ [][Next]_vars

(* Running threads are scheduled and network calls end (connect_ech sets   *)
(* timeouts; GreaseHang is the call that may not).  Nothing makes a user   *)
(* ask for a host, a relay end, a key rotate or the network settle.        *)
FairSpec == Spec /\ \A w \in Workers : WF_vars(Step(w))

-----------------------------------------------------------------------------
Streams ==
    {EchStream(ip, k) : ip \in Ips, k \in Keys}
        \cup {DirectStream(DirectAddress(h)) : h \in Others}

(* Every variable keeps to its type: the caches hold what open_backend may *)
(* put there, a worker's locals what the Rust locals can hold.             *)
TypeOK ==
    /\ EdgeTypeOK
    /\ config \in Keys \cup {None}
    /\ ips \in [Targets -> {None} \cup SUBSET Ips]
    /\ cf_ips \in {None} \cup SUBSET Ips
    /\ pc \in [Workers -> Stages]
    /\ host \in [Workers -> Hosts \cup {None}]
    /\ ecl \in [Workers -> Keys \cup {None}]
    /\ addrs \in [Workers -> {None} \cup SUBSET Ips]
    /\ todo \in [Workers -> SUBSET Ips]
    /\ outcome \in [Workers -> {"ok", "tcp_timeout", "handshake_timeout",
                                 "rejected", None}]
    /\ stream \in [Workers -> Streams \cup {None}]
    /\ issued \in SUBSET Keys
    /\ answered \in [Targets -> SUBSET Ips]

(* Whatever the interleaving, a cached address list can be used as it is:  *)
(* it is not empty (an empty entry would be served for ever, since no      *)
(* connect to it could fail and invalidate it), holds Cloudflare addresses *)
(* only, and holds none that DoH did not give for that very host           *)
(* (get_target_ips, src/ech.rs:101-129).                                   *)
CachedIpsUsable ==
    \A h \in Targets : ips[h] # None =>
        /\ ips[h] # {}
        /\ ips[h] \subseteq answered[h] \cap CloudflareIps

(* What a worker knows at each stage.  It fails (and with it CachedIpsUsable *)
(* or the promise of StrictEch) if a stage can be reached without the       *)
(* config, or with addresses other than those DoH gave for its host.  The   *)
(* last three say which call of get_ech or cloudflare_doh_ips it is in.     *)
WorkerKnows(w) ==
    LET known == answered[host[w]] \cap CloudflareIps
    IN  /\ pc[w] = "idle" => host[w] = None /\ addrs[w] = None /\ ecl[w] = None
        /\ pc[w] = "direct" => host[w] \in Others
        /\ Busy(w) /\ pc[w] # "direct" => host[w] \in Targets
        /\ pc[w] # "open" => stream[w] = None
        /\ ecl[w] # None => ecl[w] \in issued
        /\ pc[w] \in {"config_store", "query", "connect"} => ecl[w] # None
        /\ pc[w] = "retain" => addrs[w] # None /\ addrs[w] \subseteq answered[host[w]]
        /\ pc[w] = "ips_store" => addrs[w] # None
        /\ Busy(w) /\ pc[w] \notin {"direct", "retain"} /\ addrs[w] # None =>
              addrs[w] # {} /\ addrs[w] \subseteq known
        /\ pc[w] = "connect" => todo[w] \subseteq known
        /\ pc[w] \in {"lookup_ips", "query"} => addrs[w] = None
        /\ pc[w] \in {"lookup_ips", "get_ech", "grease", "retain", "ips_store"} => ecl[w] = None
        /\ pc[w] \in {"cf_lookup", "bootstrap", "cf_store"} /\ ecl[w] # None => addrs[w] = None

(* The inductive invariant: the config was handed out by the edge, and so  *)
(* were the clones workers hold; the addresses, cached or held, are known  *)
(* to belong to the host they are used for.                                *)
IInv ==
    /\ TypeOK
    /\ CachedIpsUsable
    /\ config # None => config \in issued
    /\ \A w \in Workers : WorkerKnows(w)

(* open_backend keeps the promise of StrictEch: the caches, the loops over *)
(* addresses and the races between workers are invisible to its callers.   *)
Phase(stage) == IF stage \in {"idle", "open", "failed"} THEN stage ELSE "opening"

Abs == INSTANCE StrictEch WITH phase <- [w \in Workers |-> Phase(pc[w])]

ImplementsStrictEch == Abs!Spec

(* Every step of a request brings it nearer to its end, whatever the other *)
(* threads put into the caches or take out of them: it gets the addresses, *)
(* or the config, it has not got, or goes on to a later stage, or has one  *)
(* address less to try in the loop it is in.  It may call get_ech twice    *)
(* and cloudflare_doh_ips three times, but it never goes round             *)
(* (src/backend.rs:19-50, src/ech.rs:77-129 and 166-207).                  *)
Lacks(w) == (IF addrs[w] = None THEN 2 ELSE 0) + (IF ecl[w] = None THEN 1 ELSE 0)

StagesLeft ==
    [lookup_ips |-> 13, retain |-> 12, ips_store |-> 11, get_ech |-> 10, config_store |-> 9,
     cf_lookup |-> 8, bootstrap |-> 7, cf_store |-> 6, grease |-> 5, query |-> 4, connect |-> 4,
     hung |-> 3, no_ech |-> 3, drop_config |-> 3, drop_ips |-> 2, direct |-> 1,
     open |-> 0, failed |-> 0, idle |-> 0]

Advances(w) ==
    \/ Lacks(w)' < Lacks(w)
    \/ /\ Lacks(w)' = Lacks(w)
       /\ \/ StagesLeft[pc'[w]] < StagesLeft[pc[w]]
          \/ pc'[w] = pc[w] /\ todo'[w] \subseteq todo[w] /\ todo'[w] # todo[w]

RequestAdvances ==
    [][\A w \in Workers :
          Busy(w) => UNCHANGED <<pc[w], ecl[w], addrs[w], todo[w]>> \/ Advances(w)]_vars


(* Every call of open_backend returns, however the network behaves, as     *)
(* long as each single network call does.                                  *)
RequestsEnd == \A w \in Workers : Busy(w) ~> ~Busy(w)
=============================================================================
