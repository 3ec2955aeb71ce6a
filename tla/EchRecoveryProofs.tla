--------------------------- MODULE EchRecoveryProofs ---------------------------
(***************************************************************************)
(* Proofs about EchRecovery, for any targets, addresses and ECH keys: the  *)
(* histories change nothing about EchCache, and at most one late request   *)
(* for a reachable target fails of a user who makes one at a time.         *)
(***************************************************************************)
EXTENDS EchRecovery, EchCacheProofs

(* What EchRecovery adds only watches: all that is proved of EchCache      *)
(* holds here.                                                             *)
THEOREM RecoveryIsEchCache == RSpec => Spec
<1>1. RInit => Init
  BY DEF RInit
<1>2. [RNext]_recoveryVars => [Next]_vars
  BY DEF RNext, Next, ROpenBackend, RStep, RFinish, recoveryVars
<1> QED
  BY <1>1, <1>2, PTL DEF RSpec, Spec

LEMMA RInitRIInv ==
    ASSUME RInit
    PROVE  RIInv
<1>0. Init /\ MaxFailures \in Nat
  BY RecoveryAssumption DEF RInit, RecoveryAssumption
<1>1. IInv
  BY <1>0, InitIInv
<1>2. RTypeOK
  BY <1>0 DEF RInit, RTypeOK
<1>3. \A w \in Workers : RequestKnows(w)
  BY <1>0 DEF RInit, Init, RequestKnows, Busy
<1>4. ASSUME NEW h \in Targets PROVE HostRecovers(h)
  <2>1. ips[h] = None /\ failures[h] = 0
    BY <1>0 DEF RInit, Init
  <2> QED
    BY <2>1 DEF HostRecovers
<1> QED
  BY <1>0, <1>1, <1>2, <1>3, <1>4 DEF RIInv, Init

(* A step of the only worker keeps the invariant if it keeps its parts.    *)
LEMMA OneRequestMoves ==
    ASSUME OneAtATime, NEW w \in Workers, IInv', RTypeOK',
           cf_ips' # None => cf_ips' \cap DohServers # {},
           RequestKnows(w)',
           \A h \in Targets : Reachable(h) => HostRecovers(h)'
    PROVE  RIInv'
BY DEF OneAtATime, RIInv

LEMMA ROpenBackendKeeps ==
    ASSUME OneAtATime, RIInv, NEW w \in Workers, NEW h \in Hosts, ROpenBackend(w, h)
    PROVE  RIInv'
<1> USE DEF ROpenBackend, OpenBackend, Goto, edgeVars, cacheVars
<1>0. IInv /\ TypeOK /\ RTypeOK /\ WorkerKnows(w)
  BY DEF RIInv, IInv
<1>1. IInv'
  BY <1>0, OpenBackendKeeps
<1>2. RTypeOK'
  <2>1. calm \in BOOLEAN
    BY <1>0 DEF TypeOK, EdgeTypeOK
  <2> QED
    BY <1>0, <2>1 DEF RTypeOK
<1>3. /\ pc'[w] \in {"lookup_ips", "direct"} /\ late'[w] = calm /\ ecl'[w] = None
      /\ host'[w] = h /\ (pc'[w] = "direct" => h \notin Targets)
      /\ addrs'[w] = None
  BY <1>0 DEF TypeOK, RTypeOK, WorkerKnows
<1>4. RequestKnows(w)'
  BY <1>3 DEF RequestKnows, Busy
<1>5. ASSUME NEW g \in Targets, Reachable(g) PROVE HostRecovers(g)'
  BY <1>3, <1>5 DEF RIInv, HostRecovers, Recovered, Busy, OneAtATime
<1> QED
  BY <1>1, <1>2, <1>4, <1>5, OneRequestMoves DEF RIInv

LEMMA RFinishKeeps ==
    ASSUME OneAtATime, RIInv, NEW w \in Workers, RFinish(w)
    PROVE  RIInv'
<1> USE DEF RFinish, Finish, Goto, edgeVars, cacheVars
<1>0. IInv /\ TypeOK /\ RTypeOK
  BY DEF RIInv, IInv
<1>1. IInv'
  BY <1>0, FinishKeeps
<1>2. RTypeOK'
  BY <1>0 DEF RTypeOK
<1>3. pc'[w] = "idle" /\ ~late'[w]
  BY <1>0 DEF TypeOK, RTypeOK
<1>4. RequestKnows(w)'
  BY <1>3 DEF RequestKnows, Busy
<1>5. ASSUME NEW g \in Targets, Reachable(g) PROVE HostRecovers(g)'
  BY <1>3, <1>5 DEF RIInv, HostRecovers, Recovered, Busy, OneAtATime
<1> QED
  BY <1>1, <1>2, <1>4, <1>5, OneRequestMoves DEF RIInv

(* No request is late, and none has failed, until the network is calm, and *)
(* a calm network does not change.                                         *)
LEMMA REdgeStepKeeps ==
    ASSUME RIInv, EdgeStep, UNCHANGED <<late, failures>>
    PROVE  RIInv'
<1> USE DEF EdgeStep, cacheVars
<1>0. IInv' /\ RTypeOK'
  BY EdgeStepKeeps DEF RIInv, RTypeOK
<1>1. ~calm /\ calm' \in BOOLEAN
  BY DEF RotateKey, Settle, RIInv, IInv, TypeOK, EdgeTypeOK
<1>2. ASSUME NEW w \in Workers PROVE RequestKnows(w)'
  BY <1>1 DEF RIInv, RequestKnows, Busy
<1>3. ASSUME NEW g \in Targets, Reachable(g) PROVE HostRecovers(g)'
  BY <1>1, <1>3 DEF RIInv, HostRecovers, Recovered
<1> QED
  BY <1>0, <1>2, <1>3 DEF RIInv

LEMMA RStutterKeeps == ASSUME RIInv, UNCHANGED recoveryVars PROVE RIInv'
<1> USE DEF recoveryVars, vars, cacheVars, edgeVars
<1>1. IInv' /\ RTypeOK'
  BY StutterKeeps DEF RIInv, RTypeOK
<1>2. ASSUME NEW w \in Workers PROVE RequestKnows(w)'
  BY <1>2 DEF RIInv, RequestKnows, Busy
<1>3. ASSUME NEW g \in Targets, Reachable(g) PROVE HostRecovers(g)'
  BY <1>3 DEF RIInv, HostRecovers, Recovered, Busy
<1> QED
  BY <1>1, <1>2, <1>3 DEF RIInv

-----------------------------------------------------------------------------
(* The steps of open_backend.  A failure is counted against the host that  *)
(* was asked for.                                                          *)
LEMMA StepFrame ==
    ASSUME RIInv, NEW w \in Workers, RStep(w)
    PROVE  /\ IInv' /\ RTypeOK' /\ UNCHANGED late
           /\ pc'[w] # "failed" => UNCHANGED failures
           /\ \A h \in Targets :
                 \/ failures'[h] = failures[h]
                 \/ /\ host[w] = h /\ late[w] /\ Busy(w) /\ pc'[w] = "failed"
                    /\ failures'[h] = failures[h] + 1
<1>1. IInv'
  BY StepKeeps DEF RIInv, RStep
<1>2. failures \in [Targets -> 0..MaxFailures] /\ MaxFailures \in Nat
  BY RecoveryAssumption DEF RIInv, RTypeOK, RecoveryAssumption
<1>3. RTypeOK'
  BY <1>2 DEF RStep, RIInv, RTypeOK
<1>4. pc'[w] # "failed" => UNCHANGED failures
  BY DEF RStep, Fails
<1>5. ASSUME NEW h \in Targets
      PROVE  \/ failures'[h] = failures[h]
             \/ /\ host[w] = h /\ late[w] /\ Busy(w) /\ pc'[w] = "failed"
                /\ failures'[h] = failures[h] + 1
  BY <1>2 DEF RStep, Fails
<1> QED
  BY <1>1, <1>3, <1>4, <1>5 DEF RStep

(* The facts a step starts from.                                           *)
LEMMA StepFacts ==
    ASSUME RIInv, NEW w \in Workers
    PROVE  /\ TypeOK /\ RTypeOK /\ WorkerKnows(w) /\ RequestKnows(w)
           /\ cf_ips # None => cf_ips \cap DohServers # {}
           /\ \A h \in Targets : Reachable(h) => HostRecovers(h)
BY DEF RIInv, IInv

(* The lookups in the caches.                                              *)
LEMMA LookupsKeep ==
    ASSUME OneAtATime, RIInv, NEW w \in Workers, RStep(w),
           LookupIps(w) \/ GetEch(w) \/ CfLookup(w)
    PROVE  RIInv'
<1> USE DEF Goto, edgeVars, cacheVars
<1>0. /\ TypeOK /\ RTypeOK /\ WorkerKnows(w) /\ RequestKnows(w)
      /\ cf_ips # None => cf_ips \cap DohServers # {}
      /\ \A h \in Targets : Reachable(h) => HostRecovers(h)
  BY StepFacts
<1>1. IInv' /\ RTypeOK' /\ UNCHANGED late
  BY StepFrame
<1>2. CASE LookupIps(w)
  <2> USE <1>2 DEF LookupIps
  <2>1. UNCHANGED failures /\ pc'[w] = "get_ech"
    BY <1>0, StepFrame DEF TypeOK
  <2>2. RequestKnows(w)'
    <3>1. host[w] \in Targets /\ addrs'[w] = ips[host[w]]
      BY <1>0 DEF TypeOK, WorkerKnows, Busy
    <3>2. ips[host[w]] # None => ips[host[w]] \cap CloudflareIps = ips[host[w]]
      BY <3>1 DEF RIInv, IInv, CachedIpsUsable
    <3>3. Reachable(host[w]) /\ ips[host[w]] # None
            => Answering(ips[host[w]] \cap CloudflareIps)
      BY <1>0, <3>1, <3>2 DEF HostRecovers
    <3> QED
      BY <1>0, <1>1, <2>1, <3>1, <3>3 DEF RequestKnows, Busy
  <2>3. ASSUME NEW g \in Targets, Reachable(g) PROVE HostRecovers(g)'
    BY <1>0, <1>1, <2>1, <2>3 DEF TypeOK, HostRecovers, Recovered, Busy, OneAtATime
  <2> QED
    BY <1>0, <1>1, <2>2, <2>3, OneRequestMoves
<1>3. CASE GetEch(w)
  <2> USE <1>3 DEF GetEch, ReturnEch
  <2>1. UNCHANGED failures
    BY <1>0, StepFrame DEF TypeOK
  <2>2. RequestKnows(w)'
    BY <1>0, <1>1, <2>1, ZenonT(40) DEF TypeOK, WorkerKnows, RequestKnows, Busy
  <2>3. ASSUME NEW g \in Targets, Reachable(g) PROVE HostRecovers(g)'
    BY <1>0, <1>1, <2>1, <2>3 DEF TypeOK, HostRecovers, Recovered, Busy, OneAtATime,
                                  Reachable
  <2> QED
    BY <1>0, <1>1, <2>2, <2>3, OneRequestMoves
<1>4. CASE CfLookup(w)
  <2> USE <1>4 DEF CfLookup, ReturnDohIps
  <2>1. UNCHANGED failures
    BY <1>0, StepFrame DEF TypeOK
  <2>2. RequestKnows(w)'
    BY <1>0, <1>1, <2>1 DEF TypeOK, WorkerKnows, RequestKnows, Busy
  <2>3. ASSUME NEW g \in Targets, Reachable(g) PROVE HostRecovers(g)'
    BY <1>0, <1>1, <2>1, <2>3 DEF TypeOK, HostRecovers, Recovered, Busy, OneAtATime
  <2> QED
    BY <1>0, <1>1, <2>2, <2>3, OneRequestMoves
<1> QED
  BY <1>2, <1>3, <1>4

(* Every list of DoH servers that is cached has one that works.            *)
LEMMA BootstrapKeeps ==
    ASSUME OneAtATime, Survivable, RIInv, NEW w \in Workers, RStep(w),
           Bootstrap(w) \/ CfStore(w)
    PROVE  RIInv'
<1> USE DEF Goto, edgeVars, cacheVars
<1>0. /\ TypeOK /\ RTypeOK /\ WorkerKnows(w) /\ RequestKnows(w)
      /\ cf_ips # None => cf_ips \cap DohServers # {}
      /\ \A h \in Targets : Reachable(h) => HostRecovers(h)
  BY StepFacts
<1>1. IInv' /\ RTypeOK' /\ UNCHANGED late
  BY StepFrame
<1>2. CASE Bootstrap(w)
  <2> USE <1>2 DEF Bootstrap
  <2>1. UNCHANGED failures /\ pc'[w] = "cf_store"
    BY <1>0, StepFrame DEF TypeOK
  <2>2. todo'[w] \cap DohServers # {}
    BY <1>0 DEF TypeOK, BootstrapAnswers, Survivable
  <2>3. RequestKnows(w)'
    BY <1>0, <1>1, <2>1, <2>2 DEF TypeOK, RequestKnows, Busy
  <2>4. ASSUME NEW g \in Targets, Reachable(g) PROVE HostRecovers(g)'
    BY <1>0, <1>1, <2>1, <2>4 DEF TypeOK, HostRecovers, Recovered, Busy, OneAtATime
  <2> QED
    BY <1>0, <1>1, <2>3, <2>4, OneRequestMoves
<1>3. CASE CfStore(w)
  <2> USE <1>3 DEF CfStore, ReturnDohIps
  <2>1. UNCHANGED failures /\ pc'[w] \in {"grease", "query"}
    BY <1>0, StepFrame DEF TypeOK
  <2>2. todo'[w] \cap DohServers # {} /\ cf_ips' = todo[w] /\ cf_ips' \cap DohServers # {}
    BY <1>0 DEF TypeOK, RequestKnows
  <2>3. RequestKnows(w)'
    BY <1>0, <1>1, <2>1, <2>2 DEF TypeOK, RequestKnows, Busy
  <2>4. ASSUME NEW g \in Targets, Reachable(g) PROVE HostRecovers(g)'
    BY <1>0, <1>1, <2>1, <2>2, <2>4 DEF TypeOK, HostRecovers, Recovered, Busy, OneAtATime
  <2> QED
    BY <1>1, <2>2, <2>3, <2>4, OneRequestMoves
<1> QED
  BY <1>2, <1>3

(* The GREASE loop ends with the edge's current key.                       *)
LEMMA GreaseKeeps ==
    ASSUME OneAtATime, RIInv, NEW w \in Workers, RStep(w),
           \/ GreaseOk(w) \/ GreaseFail(w) \/ GreaseHang(w) \/ GreaseExhausted(w)
           \/ ConfigStore(w) \/ NoEch(w)
    PROVE  RIInv'
<1> USE DEF Goto, edgeVars, cacheVars
<1>0. /\ TypeOK /\ RTypeOK /\ WorkerKnows(w) /\ RequestKnows(w)
      /\ cf_ips # None => cf_ips \cap DohServers # {}
      /\ \A h \in Targets : Reachable(h) => HostRecovers(h)
  BY StepFacts
<1>1. IInv' /\ RTypeOK' /\ UNCHANGED late
  BY StepFrame
<1>2. CASE GreaseOk(w)
  <2> USE <1>2 DEF GreaseOk
  <2>1. UNCHANGED failures /\ pc'[w] = "config_store" /\ ecl'[w] = key
    BY <1>0, StepFrame DEF TypeOK
  <2>2. RequestKnows(w)'
    BY <1>0, <1>1, <2>1 DEF TypeOK, RequestKnows, Busy
  <2>3. ASSUME NEW g \in Targets, Reachable(g) PROVE HostRecovers(g)'
    BY <1>0, <1>1, <2>1, <2>3 DEF TypeOK, HostRecovers, Recovered, Busy, OneAtATime
  <2> QED
    BY <1>0, <1>1, <2>2, <2>3, OneRequestMoves
<1>3. CASE GreaseFail(w)
  <2> USE <1>3 DEF GreaseFail
  <2>1. UNCHANGED failures /\ pc'[w] = "grease"
    BY <1>0, StepFrame DEF TypeOK
  <2>2. RequestKnows(w)'
    BY <1>0, <1>1, <2>1 DEF TypeOK, RequestKnows, Busy, GreaseFails
  <2>3. ASSUME NEW g \in Targets, Reachable(g) PROVE HostRecovers(g)'
    BY <1>0, <1>1, <2>1, <2>3 DEF TypeOK, HostRecovers, Recovered, Busy, OneAtATime
  <2> QED
    BY <1>0, <1>1, <2>2, <2>3, OneRequestMoves
<1>4. CASE GreaseHang(w)
  <2> USE <1>4 DEF GreaseHang
  <2>1. UNCHANGED failures /\ pc'[w] = "hung"
    BY <1>0, StepFrame DEF TypeOK
  <2>2. RequestKnows(w)'
    BY <1>0, <1>1, <2>1 DEF TypeOK, RequestKnows, Busy
  <2>3. ASSUME NEW g \in Targets, Reachable(g) PROVE HostRecovers(g)'
    BY <1>0, <1>1, <2>1, <2>3 DEF TypeOK, HostRecovers, Recovered, Busy, OneAtATime
  <2> QED
    BY <1>0, <1>1, <2>2, <2>3, OneRequestMoves
<1>5. CASE GreaseExhausted(w)
  <2> USE <1>5 DEF GreaseExhausted
  <2>1. ~late[w] /\ pc'[w] \in {"failed", "no_ech"}
    BY <1>0 DEF TypeOK, RequestKnows
  <2>2. \A h \in Targets : failures'[h] = failures[h]
    BY <2>1, StepFrame
  <2>3. RequestKnows(w)'
    BY <1>0, <1>1, <2>1 DEF TypeOK, RequestKnows, Busy
  <2>4. ASSUME NEW g \in Targets, Reachable(g) PROVE HostRecovers(g)'
    BY <1>0, <1>1, <2>1, <2>2, <2>4 DEF TypeOK, HostRecovers, Recovered, Busy, OneAtATime
  <2> QED
    BY <1>0, <1>1, <2>3, <2>4, OneRequestMoves
<1>6. CASE ConfigStore(w)
  <2> USE <1>6 DEF ConfigStore, ReturnEch
  <2>1. UNCHANGED failures
    BY <1>0, StepFrame DEF TypeOK
  <2>2. RequestKnows(w)'
    BY <1>0, <1>1, <2>1 DEF TypeOK, WorkerKnows, RequestKnows, Busy
  <2>3. ASSUME NEW g \in Targets, Reachable(g) PROVE HostRecovers(g)'
    BY <1>0, <1>1, <2>1, <2>3 DEF TypeOK, HostRecovers, Recovered, Busy, OneAtATime,
                                  Reachable
  <2> QED
    BY <1>0, <1>1, <2>2, <2>3, OneRequestMoves
<1>7. CASE NoEch(w)
  <2> USE <1>7 DEF NoEch
  <2>1. ~late[w] /\ pc'[w] = "failed"
    BY <1>0 DEF TypeOK, RequestKnows
  <2>2. \A h \in Targets : failures'[h] = failures[h]
    BY <2>1, StepFrame
  <2>3. RequestKnows(w)'
    BY <1>0, <1>1, <2>1 DEF TypeOK, RequestKnows, Busy
  <2>4. ASSUME NEW g \in Targets, Reachable(g) PROVE HostRecovers(g)'
    BY <1>0, <1>1, <2>1, <2>2, <2>4 DEF TypeOK, HostRecovers, Recovered, Busy, OneAtATime
  <2> QED
    BY <1>0, <1>1, <2>3, <2>4, OneRequestMoves
<1> QED
  BY <1>2, <1>3, <1>4, <1>5, <1>6, <1>7

(* What a calm network answers about a reachable target can be used.       *)
LEMMA ZoneAnswers ==
    ASSUME Survivable, NEW h \in Targets, Reachable(h)
    PROVE  /\ Answering(Zone[h] \cap CloudflareIps)
           /\ Zone[h] # {} /\ Zone[h] \cap CloudflareIps # {}
           /\ Zone[h] \cap CloudflareIps \cap Serving[h] # {}
           /\ Zone[h] \cap CloudflareIps \subseteq Serving[h] \cup BlackHoles
BY DEF Survivable, Reachable, Answering

(* A late request that queries with a stale config, or with none left to   *)
(* ask, invalidates the config; it found no addresses cached.              *)
LEMMA QueryKeeps ==
    ASSUME OneAtATime, Survivable, RIInv, NEW w \in Workers, RStep(w),
           QueryOk(w) \/ QueryFail(w) \/ QueryExhausted(w)
    PROVE  RIInv'
<1> USE DEF Goto, edgeVars, cacheVars
<1>0. /\ TypeOK /\ RTypeOK /\ WorkerKnows(w) /\ RequestKnows(w)
      /\ cf_ips # None => cf_ips \cap DohServers # {}
      /\ \A h \in Targets : Reachable(h) => HostRecovers(h)
  BY StepFacts
<1>1. IInv' /\ RTypeOK' /\ UNCHANGED late
  BY StepFrame
<1>10. pc[w] = "query" /\ host[w] \in Targets /\ Busy(w) /\ ecl[w] # None
  BY <1>0 DEF QueryOk, QueryFail, QueryExhausted, WorkerKnows, Busy
<1>2. CASE QueryOk(w)
  <2> USE <1>2 DEF QueryOk
  <2>1. UNCHANGED failures /\ pc'[w] = "retain" /\ ecl'[w] = None
    BY <1>0, StepFrame DEF TypeOK
  <2>2. PICK ip \in todo[w] : \E answer \in QueryAnswers(host[w], ip, ecl[w]) :
                                 addrs' = [addrs EXCEPT ![w] = answer]
    OBVIOUS
  <2>3. PICK answer \in QueryAnswers(host[w], ip, ecl[w]) :
                                 addrs' = [addrs EXCEPT ![w] = answer]
    BY <2>2
  <2>4. addrs'[w] = answer /\ answer # None
    BY <1>0, <1>10, <2>3, AnswersAreAddresses, NoneIsNoValue DEF TypeOK
  <2>5. calm => answer = Zone[host[w]]
    BY <2>3 DEF QueryAnswers
  <2>6. ~calm => answer \in Answers
    BY <2>3 DEF QueryAnswers
  <2>7. Reachable(host[w]) => \/ Answering(answer \cap CloudflareIps)
                              \/ answer \cap CloudflareIps = {}
    BY <1>10, <2>5, <2>6, ZoneAnswers DEF Survivable
  <2>8. RequestKnows(w)'
    BY <1>0, <1>1, <2>1, <2>4, <2>5, <2>7 DEF TypeOK, RequestKnows, Busy
  <2>9. ASSUME NEW g \in Targets, Reachable(g) PROVE HostRecovers(g)'
    BY <1>0, <1>1, <2>1, <2>9 DEF TypeOK, HostRecovers, Recovered, Busy, OneAtATime
  <2> QED
    BY <1>0, <1>1, <2>8, <2>9, OneRequestMoves
<1>3. CASE QueryFail(w)
  <2> USE <1>3 DEF QueryFail
  <2>1. UNCHANGED failures /\ pc'[w] = "query"
    BY <1>0, StepFrame DEF TypeOK
  <2>2. RequestKnows(w)'
    BY <1>0, <1>1, <2>1 DEF TypeOK, RequestKnows, Busy
  <2>3. ASSUME NEW g \in Targets, Reachable(g) PROVE HostRecovers(g)'
    <3>1. CASE failures[g] = 1 /\ host[w] = g
      <4>1. calm /\ ecl[w] = key /\ todo[w] \cap DohServers # {} /\ Zone[g] # {}
        BY <1>0, <1>10, <2>3, <3>1, ZoneAnswers DEF HostRecovers, Recovered
      <4>2. \A ip \in todo[w] : QueryFails(host[w], ip, ecl[w]) => ip \notin DohServers
        BY <3>1, <4>1 DEF QueryFails, QueryAnswers
      <4>3. todo'[w] \cap DohServers # {}
        BY <1>0, <4>1, <4>2 DEF TypeOK
      <4> QED
        BY <1>0, <1>1, <2>1, <2>3, <3>1, <4>3
           DEF TypeOK, HostRecovers, Recovered, Busy, OneAtATime
    <3>2. CASE ~(failures[g] = 1 /\ host[w] = g)
      BY <1>0, <1>1, <2>1, <2>3, <3>2 DEF TypeOK, HostRecovers, Recovered, Busy, OneAtATime
    <3> QED
      BY <3>1, <3>2
  <2> QED
    BY <1>0, <1>1, <2>2, <2>3, OneRequestMoves
<1>4. CASE QueryExhausted(w)
  <2> USE <1>4 DEF QueryExhausted
  <2>1. pc'[w] = "failed" /\ config' = None /\ todo[w] = {} /\ ips[host[w]] = None
    BY <1>0, <1>10 DEF TypeOK, WorkerKnows, RequestKnows
  <2>2. RequestKnows(w)'
    BY <1>0, <1>1, <2>1 DEF TypeOK, RequestKnows, Busy
  <2>3. ASSUME NEW g \in Targets, Reachable(g) PROVE HostRecovers(g)'
    <3>1. CASE failures'[g] = failures[g]
      BY <1>0, <1>1, <2>1, <2>3, <3>1 DEF TypeOK, HostRecovers, Recovered, Busy, OneAtATime
    <3>2. CASE failures'[g] # failures[g]
      <4>1. host[w] = g /\ late[w] /\ failures'[g] = failures[g] + 1
        BY <2>3, <3>2, StepFrame
      <4>2. failures[g] # 1
        BY <1>0, <1>10, <2>1, <2>3, <4>1 DEF HostRecovers, Recovered
      <4>3. failures[g] \in Nat /\ failures[g] <= 1
        BY <1>0, <2>3, RecoveryAssumption DEF RTypeOK, HostRecovers, RecoveryAssumption
      <4>4. failures'[g] = 1
        BY <4>1, <4>2, <4>3
      <4> QED
        BY <1>0, <1>1, <2>1, <2>3, <4>1, <4>4
           DEF TypeOK, RequestKnows, HostRecovers, Recovered, Busy, OneAtATime
    <3> QED
      BY <3>1, <3>2
  <2> QED
    BY <1>0, <1>1, <2>2, <2>3, OneRequestMoves
<1> QED
  BY <1>2, <1>3, <1>4

(* What is stored came from the network, and from a calm one if late.      *)
LEMMA StoreKeeps ==
    ASSUME OneAtATime, Survivable, RIInv, NEW w \in Workers, RStep(w),
           Retain(w) \/ IpsStore(w)
    PROVE  RIInv'
<1> USE DEF Goto, edgeVars, cacheVars
<1>0. /\ TypeOK /\ RTypeOK /\ WorkerKnows(w) /\ RequestKnows(w)
      /\ cf_ips # None => cf_ips \cap DohServers # {}
      /\ \A h \in Targets : Reachable(h) => HostRecovers(h)
  BY StepFacts
<1>1. IInv' /\ RTypeOK' /\ UNCHANGED late
  BY StepFrame
<1>2. CASE Retain(w)
  <2> DEFINE kept == addrs[w] \cap CloudflareIps
  <2> USE <1>2 DEF Retain
  <2>1. /\ addrs'[w] = kept /\ kept # None
        /\ pc'[w] = IF kept = {} THEN "failed" ELSE "ips_store"
        /\ host[w] \in Targets /\ Busy(w)
    BY <1>0, CacheAssumption DEF TypeOK, WorkerKnows, Busy
  <2>2. late[w] /\ Reachable(host[w]) =>
           kept = Zone[host[w]] \cap CloudflareIps /\ kept # {}
    BY <1>0, <2>1, ZoneAnswers DEF RequestKnows
  <2>3. \A g \in Targets : Reachable(g) => failures'[g] = failures[g]
    BY <2>1, <2>2, StepFrame
  <2>4. RequestKnows(w)'
    <3>1. pc[w] = "retain" /\ pc'[w] \in {"failed", "ips_store"}
          /\ (pc'[w] = "ips_store" => kept # {})
      BY <2>1
    <3>2. ecl'[w] = None /\ addrs'[w] # None /\ host'[w] = host[w] /\ calm' = calm
      BY <1>0, <2>1 DEF WorkerKnows
    <3>3. late'[w] => calm'
      BY <1>0, <1>1, <3>2 DEF RequestKnows
    <3>4. Reachable(host[w]) /\ pc'[w] = "ips_store"
             => Answering(addrs'[w] \cap CloudflareIps)
      <4>1. Reachable(host[w]) => Answering(kept) \/ kept = {}
        <5>1. addrs[w] # None
          BY <1>0, <3>1 DEF WorkerKnows
        <5> HIDE <1>2 DEF kept, Retain
        <5> QED
          BY <1>0, <2>1, <3>1, <5>1 DEF RequestKnows, kept
      <4>2. kept \cap CloudflareIps = kept
        OBVIOUS
      <4> QED
        BY <2>1, <3>1, <4>1, <4>2
    <3> HIDE <1>2 DEF kept, Retain
    <3> QED
      BY <3>1, <3>2, <3>3, <3>4 DEF RequestKnows, Busy, Reachable
  <2>5. ASSUME NEW g \in Targets, Reachable(g) PROVE HostRecovers(g)'
    BY <1>0, <1>1, <2>1, <2>2, <2>3, <2>5
       DEF TypeOK, HostRecovers, Recovered, Busy, OneAtATime
  <2> QED
    BY <1>0, <1>1, <2>4, <2>5, OneRequestMoves
<1>3. CASE IpsStore(w)
  <2> USE <1>3 DEF IpsStore
  <2>1. /\ UNCHANGED failures /\ pc'[w] = "get_ech"
        /\ host[w] \in Targets /\ Busy(w) /\ addrs[w] # None
        /\ \A g \in Targets : ips'[g] = IF g = host[w] THEN addrs[w] ELSE ips[g]
    BY <1>0, StepFrame DEF TypeOK, WorkerKnows, Busy
  <2>2. RequestKnows(w)'
    BY <1>0, <1>1, <2>1 DEF TypeOK, RequestKnows, Busy
  <2>3. ASSUME NEW g \in Targets, Reachable(g) PROVE HostRecovers(g)'
    <3>1. g = host[w] => Answering(addrs[w])
      BY <1>0, <2>1, <2>3 DEF RequestKnows, Answering
    <3> QED
      BY <1>0, <1>1, <2>1, <2>3, <3>1 DEF TypeOK, HostRecovers, Recovered, Busy, OneAtATime
  <2> QED
    BY <1>0, <1>1, <2>2, <2>3, OneRequestMoves
<1> QED
  BY <1>2, <1>3

(* The connect loop passes over the addresses that never answer; if it     *)
(* meets a stale config or address, it invalidates both.                   *)
LEMMA ConnectKeeps ==
    ASSUME OneAtATime, Survivable, RIInv, NEW w \in Workers, RStep(w),
           \/ ConnectDirect(w) \/ Connect(w) \/ ConnectExhausted(w)
           \/ DropConfig(w) \/ DropIps(w)
    PROVE  RIInv'
<1> USE DEF Goto, edgeVars, cacheVars
<1>0. /\ TypeOK /\ RTypeOK /\ WorkerKnows(w) /\ RequestKnows(w)
      /\ cf_ips # None => cf_ips \cap DohServers # {}
      /\ \A h \in Targets : Reachable(h) => HostRecovers(h)
  BY StepFacts
<1>1. IInv' /\ RTypeOK' /\ UNCHANGED late
  BY StepFrame
<1>2. CASE ConnectDirect(w)
  <2> USE <1>2 DEF ConnectDirect
  <2>1. pc'[w] \in {"open", "failed"} /\ host[w] \notin Targets
    BY <1>0, CacheAssumption DEF TypeOK, WorkerKnows, CacheAssumption
  <2>2. \A h \in Targets : failures'[h] = failures[h]
    BY <2>1, StepFrame
  <2>3. RequestKnows(w)'
    BY <1>0, <1>1, <2>1 DEF TypeOK, RequestKnows, Busy
  <2>4. ASSUME NEW g \in Targets, Reachable(g) PROVE HostRecovers(g)'
    BY <1>0, <1>1, <2>1, <2>2, <2>4 DEF TypeOK, HostRecovers, Recovered, Busy, OneAtATime
  <2> QED
    BY <1>0, <1>1, <2>3, <2>4, OneRequestMoves
<1>3. CASE Connect(w)
  <2> USE <1>3 DEF Connect
  <2>1. /\ pc[w] = "connect" /\ pc'[w] \in {"open", "connect", "drop_config"}
        /\ UNCHANGED failures /\ host[w] \in Targets /\ Busy(w)
        /\ ecl[w] # None /\ todo[w] \subseteq Ips
    BY <1>0, StepFrame DEF TypeOK, WorkerKnows, Busy
  <2>2. PICK ip \in todo[w] :
           /\ \E o \in ConnectOutcomes(host[w], ip, ecl[w]) :
                 /\ o = "ok" => pc'[w] = "open"
                 /\ o = "tcp_timeout" => pc'[w] = "connect"
                 /\ pc'[w] = "connect" => o = "tcp_timeout"
           /\ todo'[w] = todo[w] \ {ip}
    BY <1>0 DEF TypeOK, IsTimeout
  <2>3. calm /\ pc'[w] = "connect" => ip \in BlackHoles
    BY <2>2 DEF ConnectOutcomes
  <2>4. RequestKnows(w)'
    <3>1. late[w] /\ Reachable(host[w]) /\ pc'[w] = "connect" => Answering(todo'[w])
      BY <1>0, <2>1, <2>2, <2>3 DEF RequestKnows, Answering
    <3> QED
      BY <1>0, <1>1, <2>1, <3>1 DEF TypeOK, RequestKnows, Busy, Reachable
  <2>5. ASSUME NEW g \in Targets, Reachable(g) PROVE HostRecovers(g)'
    <3>1. CASE failures[g] = 1 /\ host[w] = g
      <4>1. /\ calm /\ ecl[w] = key
            /\ todo[w] \cap Serving[g] # {} /\ todo[w] \subseteq Serving[g] \cup BlackHoles
        BY <1>0, <2>1, <2>5, <3>1 DEF HostRecovers, Recovered
      <4>2. Serving[g] \cap BlackHoles = {}
        BY DEF Survivable
      <4>3. pc'[w] \in {"open", "connect"}
        BY <2>2, <3>1, <4>1 DEF ConnectOutcomes
      <4>4. pc'[w] = "connect" =>
               /\ todo'[w] \cap Serving[g] # {}
               /\ todo'[w] \subseteq Serving[g] \cup BlackHoles
        BY <2>2, <2>3, <4>1, <4>2
      <4> QED
        BY <1>0, <1>1, <2>1, <2>5, <3>1, <4>3, <4>4
           DEF TypeOK, HostRecovers, Recovered, Busy, OneAtATime
    <3>2. CASE ~(failures[g] = 1 /\ host[w] = g)
      BY <1>0, <1>1, <2>1, <2>5, <3>2 DEF TypeOK, HostRecovers, Recovered, Busy, OneAtATime
    <3> QED
      BY <3>1, <3>2
  <2> QED
    BY <1>0, <1>1, <2>4, <2>5, OneRequestMoves
<1>4. CASE ConnectExhausted(w)
  <2> USE <1>4 DEF ConnectExhausted
  <2>1. pc'[w] = "failed" /\ pc[w] = "connect" /\ host[w] \in Targets /\ Busy(w)
    BY <1>0 DEF TypeOK, WorkerKnows, Busy
  <2>2. ~(late[w] /\ Reachable(host[w]))
    BY <1>0, <2>1 DEF RequestKnows, Answering
  <2>3. \A g \in Targets : Reachable(g) => failures'[g] = failures[g]
    BY <2>2, StepFrame
  <2>4. RequestKnows(w)'
    BY <1>0, <1>1, <2>1 DEF TypeOK, RequestKnows, Busy
  <2>5. ASSUME NEW g \in Targets, Reachable(g) PROVE HostRecovers(g)'
    BY <1>0, <1>1, <2>1, <2>3, <2>5 DEF TypeOK, HostRecovers, Recovered, Busy, OneAtATime
  <2> QED
    BY <1>0, <1>1, <2>4, <2>5, OneRequestMoves
<1>5. CASE DropConfig(w)
  <2> USE <1>5 DEF DropConfig
  <2>1. UNCHANGED failures /\ pc'[w] = "drop_ips" /\ config' = None
    BY <1>0, StepFrame DEF TypeOK
  <2>2. RequestKnows(w)'
    BY <1>0, <1>1, <2>1 DEF TypeOK, RequestKnows, Busy
  <2>3. ASSUME NEW g \in Targets, Reachable(g) PROVE HostRecovers(g)'
    BY <1>0, <1>1, <2>1, <2>3 DEF TypeOK, HostRecovers, Recovered, Busy, OneAtATime
  <2> QED
    BY <1>0, <1>1, <2>2, <2>3, OneRequestMoves
<1>6. CASE DropIps(w)
  <2> USE <1>6 DEF DropIps
  <2>1. /\ pc'[w] = "failed" /\ pc[w] = "drop_ips" /\ config = None
        /\ host[w] \in Targets /\ Busy(w)
        /\ \A g \in Targets : ips'[g] = IF g = host[w] THEN None ELSE ips[g]
    BY <1>0 DEF TypeOK, WorkerKnows, RequestKnows, Busy
  <2>2. RequestKnows(w)'
    BY <1>0, <1>1, <2>1 DEF TypeOK, RequestKnows, Busy
  <2>3. ASSUME NEW g \in Targets, Reachable(g) PROVE HostRecovers(g)'
    <3>1. CASE failures'[g] = failures[g]
      BY <1>0, <1>1, <2>1, <2>3, <3>1 DEF TypeOK, HostRecovers, Recovered, Busy, OneAtATime
    <3>2. CASE failures'[g] # failures[g]
      <4>1. host[w] = g /\ late[w] /\ failures'[g] = failures[g] + 1
        BY <2>3, <3>2, StepFrame
      <4>2. failures[g] # 1
        BY <1>0, <2>1, <2>3, <4>1 DEF HostRecovers, Recovered
      <4>3. failures[g] \in Nat /\ failures[g] <= 1
        BY <1>0, <2>3, RecoveryAssumption DEF RTypeOK, HostRecovers, RecoveryAssumption
      <4>4. failures'[g] = 1
        BY <4>1, <4>2, <4>3
      <4> QED
        BY <1>0, <1>1, <2>1, <2>3, <4>1, <4>4
           DEF TypeOK, RequestKnows, HostRecovers, Recovered, Busy, OneAtATime
    <3> QED
      BY <3>1, <3>2
  <2> QED
    BY <1>0, <1>1, <2>2, <2>3, OneRequestMoves
<1> QED
  BY <1>2, <1>3, <1>4, <1>5, <1>6

-----------------------------------------------------------------------------
(* The invariant is inductive, for every set of hosts and addresses that   *)
(* is Survivable and a user who makes one request at a time.               *)
LEMMA RNextKeeps ==
    ASSUME OneAtATime, Survivable, RIInv, [RNext]_recoveryVars
    PROVE  RIInv'
<1>1. CASE UNCHANGED recoveryVars
  BY <1>1, RStutterKeeps
<1>2. CASE EdgeStep /\ UNCHANGED <<late, failures>>
  BY <1>2, REdgeStepKeeps
<1>3. ASSUME NEW w \in Workers, NEW h \in Hosts, ROpenBackend(w, h) PROVE RIInv'
  BY <1>3, ROpenBackendKeeps
<1>4. ASSUME NEW w \in Workers, RStep(w) PROVE RIInv'
  <2>1. Step(w)
    BY <1>4 DEF RStep
  <2>2. CASE LookupIps(w) \/ GetEch(w) \/ CfLookup(w)
    BY <1>4, <2>2, LookupsKeep
  <2>3. CASE Bootstrap(w) \/ CfStore(w)
    BY <1>4, <2>3, BootstrapKeeps
  <2>4. CASE \/ GreaseOk(w) \/ GreaseFail(w) \/ GreaseHang(w) \/ GreaseExhausted(w)
             \/ ConfigStore(w) \/ NoEch(w)
    BY <1>4, <2>4, GreaseKeeps
  <2>5. CASE QueryOk(w) \/ QueryFail(w) \/ QueryExhausted(w)
    BY <1>4, <2>5, QueryKeeps
  <2>6. CASE Retain(w) \/ IpsStore(w)
    BY <1>4, <2>6, StoreKeeps
  <2>7. CASE \/ ConnectDirect(w) \/ Connect(w) \/ ConnectExhausted(w)
             \/ DropConfig(w) \/ DropIps(w)
    BY <1>4, <2>7, ConnectKeeps
  <2> QED
    BY <2>1, <2>2, <2>3, <2>4, <2>5, <2>6, <2>7 DEF Step
<1>5. ASSUME NEW w \in Workers, RFinish(w) PROVE RIInv'
  BY <1>5, RFinishKeeps
<1> QED
  BY <1>1, <1>2, <1>3, <1>4, <1>5 DEF RNext

THEOREM RInvariance ==
    ASSUME OneAtATime, Survivable
    PROVE  RSpec => []RIInv
<1>1. RInit => RIInv
  BY RInitRIInv
<1>2. RIInv /\ [RNext]_recoveryVars => RIInv'
  BY RNextKeeps
<1> QED
  BY <1>1, <1>2, PTL DEF RSpec

(* Once the network has settled, at most one request for a reachable       *)
(* target fails, ever: the first failure drops the cached config list or   *)
(* addresses it was due to (src/backend.rs:40-45, src/ech.rs:203-204), and *)
(* what replaces them is good.                                             *)
THEOREM AtMostOneFails ==
    ASSUME OneAtATime, Survivable, MaxFailures >= 2
    PROVE  /\ RSpec => [](\A h \in Targets : Reachable(h) => failures[h] <= 1)
           /\ RSpec => []FewFailures
<1>1. RIInv => \A h \in Targets : Reachable(h) => failures[h] <= 1
  BY DEF RIInv, HostRecovers
<1>2. RIInv => FewFailures
  <2> SUFFICES ASSUME RIInv, NEW h \in Targets, Reachable(h)
               PROVE  failures[h] < MaxFailures
    BY DEF FewFailures
  <2>1. failures[h] \in Nat /\ failures[h] <= 1
    BY RecoveryAssumption DEF RIInv, RTypeOK, HostRecovers, RecoveryAssumption
  <2> QED
    BY <2>1, RecoveryAssumption DEF RecoveryAssumption
<1>3. RSpec => []RIInv
  BY RInvariance
<1> QED
  BY <1>1, <1>2, <1>3, PTL
=============================================================================
