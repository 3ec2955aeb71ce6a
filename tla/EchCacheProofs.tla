---------------------------- MODULE EchCacheProofs ----------------------------
(***************************************************************************)
(* Proofs about EchCache for every number of workers, targets, addresses   *)
(* and ECH keys: the type invariant, the inductive invariant IInv, that    *)
(* the cached address lists are always usable, and that open_backend       *)
(* implements StrictEch.                                                   *)
(***************************************************************************)
EXTENDS EchCache, TLAPS

-----------------------------------------------------------------------------
(* A config, an address list or a host is never taken for a missing one.   *)
LEMMA NoneIsNoValue ==
    /\ \A S \in SUBSET Ips : S # None
    /\ \A k \in Keys : k # None
    /\ \A h \in Hosts : h # None
BY CacheAssumption

(* What DoH answers is a nonempty list of addresses: parse_a_records found *)
(* at least one (src/ech.rs:183-188).                                      *)
LEMMA AnswersAreAddresses ==
    ASSUME NEW h \in Targets, NEW ip, NEW k, NEW answer \in QueryAnswers(h, ip, k)
    PROVE  answer \subseteq Ips /\ answer # {}
BY EdgeAssumption DEF EdgeAssumption, QueryAnswers

LEMMA BootstrapAnswersAreAddresses ==
    ASSUME NEW answer \in BootstrapAnswers
    PROVE  answer \subseteq Ips
BY EdgeAssumption DEF EdgeAssumption, BootstrapAnswers

LEMMA OutcomesAreTyped ==
    ASSUME NEW h, NEW ip, NEW k, NEW o \in ConnectOutcomes(h, ip, k)
    PROVE  o \in {"ok", "tcp_timeout", "handshake_timeout", "rejected"}
BY DEF ConnectOutcomes

-----------------------------------------------------------------------------
(* The inductive invariant holds at the start and is kept by every step.   *)
LEMMA InitIInv == Init => IInv
<1> SUFFICES ASSUME Init PROVE IInv
  OBVIOUS
<1>1. EdgeTypeOK
  <2>1. key \in Keys
    BY EdgeAssumption DEF Init, EdgeInit, Keys, EdgeAssumption
  <2>2. calm \in BOOLEAN
    BY Zenon DEF Init, EdgeInit
  <2> QED
    BY <2>1, <2>2 DEF EdgeTypeOK
<1>2. TypeOK
  BY <1>1 DEF Init, TypeOK, Stages
<1>3. CachedIpsUsable
  BY DEF Init, CachedIpsUsable
<1>4. ASSUME NEW w \in Workers PROVE WorkerKnows(w)
  BY <1>4 DEF Init, WorkerKnows, Busy
<1> QED
  BY <1>2, <1>3, <1>4 DEF Init, IInv

(* What a worker knows stays true when others move: the edge's keys and    *)
(* DoH's answers are never taken back.                                     *)
LEMMA Bystander ==
    ASSUME NEW v \in Workers, WorkerKnows(v), TypeOK,
           pc'[v] = pc[v], host'[v] = host[v], ecl'[v] = ecl[v],
           addrs'[v] = addrs[v], todo'[v] = todo[v], stream'[v] = stream[v],
           issued \subseteq issued',
           \A h \in Targets : answered[h] \subseteq answered'[h]
    PROVE  WorkerKnows(v)'
<1>1. Busy(v)' <=> Busy(v)
  BY DEF Busy
<1>2. Busy(v) /\ pc[v] # "direct" => answered[host[v]] \subseteq answered'[host[v]]
  BY DEF WorkerKnows
<1> QED
  BY <1>1, <1>2 DEF WorkerKnows, Busy

(* A step of worker w keeps the invariant if it keeps its parts: it does   *)
(* not touch the locals of other workers.                                  *)
Untouched(w) ==
    /\ \A v \in Workers \ {w} :
          /\ pc'[v] = pc[v] /\ host'[v] = host[v] /\ ecl'[v] = ecl[v]
          /\ addrs'[v] = addrs[v] /\ todo'[v] = todo[v] /\ stream'[v] = stream[v]
    /\ issued \subseteq issued'
    /\ \A h \in Targets : answered[h] \subseteq answered'[h]

LEMMA OneWorkerMoves ==
    ASSUME IInv, NEW w \in Workers, TypeOK', CachedIpsUsable',
           config' # None => config' \in issued',
           Untouched(w), WorkerKnows(w)'
    PROVE  IInv'
<1>1. ASSUME NEW v \in Workers, v # w PROVE WorkerKnows(v)'
  <2>1. WorkerKnows(v) /\ TypeOK
    BY DEF IInv
  <2> QED
    BY <1>1, <2>1, Bystander DEF Untouched
<1> QED
  BY <1>1 DEF IInv

LEMMA OpenBackendKeeps ==
    ASSUME IInv, NEW w \in Workers, NEW h \in Hosts, OpenBackend(w, h)
    PROVE  IInv'
<1> USE DEF OpenBackend, Goto, edgeVars, cacheVars, history
<1>1. TypeOK'
  BY DEF IInv, TypeOK, EdgeTypeOK, Stages
<1>2. CachedIpsUsable'
  BY DEF IInv, CachedIpsUsable
<1>3. Untouched(w)
  BY DEF Untouched, IInv, TypeOK
<1>4. WorkerKnows(w)'
  BY DEF IInv, TypeOK, WorkerKnows, Busy, Hosts
<1> QED
  BY <1>1, <1>2, <1>3, <1>4, OneWorkerMoves DEF IInv

(* Every step of open_backend keeps the invariant.                         *)
LEMMA StepKeeps ==
    ASSUME IInv, NEW w \in Workers, Step(w)
    PROVE  IInv'
<1> USE DEF Goto, edgeVars, cacheVars, history
<1>0. /\ TypeOK /\ CachedIpsUsable /\ WorkerKnows(w)
      /\ config # None => config \in issued
  BY DEF IInv
<1> USE <1>0
<1>1. CASE ConnectDirect(w)
  <2> USE <1>1 DEF ConnectDirect
  <2>1. TypeOK'
    BY DEF TypeOK, EdgeTypeOK, Stages, WorkerKnows, Streams
  <2>2. CachedIpsUsable'
    BY DEF CachedIpsUsable, TypeOK
  <2>3. config' # None => config' \in issued'
    BY DEF WorkerKnows
  <2>4. Untouched(w)
    BY DEF Untouched, TypeOK
  <2>5. WorkerKnows(w)'
    BY NoneIsNoValue DEF TypeOK, WorkerKnows, Busy, CachedIpsUsable
  <2> QED
    BY <2>1, <2>2, <2>3, <2>4, <2>5, OneWorkerMoves
<1>2. CASE LookupIps(w)
  <2> USE <1>2 DEF LookupIps
  <2>1. TypeOK'
    <3>1. host[w] \in Targets
      BY DEF WorkerKnows, Busy
    <3> QED
      BY <3>1 DEF TypeOK, EdgeTypeOK, Stages
  <2>2. CachedIpsUsable'
    BY DEF CachedIpsUsable, TypeOK
  <2>3. config' # None => config' \in issued'
    BY DEF WorkerKnows
  <2>4. Untouched(w)
    BY DEF Untouched, TypeOK
  <2>5. WorkerKnows(w)'
    BY NoneIsNoValue DEF TypeOK, WorkerKnows, Busy, CachedIpsUsable
  <2> QED
    BY <2>1, <2>2, <2>3, <2>4, <2>5, OneWorkerMoves
<1>3. CASE GetEch(w)
  <2> USE <1>3 DEF GetEch
  <2>1. TypeOK'
    BY DEF TypeOK, EdgeTypeOK, Stages, ReturnEch
  <2>2. CachedIpsUsable'
    BY DEF CachedIpsUsable, TypeOK, ReturnEch
  <2>3. config' # None => config' \in issued'
    BY DEF WorkerKnows, ReturnEch
  <2>4. Untouched(w)
    BY DEF Untouched, TypeOK, ReturnEch
  <2>5. WorkerKnows(w)'
    BY NoneIsNoValue DEF TypeOK, WorkerKnows, Busy, CachedIpsUsable, ReturnEch
  <2> QED
    BY <2>1, <2>2, <2>3, <2>4, <2>5, OneWorkerMoves
<1>4. CASE CfLookup(w)
  <2> USE <1>4 DEF CfLookup
  <2>1. TypeOK'
    BY DEF TypeOK, EdgeTypeOK, Stages, ReturnDohIps
  <2>2. CachedIpsUsable'
    BY DEF CachedIpsUsable, TypeOK, ReturnDohIps
  <2>3. config' # None => config' \in issued'
    BY DEF WorkerKnows, ReturnDohIps
  <2>4. Untouched(w)
    BY DEF Untouched, TypeOK, ReturnDohIps
  <2>5. WorkerKnows(w)'
    BY NoneIsNoValue DEF TypeOK, WorkerKnows, Busy, CachedIpsUsable, ReturnDohIps
  <2> QED
    BY <2>1, <2>2, <2>3, <2>4, <2>5, OneWorkerMoves
<1>5. CASE Bootstrap(w)
  <2> USE <1>5 DEF Bootstrap
  <2>1. TypeOK'
    <3>1. todo' \in [Workers -> SUBSET Ips]
      BY CacheAssumption, BootstrapAnswersAreAddresses DEF TypeOK
    <3> QED
      BY <3>1 DEF TypeOK, EdgeTypeOK, Stages
  <2>2. CachedIpsUsable'
    BY DEF CachedIpsUsable, TypeOK
  <2>3. config' # None => config' \in issued'
    BY DEF WorkerKnows
  <2>4. Untouched(w)
    BY DEF Untouched, TypeOK
  <2>5. WorkerKnows(w)'
    BY NoneIsNoValue DEF TypeOK, WorkerKnows, Busy, CachedIpsUsable
  <2> QED
    BY <2>1, <2>2, <2>3, <2>4, <2>5, OneWorkerMoves
<1>6. CASE CfStore(w)
  <2> USE <1>6 DEF CfStore
  <2>1. TypeOK'
    BY DEF TypeOK, EdgeTypeOK, Stages, ReturnDohIps
  <2>2. CachedIpsUsable'
    BY DEF CachedIpsUsable, TypeOK, ReturnDohIps
  <2>3. config' # None => config' \in issued'
    BY DEF WorkerKnows, ReturnDohIps
  <2>4. Untouched(w)
    BY DEF Untouched, TypeOK, ReturnDohIps
  <2>5. WorkerKnows(w)'
    BY NoneIsNoValue DEF TypeOK, WorkerKnows, Busy, CachedIpsUsable, ReturnDohIps
  <2> QED
    BY <2>1, <2>2, <2>3, <2>4, <2>5, OneWorkerMoves
<1>7. CASE GreaseOk(w)
  <2> USE <1>7 DEF GreaseOk
  <2>1. TypeOK'
    BY DEF TypeOK, EdgeTypeOK, Stages
  <2>2. CachedIpsUsable'
    BY DEF CachedIpsUsable, TypeOK
  <2>3. config' # None => config' \in issued'
    BY DEF WorkerKnows
  <2>4. Untouched(w)
    BY DEF Untouched, TypeOK
  <2>5. WorkerKnows(w)'
    <3>1. ecl'[w] \in issued' /\ ecl'[w] # None /\ pc'[w] = "config_store"
      BY NoneIsNoValue DEF TypeOK, EdgeTypeOK
    <3> QED
      BY <3>1 DEF TypeOK, WorkerKnows, Busy
  <2> QED
    BY <2>1, <2>2, <2>3, <2>4, <2>5, OneWorkerMoves
<1>8. CASE GreaseFail(w)
  <2> USE <1>8 DEF GreaseFail
  <2>1. TypeOK'
    BY DEF TypeOK, EdgeTypeOK, Stages
  <2>2. CachedIpsUsable'
    BY DEF CachedIpsUsable, TypeOK
  <2>3. config' # None => config' \in issued'
    BY DEF WorkerKnows
  <2>4. Untouched(w)
    BY DEF Untouched, TypeOK
  <2>5. WorkerKnows(w)'
    BY NoneIsNoValue DEF TypeOK, WorkerKnows, Busy, CachedIpsUsable
  <2> QED
    BY <2>1, <2>2, <2>3, <2>4, <2>5, OneWorkerMoves
<1>9. CASE GreaseHang(w)
  <2> USE <1>9 DEF GreaseHang
  <2>1. TypeOK'
    BY DEF TypeOK, EdgeTypeOK, Stages
  <2>2. CachedIpsUsable'
    BY DEF CachedIpsUsable, TypeOK
  <2>3. config' # None => config' \in issued'
    BY DEF WorkerKnows
  <2>4. Untouched(w)
    BY DEF Untouched, TypeOK
  <2>5. WorkerKnows(w)'
    BY NoneIsNoValue DEF TypeOK, WorkerKnows, Busy, CachedIpsUsable
  <2> QED
    BY <2>1, <2>2, <2>3, <2>4, <2>5, OneWorkerMoves
<1>10. CASE GreaseExhausted(w)
  <2> USE <1>10 DEF GreaseExhausted
  <2>1. TypeOK'
    BY DEF TypeOK, EdgeTypeOK, Stages
  <2>2. CachedIpsUsable'
    BY DEF CachedIpsUsable, TypeOK
  <2>3. config' # None => config' \in issued'
    BY DEF WorkerKnows
  <2>4. Untouched(w)
    BY DEF Untouched, TypeOK
  <2>5. WorkerKnows(w)'
    BY NoneIsNoValue DEF TypeOK, WorkerKnows, Busy, CachedIpsUsable
  <2> QED
    BY <2>1, <2>2, <2>3, <2>4, <2>5, OneWorkerMoves
<1>11. CASE ConfigStore(w)
  <2> USE <1>11 DEF ConfigStore
  <2>1. TypeOK'
    BY DEF TypeOK, EdgeTypeOK, Stages, ReturnEch, WorkerKnows
  <2>2. CachedIpsUsable'
    BY DEF CachedIpsUsable, TypeOK, ReturnEch
  <2>3. config' # None => config' \in issued'
    BY DEF WorkerKnows, ReturnEch
  <2>4. Untouched(w)
    BY DEF Untouched, TypeOK, ReturnEch
  <2>5. WorkerKnows(w)'
    BY NoneIsNoValue DEF TypeOK, WorkerKnows, Busy, CachedIpsUsable, ReturnEch
  <2> QED
    BY <2>1, <2>2, <2>3, <2>4, <2>5, OneWorkerMoves
<1>12. CASE NoEch(w)
  <2> USE <1>12 DEF NoEch
  <2>1. TypeOK'
    BY DEF TypeOK, EdgeTypeOK, Stages
  <2>2. CachedIpsUsable'
    BY DEF CachedIpsUsable, TypeOK
  <2>3. config' # None => config' \in issued'
    BY DEF WorkerKnows
  <2>4. Untouched(w)
    BY DEF Untouched, TypeOK
  <2>5. WorkerKnows(w)'
    BY NoneIsNoValue DEF TypeOK, WorkerKnows, Busy, CachedIpsUsable
  <2> QED
    BY <2>1, <2>2, <2>3, <2>4, <2>5, OneWorkerMoves
<1>13. CASE QueryOk(w)
  <2> USE <1>13 DEF QueryOk
  <2>1. TypeOK'
    <3>1. host[w] \in Targets
      BY DEF WorkerKnows, Busy
    <3>2. PICK answer :
             /\ answer \subseteq Ips
             /\ addrs' = [addrs EXCEPT ![w] = answer]
             /\ answered' = [answered EXCEPT ![host[w]] = @ \cup answer]
      BY <3>1, AnswersAreAddresses
    <3> QED
      BY <3>1, <3>2 DEF TypeOK, EdgeTypeOK, Stages
  <2>2. CachedIpsUsable'
    BY DEF CachedIpsUsable, TypeOK
  <2>3. config' # None => config' \in issued'
    BY DEF WorkerKnows
  <2>4. Untouched(w)
    BY DEF Untouched, TypeOK
  <2>5. WorkerKnows(w)'
    <3>1. host[w] \in Targets
      BY DEF WorkerKnows, Busy
    <3>2. PICK answer :
             /\ answer \subseteq Ips
             /\ addrs' = [addrs EXCEPT ![w] = answer]
             /\ answered' = [answered EXCEPT ![host[w]] = @ \cup answer]
      BY <3>1, AnswersAreAddresses
    <3>3. addrs'[w] # None /\ addrs'[w] \subseteq answered'[host'[w]]
      BY <3>1, <3>2, NoneIsNoValue DEF TypeOK
    <3> QED
      BY <3>1, <3>3 DEF TypeOK, WorkerKnows, Busy
  <2> QED
    BY <2>1, <2>2, <2>3, <2>4, <2>5, OneWorkerMoves
<1>14. CASE QueryFail(w)
  <2> USE <1>14 DEF QueryFail
  <2>1. TypeOK'
    BY DEF TypeOK, EdgeTypeOK, Stages
  <2>2. CachedIpsUsable'
    BY DEF CachedIpsUsable, TypeOK
  <2>3. config' # None => config' \in issued'
    BY DEF WorkerKnows
  <2>4. Untouched(w)
    BY DEF Untouched, TypeOK
  <2>5. WorkerKnows(w)'
    BY NoneIsNoValue DEF TypeOK, WorkerKnows, Busy, CachedIpsUsable
  <2> QED
    BY <2>1, <2>2, <2>3, <2>4, <2>5, OneWorkerMoves
<1>15. CASE QueryExhausted(w)
  <2> USE <1>15 DEF QueryExhausted
  <2>1. TypeOK'
    BY DEF TypeOK, EdgeTypeOK, Stages
  <2>2. CachedIpsUsable'
    BY DEF CachedIpsUsable, TypeOK
  <2>3. config' # None => config' \in issued'
    BY DEF WorkerKnows
  <2>4. Untouched(w)
    BY DEF Untouched, TypeOK
  <2>5. WorkerKnows(w)'
    BY NoneIsNoValue DEF TypeOK, WorkerKnows, Busy, CachedIpsUsable
  <2> QED
    BY <2>1, <2>2, <2>3, <2>4, <2>5, OneWorkerMoves
<1>16. CASE Retain(w)
  <2> USE <1>16 DEF Retain
  <2>1. TypeOK'
    <3>1. addrs[w] \subseteq Ips
      BY DEF WorkerKnows, TypeOK
    <3> QED
      BY <3>1 DEF TypeOK, EdgeTypeOK, Stages
  <2>2. CachedIpsUsable'
    BY DEF CachedIpsUsable, TypeOK
  <2>3. config' # None => config' \in issued'
    BY DEF WorkerKnows
  <2>4. Untouched(w)
    BY DEF Untouched, TypeOK
  <2>5. WorkerKnows(w)'
    BY NoneIsNoValue DEF TypeOK, WorkerKnows, Busy, CachedIpsUsable
  <2> QED
    BY <2>1, <2>2, <2>3, <2>4, <2>5, OneWorkerMoves
<1>17. CASE IpsStore(w)
  <2> USE <1>17 DEF IpsStore
  <2>1. TypeOK'
    BY DEF TypeOK, EdgeTypeOK, Stages
  <2>2. CachedIpsUsable'
    <3>1. /\ host[w] \in Targets
          /\ addrs[w] # {} /\ addrs[w] \subseteq answered[host[w]] \cap CloudflareIps
      BY DEF WorkerKnows, Busy
    <3> QED
      BY <3>1 DEF CachedIpsUsable, TypeOK
  <2>3. config' # None => config' \in issued'
    BY DEF WorkerKnows
  <2>4. Untouched(w)
    BY DEF Untouched, TypeOK
  <2>5. WorkerKnows(w)'
    BY NoneIsNoValue DEF TypeOK, WorkerKnows, Busy, CachedIpsUsable
  <2> QED
    BY <2>1, <2>2, <2>3, <2>4, <2>5, OneWorkerMoves
<1>18. CASE Connect(w)
  <2> USE <1>18 DEF Connect
  <2>1. TypeOK'
    <3>1. PICK ip \in todo[w] : \E o \in ConnectOutcomes(host[w], ip, ecl[w]) :
             /\ outcome' = [outcome EXCEPT ![w] = o]
             /\ todo' = [todo EXCEPT ![w] = @ \ {ip}]
             /\ \/ stream' = [stream EXCEPT ![w] = EchStream(ip, ecl[w])]
                \/ stream' = stream
      BY Zenon
    <3>2. outcome' \in [Workers -> {"ok", "tcp_timeout", "handshake_timeout",
                                    "rejected", None}]
      BY <3>1, OutcomesAreTyped DEF TypeOK
    <3>3. EchStream(ip, ecl[w]) \in Streams
      BY <3>1 DEF Streams, TypeOK, WorkerKnows
    <3>4. stream' \in [Workers -> Streams \cup {None}]
      BY <3>1, <3>3 DEF TypeOK
    <3>5. todo' \in [Workers -> SUBSET Ips]
      BY <3>1 DEF TypeOK
    <3>6. pc' \in [Workers -> Stages]
      BY DEF TypeOK, Stages
    <3> QED
      BY <3>2, <3>4, <3>5, <3>6 DEF TypeOK, EdgeTypeOK
  <2>2. CachedIpsUsable'
    BY DEF CachedIpsUsable, TypeOK
  <2>3. config' # None => config' \in issued'
    BY DEF WorkerKnows
  <2>4. Untouched(w)
    BY DEF Untouched, TypeOK
  <2>5. WorkerKnows(w)'
    BY NoneIsNoValue DEF TypeOK, WorkerKnows, Busy, CachedIpsUsable
  <2> QED
    BY <2>1, <2>2, <2>3, <2>4, <2>5, OneWorkerMoves
<1>19. CASE ConnectExhausted(w)
  <2> USE <1>19 DEF ConnectExhausted
  <2>1. TypeOK'
    BY DEF TypeOK, EdgeTypeOK, Stages
  <2>2. CachedIpsUsable'
    BY DEF CachedIpsUsable, TypeOK
  <2>3. config' # None => config' \in issued'
    BY DEF WorkerKnows
  <2>4. Untouched(w)
    BY DEF Untouched, TypeOK
  <2>5. WorkerKnows(w)'
    BY NoneIsNoValue DEF TypeOK, WorkerKnows, Busy, CachedIpsUsable
  <2> QED
    BY <2>1, <2>2, <2>3, <2>4, <2>5, OneWorkerMoves
<1>20. CASE DropConfig(w)
  <2> USE <1>20 DEF DropConfig
  <2>1. TypeOK'
    BY DEF TypeOK, EdgeTypeOK, Stages
  <2>2. CachedIpsUsable'
    BY DEF CachedIpsUsable, TypeOK
  <2>3. config' # None => config' \in issued'
    BY DEF WorkerKnows
  <2>4. Untouched(w)
    BY DEF Untouched, TypeOK
  <2>5. WorkerKnows(w)'
    BY NoneIsNoValue DEF TypeOK, WorkerKnows, Busy, CachedIpsUsable
  <2> QED
    BY <2>1, <2>2, <2>3, <2>4, <2>5, OneWorkerMoves
<1>21. CASE DropIps(w)
  <2> USE <1>21 DEF DropIps
  <2>1. TypeOK'
    BY DEF TypeOK, EdgeTypeOK, Stages
  <2>2. CachedIpsUsable'
    BY DEF CachedIpsUsable, TypeOK
  <2>3. config' # None => config' \in issued'
    BY DEF WorkerKnows
  <2>4. Untouched(w)
    BY DEF Untouched, TypeOK
  <2>5. WorkerKnows(w)'
    BY NoneIsNoValue DEF TypeOK, WorkerKnows, Busy, CachedIpsUsable
  <2> QED
    BY <2>1, <2>2, <2>3, <2>4, <2>5, OneWorkerMoves
<1> QED
  BY <1>1, <1>2, <1>3, <1>4, <1>5, <1>6, <1>7, <1>8, <1>9, <1>10, <1>11, <1>12, <1>13, <1>14, <1>15, <1>16, <1>17, <1>18, <1>19, <1>20, <1>21 DEF Step

LEMMA FinishKeeps ==
    ASSUME IInv, NEW w \in Workers, Finish(w)
    PROVE  IInv'
<1> USE DEF Finish, Goto, edgeVars, cacheVars, history
<1>1. TypeOK'
  BY DEF IInv, TypeOK, EdgeTypeOK, Stages
<1>2. CachedIpsUsable'
  BY DEF IInv, CachedIpsUsable
<1>3. Untouched(w)
  BY DEF Untouched, IInv, TypeOK
<1>4. WorkerKnows(w)'
  BY DEF IInv, TypeOK, WorkerKnows, Busy
<1> QED
  BY <1>1, <1>2, <1>3, <1>4, OneWorkerMoves DEF IInv

(* The edge rotates its key or settles; the proxy's state stays as it is.  *)
LEMMA EdgeStepKeeps ==
    ASSUME IInv, EdgeStep
    PROVE  IInv'
<1> USE DEF EdgeStep, cacheVars, history
<1>1. EdgeTypeOK'
  <2>1. key' \in Keys
    BY EdgeAssumption
       DEF IInv, TypeOK, EdgeTypeOK, RotateKey, Settle, Keys, EdgeAssumption
  <2>2. calm' \in BOOLEAN
    BY Zenon DEF IInv, TypeOK, EdgeTypeOK, RotateKey, Settle
  <2> QED
    BY <2>1, <2>2 DEF EdgeTypeOK
<1>2. TypeOK'
  BY <1>1 DEF IInv, TypeOK
<1>3. CachedIpsUsable'
  BY DEF IInv, CachedIpsUsable
<1>4. ASSUME NEW w \in Workers PROVE WorkerKnows(w)'
  BY <1>4, Bystander DEF IInv
<1> QED
  BY <1>2, <1>3, <1>4 DEF IInv

LEMMA StutterKeeps ==
    ASSUME IInv, UNCHANGED vars
    PROVE  IInv'
BY DEF vars, edgeVars, cacheVars, history, IInv, TypeOK, EdgeTypeOK,
       CachedIpsUsable, WorkerKnows, Busy

LEMMA NextKeeps ==
    ASSUME IInv, [Next]_vars
    PROVE  IInv'
BY OpenBackendKeeps, StepKeeps, FinishKeeps, EdgeStepKeeps, StutterKeeps DEF Next

(* The invariant holds in every reachable state.                           *)
THEOREM Invariance == Spec => []IInv
BY InitIInv, NextKeeps, PTL DEF Spec

(* Every variable keeps to its type (TypeOK), however many workers share   *)
(* the caches.                                                             *)
THEOREM TypeCorrect == Spec => []TypeOK
<1>1. IInv => TypeOK
  BY DEF IInv
<1> QED
  BY <1>1, Invariance, PTL

(* No interleaving of lookups, stores and invalidations leaves an unusable *)
(* list in EchCache.ips: an empty one, one with an address outside         *)
(* Cloudflare's ranges, or one that belongs to another host.               *)
THEOREM CacheSafe == Spec => []CachedIpsUsable
<1>1. IInv => CachedIpsUsable
  BY DEF IInv
<1> QED
  BY <1>1, Invariance, PTL

-----------------------------------------------------------------------------
(* Refinement: open_backend keeps the promise of StrictEch.                *)

LEMMA InitRefines == Init => Abs!Init
BY DEF Init, Abs!Init, Phase

(* The phase of a worker, as StrictEch sees it, follows its pc alone.      *)
LEMMA PhaseFollows ==
    ASSUME TypeOK, NEW w \in Workers, NEW stage, pc' = [pc EXCEPT ![w] = stage]
    PROVE  [v \in Workers |-> Phase(pc'[v])]
             = [[v \in Workers |-> Phase(pc[v])] EXCEPT ![w] = Phase(stage)]
BY DEF TypeOK, Phase

(* A step inside open_backend is invisible to StrictEch.                   *)
LEMMA Quiet ==
    ASSUME TypeOK, NEW w \in Workers, NEW stage, Busy(w), Goto(w, stage),
           Phase(stage) = "opening", UNCHANGED <<host, stream, history>>
    PROVE  UNCHANGED Abs!vars
<1>1. Phase(pc[w]) = "opening"
  BY DEF Phase, Busy
<1>2. \A v \in Workers : Phase(pc'[v]) = Phase(pc[v])
  BY <1>1 DEF Goto, TypeOK
<1> QED
  BY <1>2 DEF Abs!vars, history

(* An error that open_backend returns is a refusal.                        *)
LEMMA Failure ==
    ASSUME TypeOK, NEW w \in Workers, Busy(w), Goto(w, "failed"),
           UNCHANGED <<host, stream, history>>
    PROVE  Abs!Refuse(w)
<1>1. Phase(pc[w]) = "opening" /\ Phase("failed") = "failed"
  BY DEF Phase, Busy
<1>2. [v \in Workers |-> Phase(pc[v])]'
        = [[v \in Workers |-> Phase(pc[v])] EXCEPT ![w] = "failed"]
  BY <1>1, PhaseFollows DEF Goto
<1> QED
  BY <1>1, <1>2 DEF Abs!Refuse, history

(* The connect loop: a stream goes to an address DoH gave for the host, is *)
(* Cloudflare's, and uses a key the edge handed out.                       *)
LEMMA ConnectRefines ==
    ASSUME IInv, NEW w \in Workers, Connect(w)
    PROVE  [Abs!Next]_(Abs!vars)
<1>1. /\ TypeOK /\ WorkerKnows(w) /\ pc[w] = "connect" /\ Busy(w)
      /\ UNCHANGED <<host, history>>
  BY DEF IInv, Connect, Busy, history
<1>2. PICK ip \in todo[w] :
         \/ Goto(w, "open") /\ stream' = [stream EXCEPT ![w] = EchStream(ip, ecl[w])]
         \/ UNCHANGED pc /\ UNCHANGED stream
         \/ Goto(w, "drop_config") /\ UNCHANGED stream
  BY DEF Connect
<1>3. CASE Goto(w, "open") /\ stream' = [stream EXCEPT ![w] = EchStream(ip, ecl[w])]
  <2>1. /\ host[w] \in Targets
        /\ ip \in answered[host[w]] \cap CloudflareIps
        /\ ecl[w] \in issued
    BY <1>1 DEF WorkerKnows
  <2>2. [v \in Workers |-> Phase(pc[v])]'
          = [[v \in Workers |-> Phase(pc[v])] EXCEPT ![w] = "open"]
    BY <1>1, <1>3, PhaseFollows DEF Goto, Phase
  <2>3. Phase(pc[w]) = "opening"
    BY <1>1 DEF Phase
  <2>4. Abs!EchStream(ip, ecl[w]) = EchStream(ip, ecl[w])
    BY DEF EchStream, Abs!EchStream
  <2>5. Abs!Succeed(w)
    BY <1>1, <1>3, <2>1, <2>2, <2>3, <2>4 DEF Abs!Succeed, history
  <2> QED
    BY <2>5 DEF Abs!Next
<1>4. CASE UNCHANGED pc /\ UNCHANGED stream
  BY <1>1, <1>4 DEF Abs!vars, history
<1>5. CASE Goto(w, "drop_config") /\ UNCHANGED stream
  BY <1>1, <1>5, Quiet DEF Phase
<1> QED
  BY <1>2, <1>3, <1>4, <1>5

LEMMA ConnectDirectRefines ==
    ASSUME IInv, NEW w \in Workers, ConnectDirect(w)
    PROVE  Abs!Next
<1>1. /\ TypeOK /\ host[w] \in Others /\ pc[w] = "direct" /\ Busy(w)
      /\ UNCHANGED <<host, history>>
  BY DEF IInv, WorkerKnows, ConnectDirect, Busy, history
<1>2. CASE Goto(w, "failed") /\ UNCHANGED stream
  BY <1>1, <1>2, Failure DEF Abs!Next
<1>3. CASE /\ Goto(w, "open")
           /\ stream' = [stream EXCEPT ![w] = DirectStream(DirectAddress(host[w]))]
  <2>1. [v \in Workers |-> Phase(pc[v])]'
          = [[v \in Workers |-> Phase(pc[v])] EXCEPT ![w] = "open"]
    BY <1>1, <1>3, PhaseFollows DEF Goto, Phase
  <2>2. Phase(pc[w]) = "opening"
    BY <1>1 DEF Phase
  <2>3. Abs!DirectStream(Abs!DirectAddress(host[w]))
          = DirectStream(DirectAddress(host[w]))
    BY DEF DirectStream, DirectAddress, Abs!DirectStream, Abs!DirectAddress
  <2>4. Abs!Succeed(w)
    BY <1>1, <1>3, <2>1, <2>2, <2>3 DEF Abs!Succeed, history
  <2> QED
    BY <2>4 DEF Abs!Next
<1> QED
  BY <1>2, <1>3 DEF ConnectDirect

LEMMA GreaseOkRefines ==
    ASSUME IInv, NEW w \in Workers, GreaseOk(w)
    PROVE  Abs!Next
<1>1. /\ TypeOK /\ key \in Keys /\ pc[w] = "grease"
      /\ Goto(w, "config_store") /\ issued' = issued \cup {key}
      /\ UNCHANGED <<host, stream, answered>>
  BY DEF IInv, TypeOK, EdgeTypeOK, GreaseOk
<1>2. \A v \in Workers : Phase(pc'[v]) = Phase(pc[v])
  BY <1>1 DEF Goto, TypeOK, Phase
<1>3. Abs!Issue(key)
  BY <1>1, <1>2 DEF Abs!Issue
<1> QED
  BY <1>1, <1>3 DEF Abs!Next

LEMMA QueryOkRefines ==
    ASSUME IInv, NEW w \in Workers, QueryOk(w)
    PROVE  Abs!Next
<1>1. /\ TypeOK /\ pc[w] = "query" /\ Goto(w, "retain")
      /\ host[w] \in Targets /\ issued # {}
      /\ UNCHANGED <<host, stream, issued>>
  BY DEF IInv, QueryOk, WorkerKnows, Busy
<1>2. PICK S \in SUBSET Ips : answered' = [answered EXCEPT ![host[w]] = @ \cup S]
  BY <1>1, AnswersAreAddresses DEF QueryOk
<1>3. \A v \in Workers : Phase(pc'[v]) = Phase(pc[v])
  BY <1>1 DEF Goto, TypeOK, Phase
<1>4. Abs!Answer(host[w], S)
  BY <1>1, <1>2, <1>3 DEF Abs!Answer
<1> QED
  BY <1>1, <1>4 DEF Abs!Next

LEMMA StepRefines ==
    ASSUME IInv, NEW w \in Workers, Step(w)
    PROVE  [Abs!Next]_(Abs!vars)
<1>0. TypeOK
  BY DEF IInv
<1>1. CASE \/ GreaseExhausted(w) \/ NoEch(w) \/ QueryExhausted(w) \/ Retain(w)
           \/ ConnectExhausted(w) \/ DropIps(w)
  <2>1. Busy(w) /\ UNCHANGED <<host, stream, history>>
    BY <1>1 DEF GreaseExhausted, NoEch, QueryExhausted, Retain, ConnectExhausted,
                DropIps, Busy
  <2>2. Goto(w, "failed") \/ Goto(w, "no_ech") \/ Goto(w, "ips_store")
    BY <1>1 DEF GreaseExhausted, NoEch, QueryExhausted, Retain, ConnectExhausted,
                DropIps
  <2>3. CASE Goto(w, "failed")
    BY <1>0, <2>1, <2>3, Failure DEF Abs!Next
  <2>4. CASE Goto(w, "no_ech") \/ Goto(w, "ips_store")
    BY <1>0, <2>1, <2>4, Quiet DEF Phase
  <2> QED
    BY <2>2, <2>3, <2>4
<1>2. CASE \/ LookupIps(w) \/ GetEch(w) \/ CfLookup(w) \/ Bootstrap(w) \/ CfStore(w)
           \/ GreaseHang(w) \/ ConfigStore(w) \/ IpsStore(w) \/ DropConfig(w)
  <2>1. Busy(w) /\ UNCHANGED <<host, stream, history>>
    BY <1>2 DEF LookupIps, GetEch, CfLookup, Bootstrap, CfStore, GreaseHang,
                ConfigStore, IpsStore, DropConfig, Busy
  <2>2. \E stage \in {"get_ech", "cf_lookup", "connect", "grease", "query",
                      "bootstrap", "cf_store", "hung", "drop_ips"} : Goto(w, stage)
    BY <1>2 DEF LookupIps, GetEch, CfLookup, Bootstrap, CfStore, GreaseHang,
                ConfigStore, IpsStore, DropConfig, ReturnEch, ReturnDohIps
  <2> QED
    BY <1>0, <2>1, <2>2, Quiet DEF Phase
<1>3. CASE GreaseFail(w) \/ QueryFail(w)
  BY <1>3 DEF GreaseFail, QueryFail, Abs!vars, history
<1> QED
  BY <1>1, <1>2, <1>3, ConnectRefines, ConnectDirectRefines, GreaseOkRefines,
     QueryOkRefines DEF Step

LEMMA OpenBackendRefines ==
    ASSUME IInv, NEW w \in Workers, NEW h \in Hosts, OpenBackend(w, h)
    PROVE  Abs!Next
<1>1. PICK stage \in {"lookup_ips", "direct"} : Goto(w, stage)
  BY DEF OpenBackend
<1>2. [v \in Workers |-> Phase(pc[v])]'
        = [[v \in Workers |-> Phase(pc[v])] EXCEPT ![w] = "opening"]
  BY <1>1, PhaseFollows DEF Goto, Phase, IInv
<1>3. Abs!Begin(w, h)
  BY <1>2 DEF OpenBackend, Abs!Begin, Phase, history
<1> QED
  BY <1>3 DEF Abs!Next, Hosts, Abs!Hosts

LEMMA FinishRefines ==
    ASSUME IInv, NEW w \in Workers, Finish(w)
    PROVE  Abs!Next
<1>1. [v \in Workers |-> Phase(pc[v])]'
        = [[v \in Workers |-> Phase(pc[v])] EXCEPT ![w] = "idle"]
  BY PhaseFollows DEF Finish, Goto, Phase, IInv
<1>2. Abs!Finish(w)
  BY <1>1 DEF Finish, Abs!Finish, Phase, history
<1> QED
  BY <1>2 DEF Abs!Next

LEMMA NextRefines ==
    ASSUME IInv, [Next]_vars
    PROVE  [Abs!Next]_(Abs!vars)
<1>1. CASE EdgeStep \/ UNCHANGED vars
  BY <1>1 DEF EdgeStep, vars, Abs!vars, history
<1>2. CASE \E w \in Workers : (\E h \in Hosts : OpenBackend(w, h)) \/ Step(w) \/ Finish(w)
  BY <1>2, OpenBackendRefines, StepRefines, FinishRefines
<1> QED
  BY <1>1, <1>2 DEF Next

(* open_backend implements StrictEch: a target is only ever reached over   *)
(* ECH, with a key of the edge, at a Cloudflare address that DoH gave for  *)
(* this host, whatever its caches hold and however many threads use them.  *)
THEOREM Refinement == Spec => ImplementsStrictEch
BY InitRefines, NextRefines, Invariance, PTL DEF Spec, ImplementsStrictEch, Abs!Spec

-----------------------------------------------------------------------------
(* A worker's step does not touch what another one works with.             *)
LEMMA StepsApart ==
    ASSUME NEW v \in Workers, NEW w \in Workers, v # w, TypeOK, Step(v)
    PROVE  UNCHANGED <<pc[w], ecl[w], addrs[w], todo[w]>>
<1> USE DEF TypeOK, Goto
<1>1. CASE LookupIps(v) \/ GetEch(v) \/ CfLookup(v) \/ Bootstrap(v) \/ CfStore(v)
  BY <1>1 DEF LookupIps, GetEch, ReturnEch, CfLookup, Bootstrap, CfStore, ReturnDohIps
<1>2. CASE GreaseOk(v) \/ GreaseFail(v) \/ GreaseHang(v) \/ GreaseExhausted(v)
  BY <1>2 DEF GreaseOk, GreaseFail, GreaseHang, GreaseExhausted
<1>3. CASE ConfigStore(v) \/ NoEch(v) \/ Retain(v) \/ IpsStore(v)
  BY <1>3 DEF ConfigStore, ReturnEch, NoEch, Retain, IpsStore
<1>4. CASE QueryOk(v) \/ QueryFail(v) \/ QueryExhausted(v)
  BY <1>4 DEF QueryOk, QueryFail, QueryExhausted
<1>5. CASE ConnectDirect(v) \/ Connect(v) \/ ConnectExhausted(v) \/ DropConfig(v) \/ DropIps(v)
  BY <1>5 DEF ConnectDirect, Connect, ConnectExhausted, DropConfig, DropIps
<1> QED
  BY <1>1, <1>2, <1>3, <1>4, <1>5 DEF Step

LEMMA StepAdvances ==
    ASSUME IInv, NEW w \in Workers, Step(w)
    PROVE  Advances(w)
<1> USE DEF Goto, Advances, Lacks, StagesLeft
<1>0. TypeOK /\ WorkerKnows(w)
  BY DEF IInv
<1>1. CASE LookupIps(w)
  BY <1>0, <1>1 DEF TypeOK, WorkerKnows, LookupIps
<1>2. CASE GetEch(w)
  BY <1>0, <1>2 DEF TypeOK, WorkerKnows, GetEch, ReturnEch
<1>3. CASE CfLookup(w)
  BY <1>0, <1>3 DEF TypeOK, WorkerKnows, CfLookup, ReturnDohIps
<1>4. CASE Bootstrap(w)
  BY <1>0, <1>4 DEF TypeOK, Bootstrap
<1>5. CASE CfStore(w)
  BY <1>0, <1>5 DEF TypeOK, CfStore, ReturnDohIps
<1>6. CASE GreaseOk(w)
  <2>1. key # None
    BY <1>0, NoneIsNoValue DEF TypeOK, EdgeTypeOK
  <2> QED
    BY <1>0, <1>6, <2>1 DEF TypeOK, WorkerKnows, GreaseOk
<1>7. CASE GreaseFail(w)
  BY <1>0, <1>7 DEF TypeOK, GreaseFail
<1>8. CASE GreaseHang(w)
  BY <1>0, <1>8 DEF TypeOK, GreaseHang
<1>9. CASE GreaseExhausted(w)
  BY <1>0, <1>9 DEF TypeOK, GreaseExhausted
<1>10. CASE ConfigStore(w)
  BY <1>0, <1>10 DEF TypeOK, WorkerKnows, ConfigStore, ReturnEch
<1>11. CASE NoEch(w)
  BY <1>0, <1>11 DEF TypeOK, NoEch
<1>12. CASE QueryOk(w)
  <2>1. host[w] \in Targets /\ addrs[w] = None /\ ecl[w] # None
    BY <1>0, <1>12 DEF WorkerKnows, Busy, QueryOk
  <2>2. PICK answer : answer \subseteq Ips /\ addrs' = [addrs EXCEPT ![w] = answer]
    BY <1>12, <2>1, AnswersAreAddresses DEF QueryOk
  <2>3. addrs'[w] # None
    BY <1>0, <2>2, NoneIsNoValue DEF TypeOK
  <2> QED
    BY <1>0, <1>12, <2>1, <2>3 DEF TypeOK, QueryOk
<1>13. CASE QueryFail(w)
  BY <1>0, <1>13 DEF TypeOK, QueryFail
<1>14. CASE QueryExhausted(w)
  BY <1>0, <1>14 DEF TypeOK, QueryExhausted
<1>15. CASE Retain(w)
  <2>1. addrs[w] # None /\ addrs[w] \cap CloudflareIps # None
    BY <1>0, <1>15, CacheAssumption DEF TypeOK, WorkerKnows, Retain
  <2> QED
    BY <1>0, <1>15, <2>1 DEF TypeOK, Retain
<1>16. CASE IpsStore(w)
  BY <1>0, <1>16 DEF TypeOK, IpsStore
<1>17. CASE Connect(w)
  BY <1>0, <1>17 DEF TypeOK, Connect
<1>18. CASE ConnectExhausted(w)
  BY <1>0, <1>18 DEF TypeOK, ConnectExhausted
<1>19. CASE DropConfig(w)
  BY <1>0, <1>19 DEF TypeOK, DropConfig
<1>20. CASE DropIps(w)
  BY <1>0, <1>20 DEF TypeOK, DropIps
<1>21. CASE ConnectDirect(w)
  BY <1>0, <1>21 DEF TypeOK, ConnectDirect
<1> QED
  BY <1>1, <1>2, <1>3, <1>4, <1>5, <1>6, <1>7, <1>8, <1>9, <1>10, <1>11, <1>12, <1>13,
     <1>14, <1>15, <1>16, <1>17, <1>18, <1>19, <1>20, <1>21 DEF Step

(* No interleaving with other workers can send a request round: each of    *)
(* its steps lowers what it lacks, the stages it has before it, or the     *)
(* addresses left to try, in this order.                                   *)
THEOREM Advancing == Spec => RequestAdvances
<1>1. ASSUME IInv, [Next]_vars, ~UNCHANGED vars, NEW w \in Workers, Busy(w)
      PROVE  UNCHANGED <<pc[w], ecl[w], addrs[w], todo[w]>> \/ Advances(w)
  <2>1. CASE EdgeStep
    BY <2>1 DEF EdgeStep
  <2>2. ASSUME NEW v \in Workers, NEW h \in Hosts, OpenBackend(v, h)
        PROVE  UNCHANGED <<pc[w], ecl[w], addrs[w], todo[w]>>
    BY <1>1, <2>2 DEF IInv, TypeOK, Busy, OpenBackend, Goto
  <2>3. ASSUME NEW v \in Workers, Step(v)
        PROVE  UNCHANGED <<pc[w], ecl[w], addrs[w], todo[w]>> \/ Advances(w)
    BY <1>1, <2>3, StepAdvances, StepsApart DEF IInv
  <2>4. ASSUME NEW v \in Workers, Finish(v)
        PROVE  UNCHANGED <<pc[w], ecl[w], addrs[w], todo[w]>>
    BY <1>1, <2>4 DEF IInv, TypeOK, Busy, Finish, Goto
  <2> QED
    BY <1>1, <2>1, <2>2, <2>3, <2>4 DEF Next
<1>2. IInv /\ [Next]_vars =>
         [\A w \in Workers :
             Busy(w) => UNCHANGED <<pc[w], ecl[w], addrs[w], todo[w]>> \/ Advances(w)]_vars
  BY <1>1
<1> QED
  BY <1>2, Invariance, PTL DEF Spec, RequestAdvances
=============================================================================
