------------------------------ MODULE StrictEch ------------------------------
(***************************************************************************)
(* What open_backend promises its callers, whatever the caches do: "Target *)
(* hosts use a strict ECH path" and "do not fall back to non-ECH DNS or    *)
(* direct TLS" (README.md:129, 137).  A stream to a target                 *)
(*   - goes to a Cloudflare address                                        *)
(*   - that Cloudflare DoH gave for this very host,                        *)
(*   - with an ECH key the edge handed out;                                *)
(* a stream to any other host is direct, to its --hosts address if it has  *)
(* one.  Target names are looked up only by a proxy that holds a key.      *)
(***************************************************************************)
EXTENDS Integers

CONSTANTS Workers, Targets, Others, Ips, CloudflareIps, Overrides, Keys, None

VARIABLES
    phase,      \* [Workers -> the stage of the worker's request]
    host,       \* [Workers -> the host it asked for]
    stream,     \* [Workers -> the backend stream it holds, or None]
    issued,     \* the ECH keys the edge has handed out so far
    answered    \* [Targets -> the addresses DoH has answered so far]

vars == <<phase, host, stream, issued, answered>>

Hosts == Targets \cup Others

EchStream(ip, k) == [route |-> "ech", to |-> ip, key |-> k]
DirectStream(a)  == [route |-> "direct", to |-> a, key |-> None]

(* A --hosts entry replaces the system resolver (the name itself).         *)
DirectAddress(h) == IF h \in DOMAIN Overrides THEN Overrides[h] ELSE h

Init ==
    /\ phase = [w \in Workers |-> "idle"]
    /\ host = [w \in Workers |-> None]
    /\ stream = [w \in Workers |-> None]
    /\ issued = {}
    /\ answered = [h \in Targets |-> {}]

Begin(w, h) ==
    /\ phase[w] = "idle"
    /\ phase' = [phase EXCEPT ![w] = "opening"]
    /\ host' = [host EXCEPT ![w] = h]
    /\ UNCHANGED <<stream, issued, answered>>

Issue(k) ==
    /\ issued' = issued \cup {k}
    /\ UNCHANGED <<phase, host, stream, answered>>

Answer(h, S) ==
    /\ issued # {}
    /\ answered' = [answered EXCEPT ![h] = @ \cup S]
    /\ UNCHANGED <<phase, host, stream, issued>>

Succeed(w) ==
    /\ phase[w] = "opening"
    /\ phase' = [phase EXCEPT ![w] = "open"]
    /\ \/ /\ host[w] \in Targets
          /\ \E ip \in answered[host[w]] \cap CloudflareIps, k \in issued :
                stream' = [stream EXCEPT ![w] = EchStream(ip, k)]
       \/ /\ host[w] \in Others
          /\ stream' = [stream EXCEPT ![w] = DirectStream(DirectAddress(host[w]))]
    /\ UNCHANGED <<host, issued, answered>>

Refuse(w) ==
    /\ phase[w] = "opening"
    /\ phase' = [phase EXCEPT ![w] = "failed"]
    /\ UNCHANGED <<host, stream, issued, answered>>

Finish(w) ==
    /\ phase[w] \in {"open", "failed"}
    /\ phase' = [phase EXCEPT ![w] = "idle"]
    /\ host' = [host EXCEPT ![w] = None]
    /\ stream' = [stream EXCEPT ![w] = None]
    /\ UNCHANGED <<issued, answered>>

Next ==
    \/ \E k \in Keys : Issue(k)
    \/ \E h \in Targets, S \in SUBSET Ips : Answer(h, S)
    \/ \E w \in Workers :
          \/ \E h \in Hosts : Begin(w, h)
          \/ Succeed(w)
          \/ Refuse(w)
          \/ Finish(w)

Spec == Init /\ [][Next]_vars

(* open_backend always returns: a request is never left opening.           *)
FairSpec == Spec /\ \A w \in Workers : WF_vars(Succeed(w) \/ Refuse(w))
=============================================================================
