----------------------------- MODULE MCEchCache -----------------------------
(***************************************************************************)
(* Instances of EchCache for TLC.  "cf1" and "cf2" are Cloudflare          *)
(* addresses, "out" is not; the --hosts file also names a target.          *)
(***************************************************************************)
EXTENDS EchCache, TLC

MCZone == [h \in Targets |-> {"cf1"}]
MCServing == [h \in Targets |-> {"cf1"}]
MCOverrides == [h \in {"bgm.tv", "example.com"} |-> "out"]
MCResolved == {{"out"}, {"cf2", "out"}}
MCAnswers == {{"cf1", "out"}, {"out"}}
WorkerSymmetry == Permutations(Workers)
=============================================================================
