---------------------------- MODULE MCEchRecovery ----------------------------
(***************************************************************************)
(* Instances of EchRecovery for TLC.  bgm.tv can be reached once the       *)
(* network is calm; chii.in is published at an address that refuses it.    *)
(* "dead" is a Cloudflare address whose host has gone: connecting to it    *)
(* times out.                                                              *)
(***************************************************************************)
EXTENDS EchRecovery

MCZone == [h \in Targets |-> IF h = "bgm.tv" THEN {"cf1", "dead"} ELSE {"cf2"}]
MCServing == [h \in Targets |-> IF h = "bgm.tv" THEN {"cf1"} ELSE {}]
MCOverrides == [h \in {} |-> "cf1"]

(* Bootstrap answers and stale A records that hold a working address.      *)
LiveResolved == {{"cf2", "dead"}}
StaleAnswers == {{"cf2"}}

(* The hypotheses of the theorems of EchRecoveryProofs are met with these. *)
ASSUME Answers = StaleAnswers => Survivable

(* Stale A records that hold none.                                         *)
DeadAnswers == {{"dead"}}

(* A records with two working addresses.                                   *)
TwoAnswers == {{"cf1", "cf2"}}
=============================================================================
