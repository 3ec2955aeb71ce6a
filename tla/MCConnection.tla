---------------------------- MODULE MCConnection ----------------------------
(***************************************************************************)
(* Scripts of Connection for TLC: what a browser may ask for on one        *)
(* connection to the proxy.                                                *)
(***************************************************************************)
EXTENDS Connection

T == INSTANCE Targets

(* A host under one of the targets, and one that only ends in its letters. *)
Hosts == {<<"www", "bgm", "tv">>, <<"notbgm", "tv">>}
MCTargets == {host \in Hosts : T!is_target(host)}

Script(host, s) ==
    [method |-> s[1], host |-> host, head |-> s[2], bad |-> s[3],
     lengthAt |-> s[4], length |-> s[5], ends |-> s[6]]

(* A tunnel, requests to one host whose bodies have a Content-Length, and  *)
(* a request line of one word; of a body without one, what the BufReader   *)
(* has fetched with the head is lost.                                      *)
PoliteScripts ==
    {Script(host, s) : host \in Hosts,
        s \in {<<"CONNECT", 2, {}, 0, 0, <<5>>>>,
               <<"GET", 3, {}, 2, 2, <<5, 8>>>>,
               <<"none", 2, {}, 0, 0, <<2>>>>}}

(* Heads with a line that is not UTF-8: the request line, one before the   *)
(* Content-Length, and one after it, so that the body takes the blank line.*)
BadScripts ==
    {Script(host, s) : host \in Hosts,
        s \in {<<"CONNECT", 3, {2}, 0, 0, <<6>>>>,
               <<"GET", 3, {1}, 0, 0, <<3>>>>,
               <<"GET", 4, {2}, 3, 1, <<5>>>>,
               <<"GET", 4, {3}, 2, 1, <<5, 7>>>>}}

AllScripts == PoliteScripts \cup BadScripts

(* The hypothesis of the theorems of ConnectionProofs is met.              *)
ASSUME Scripts = AllScripts => AnnouncesLength
ASSUME MCTargets = {<<"www", "bgm", "tv">>}
=============================================================================
