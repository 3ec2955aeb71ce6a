------------------------------ MODULE MCStartup ------------------------------
(***************************************************************************)
(* Instances of Startup for TLC: two ports and a machine on which Chromium *)
(* is a snap behind its wrapper script and Firefox is found through PATH.  *)
(***************************************************************************)
EXTENDS Startup, TLC

ProcSymmetry == Permutations(Procs)

NoFlags == [kind \in {} |-> Absent]

Command(port, trust_ca, browser, flags) ==
    [port |-> port, trust_ca |-> trust_ca, browser |-> browser, flags |-> flags, home |-> TRUE]

TrustCommand   == Command("10721", TRUE, FALSE, NoFlags)
AutoCommand    == Command("10721", FALSE, TRUE, NoFlags)
PlainCommand   == Command("10721", FALSE, FALSE, NoFlags)
EdgeCommand    == Command("8080", FALSE, TRUE, [kind \in {"edge", "firefox"} |-> Absent])
FirefoxCommand ==
    [Command("8080", FALSE, FALSE, [kind \in {"firefox"} |-> Absent]) EXCEPT !.home = FALSE]
PathCommand    == Command("8080", FALSE, FALSE, [kind \in {"chrome"} |-> "/snap/bin/chromium"])

(* Every way through main: --trust-ca, a browser found on its own, none    *)
(* asked for, one that is not installed, and a Firefox, started without    *)
(* the HOME its profile would be put under.                                *)
MCCommandLines == {TrustCommand, AutoCommand, PlainCommand, EdgeCommand, FirefoxCommand}

(* What WindowUsesItsProxy takes holds of these, though two ports are used.*)
ASSUME CommandLines = MCCommandLines => OnePortPerProfile

(* Two proxies on two ports that launch the same browser.                  *)
TwoPorts == {AutoCommand, PathCommand}

MCFiles == {"/usr/bin/chromium-browser", "/snap/bin/chromium", "/snap/chromium"}
MCOnPath == [kind \in {"firefox"} |-> "/snap/bin/firefox"]
=============================================================================
