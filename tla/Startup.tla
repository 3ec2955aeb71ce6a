------------------------------- MODULE Startup -------------------------------
(***************************************************************************)
(* A run of main on Linux: the local CA and its trust (CaStore), then the  *)
(* listening port, the browser it launches and the accept loop             *)
(* (src/main.rs, src/browser.rs).  Several proxies may be started in one   *)
(* directory, on the same port or on others, and browsers outlive the      *)
(* proxy that launched them.                                               *)
(*                                                                         *)
(* The browsers are external.  A Chromium-based browser started on a       *)
(* profile another one runs on hands its window over to that one, with the *)
(* proxy and the flags that one was started with; a Firefox started on a   *)
(* profile in use opens nothing; a Firefox reads user.js once, when it     *)
(* starts.                                                                 *)
(***************************************************************************)
EXTENDS CaStore, Sequences

CONSTANTS
    Ports,          \* ports proxies are started on
    CommandLines,   \* command lines, as records of port, trust_ca, browser and flags,
                    \* and home: is HOME set in the environment?
    Files,          \* paths that exist
    OnPath          \* the browser kinds `which` finds, with their paths

(* An explicit --chrome, --chromium, --edge or --firefox is in the domain  *)
(* of flags, with the path it gives, or Absent if it gives none.           *)
ASSUME StartupAssumption ==
    \A c \in CommandLines :
        /\ c.port \in Ports
        /\ c.trust_ca \in BOOLEAN /\ c.browser \in BOOLEAN /\ c.home \in BOOLEAN

VARIABLES
    cmd,        \* the command line each process was started with
    stage,      \* where it is in main, once it has bound its port
    window,     \* the proxy port of the window it opened, or Absent
    chromium,   \* the Chromium-based browser that runs on a profile, or Absent
    firefox,    \* the proxy port of the Firefox that runs on a profile, or Absent
    userJs,     \* the proxy port in a profile's user.js, or Absent
    overlap     \* has a proxy been started beside another before the CA was settled?

mainVars == <<cmd, stage, window>>
browserVars == <<chromium, firefox, userJs>>
startVars == <<mainVars, browserVars, overlap>>
startupVars == <<vars, startVars>>

-----------------------------------------------------------------------------
(* The choice of a browser                                                 *)

Kinds == <<"chrome", "chromium", "edge", "firefox">>
IsChromium(kind) == kind # "firefox"

Candidates ==
    [chrome   |-> <<"/usr/bin/google-chrome", "/usr/bin/google-chrome-stable">>,
     chromium |-> <<"/usr/bin/chromium", "/usr/bin/chromium-browser", "/snap/bin/chromium">>,
     edge     |-> <<"/usr/bin/microsoft-edge", "/usr/bin/microsoft-edge-stable">>,
     firefox  |-> <<"/usr/bin/firefox", "/usr/bin/firefox-esr">>]

FirstOr(seq, default) == IF seq = <<>> THEN default ELSE Head(seq)

find_browser(kind) ==
    FirstOr(SelectSeq(Candidates[kind], LAMBDA path : path \in Files),
            IF kind \in DOMAIN OnPath THEN OnPath[kind] ELSE Absent)

auto_detect_browser ==
    FirstOr(SelectSeq(Kinds, LAMBDA kind : find_browser(kind) # Absent), Absent)

(* The kind of browser a command line asks for, or Absent.                 *)
Request(c) ==
    FirstOr(SelectSeq(Kinds, LAMBDA kind : kind \in DOMAIN c.flags),
            IF c.browser THEN auto_detect_browser ELSE Absent)

AsksForBrowser(c) == DOMAIN c.flags # {} \/ c.browser

Exe(c) ==
    LET kind == Request(c)
    IN  IF kind = Absent THEN Absent
        ELSE IF kind \in DOMAIN c.flags /\ c.flags[kind] # Absent
             THEN c.flags[kind]
             ELSE find_browser(kind)

UnderSnap == {"/snap/bin/chromium", "/snap/bin/firefox"}

(* A snap may not use /tmp, unless HOME is not set; its wrapper scripts    *)
(* are told by their path.                                                 *)
SnapName(kind, exe) ==
    LET delegates(wrappers, dir) == exe \in wrappers /\ dir \in Files
    IN  CASE exe \in UnderSnap ->
                IF exe = "/snap/bin/firefox" THEN "firefox" ELSE "chromium"
          [] /\ exe \notin UnderSnap /\ IsChromium(kind)
             /\ delegates({"/usr/bin/chromium-browser", "/usr/bin/chromium"}, "/snap/chromium") ->
                "chromium"
          [] /\ exe \notin UnderSnap /\ kind = "firefox"
             /\ delegates({"/usr/bin/firefox"}, "/snap/firefox") ->
                "firefox"
          [] OTHER -> "none"

Profile(c) ==
    LET snap == SnapName(Request(c), Exe(c))
    IN  IF ~c.home \/ snap = "none" THEN "/tmp"
        ELSE IF snap = "firefox" THEN "snap/firefox" ELSE "snap/chromium"

Profiles == {"/tmp", "snap/chromium", "snap/firefox"}

-----------------------------------------------------------------------------
SInit ==
    /\ Init
    /\ cmd = [p \in Procs |-> Absent]
    /\ stage = [p \in Procs |-> "starting"]
    /\ window = [p \in Procs |-> Absent]
    /\ chromium = [d \in Profiles |-> Absent]
    /\ firefox = [d \in Profiles |-> Absent]
    /\ userJs = [d \in Profiles |-> Absent]
    /\ overlap = FALSE

SStart(p) ==
    /\ Start(p)
    /\ \E c \in CommandLines :
          /\ prompt'[p] = c.trust_ca
          /\ cmd' = [cmd EXCEPT ![p] = c]
    /\ overlap' = (overlap \/ (~Settled /\ \E q \in Procs \ {p} : pc[q] # "idle"))
    /\ UNCHANGED <<stage, window, browserVars>>

(* load_or_generate and trust_ca                                           *)
CaStep(p) ==
    /\ \/ CheckCert(p) \/ CheckKey(p) \/ Load(p)
       \/ Generate(p) \/ TruncateCert(p) \/ WriteCert(p)
       \/ TruncateKey(p) \/ WriteKey(p)
       \/ CheckTrust(p) \/ Ask(p) \/ Update(p)
    /\ UNCHANGED startVars

Exit(p) == Proceed(p) /\ pc'[p] = "exited" /\ UNCHANGED startVars

TrustOnly(p) == prompt[p] /\ Exit(p)

Serves(p, port) == pc[p] = "serving" /\ cmd[p].port = port

Bind(p) ==
    /\ Proceed(p)
    /\ pc'[p] = "serving"
    /\ ~\E q \in Procs : Serves(q, cmd[p].port)
    /\ stage' = [stage EXCEPT ![p] = "bound"]
    /\ UNCHANGED <<cmd, window, browserVars, overlap>>

(* The port is taken, or the system refuses it.                            *)
BindFails(p) == ~prompt[p] /\ Exit(p)

-----------------------------------------------------------------------------
(* The browser                                                             *)

Launching(p) == pc[p] = "serving" /\ stage[p] = "bound"

AtStage(p, s) == stage' = [stage EXCEPT ![p] = s]

SkipBrowser(p) ==
    /\ Launching(p)
    /\ ~AsksForBrowser(cmd[p])
    /\ AtStage(p, "accepting")
    /\ UNCHANGED <<vars, cmd, window, browserVars, overlap>>

(* The port goes with the process; browsers stay.                          *)
Gone(p) ==
    /\ cmd' = [cmd EXCEPT ![p] = Absent]
    /\ stage' = [stage EXCEPT ![p] = "starting"]
    /\ window' = [window EXCEPT ![p] = Absent]
    /\ UNCHANGED <<browserVars, overlap>>

NoBrowserFound(p) ==
    /\ Launching(p)
    /\ AsksForBrowser(cmd[p]) /\ Exe(cmd[p]) = Absent
    /\ End(p)
    /\ Gone(p)

\* Mutant: the flag is passed when the CA is trusted.
LaunchChromiumInverted(p) ==
    LET d == Profile(cmd[p])
        fresh == [port |-> cmd[p].port, strict |-> ~trusted[p]]
    IN  /\ Launching(p)
        /\ Exe(cmd[p]) # Absent /\ IsChromium(Request(cmd[p]))
        /\ AtStage(p, "accepting")
        /\ chromium' = [chromium EXCEPT ![d] = IF @ = Absent THEN fresh ELSE @]
        /\ window' = [window EXCEPT ![p] = chromium'[d].port]
        /\ UNCHANGED <<vars, cmd, firefox, userJs, overlap>>

(* --proxy-server, --user-data-dir and, unless the CA is trusted,          *)
(* --ignore-certificate-errors.  A failed spawn is only reported.          *)
LaunchChromium(p) ==
    LET d == Profile(cmd[p])
        fresh == [port |-> cmd[p].port, strict |-> trusted[p]]
    IN  /\ Launching(p)
        /\ Exe(cmd[p]) # Absent /\ IsChromium(Request(cmd[p]))
        /\ AtStage(p, "accepting")
        /\ \/ UNCHANGED <<window, chromium>>
           \/ /\ chromium' = [chromium EXCEPT ![d] = IF @ = Absent THEN fresh ELSE @]
              /\ window' = [window EXCEPT ![p] = chromium'[d].port]
        /\ UNCHANGED <<vars, cmd, firefox, userJs, overlap>>

(* A failed write is ignored.                                              *)
WriteUserJs(p) ==
    /\ Launching(p)
    /\ Exe(cmd[p]) # Absent /\ ~IsChromium(Request(cmd[p]))
    /\ AtStage(p, "spawn")
    /\ \/ userJs' = [userJs EXCEPT ![Profile(cmd[p])] = cmd[p].port]
       \/ UNCHANGED userJs
    /\ UNCHANGED <<vars, cmd, window, chromium, firefox, overlap>>

LaunchFirefox(p) ==
    LET d == Profile(cmd[p])
    IN  /\ pc[p] = "serving" /\ stage[p] = "spawn"
        /\ AtStage(p, "accepting")
        /\ \/ UNCHANGED <<window, firefox>>
           \/ /\ firefox[d] = Absent
              /\ firefox' = [firefox EXCEPT ![d] = userJs[d]]
              /\ window' = [window EXCEPT ![p] = userJs[d]]
        /\ UNCHANGED <<vars, cmd, chromium, userJs, overlap>>

(* The user closes a browser.                                              *)
CloseBrowser ==
    /\ \E d \in Profiles :
          \/ /\ chromium' = [chromium EXCEPT ![d] = Absent]
             /\ UNCHANGED firefox
          \/ /\ firefox' = [firefox EXCEPT ![d] = Absent]
             /\ UNCHANGED chromium
    /\ UNCHANGED <<vars, mainVars, userJs, overlap>>

-----------------------------------------------------------------------------
SEnd(p)  == End(p) /\ Gone(p)
SKill(p) == Kill(p) /\ Gone(p)

SNext ==
    \/ \E p \in Procs :
          \/ SStart(p) \/ CaStep(p)
          \/ TrustOnly(p) \/ Bind(p) \/ BindFails(p)
          \/ SkipBrowser(p) \/ NoBrowserFound(p)
          \/ LaunchChromium(p) \/ WriteUserJs(p) \/ LaunchFirefox(p)
          \/ SEnd(p) \/ SKill(p)
    \/ CloseBrowser

SSpec == SInit /\ [][SNext]_startupVars

-----------------------------------------------------------------------------
Browsers == [port : Ports, strict : BOOLEAN]

STypeOK ==
    /\ TypeOK
    /\ cmd \in [Procs -> CommandLines \cup {Absent}]
    /\ stage \in [Procs -> {"starting", "bound", "spawn", "accepting"}]
    /\ window \in [Procs -> Ports \cup {Absent}]
    /\ chromium \in [Profiles -> Browsers \cup {Absent}]
    /\ firefox \in [Profiles -> Ports \cup {Absent}]
    /\ userJs \in [Profiles -> Ports \cup {Absent}]
    /\ overlap \in BOOLEAN
    /\ \A p \in Procs : pc[p] # "idle" => cmd[p] \in CommandLines

(* Unless a proxy is started beside another while the directory has no     *)
(* complete CA, every proxy signs with the key of ca.pem, whoever was      *)
(* killed before, whatever failed, and whoever runs beside it.             *)
ProxySignsForCert == ~overlap => SignsForCert

(* Under the same condition a true answer of trust_ca is about the         *)
(* certificate the proxy signs with.                                       *)
ProxyTrustedIsInstalled == ~overlap => TrustedIsInstalled

(* Under the same condition a start panics only after a failed operation   *)
(* or a kill.                                                              *)
ProxyPanicsOnlyAfterFault == ~overlap => PanicsOnlyAfterFault

(* A Chromium that was told to check certificates (no                      *)
(* --ignore-certificate-errors, src/browser.rs:179) finds in the trust     *)
(* store the CA of every proxy that listens on its port: of the one that   *)
(* launched it, one that handed a window over to it, or one started after  *)
(* both were gone; as long as no first starts overlapped, nothing failed   *)
(* and no rebuild of the store is under way.  Whatever failed, no other CA *)
(* than theirs is installed.                                               *)
StrictBrowserAccepts ==
    \A d \in Profiles, p \in Procs :
        /\ ~overlap
        /\ chromium[d] # Absent /\ Serves(p, chromium[d].port)
        /\ chromium[d].strict
        => /\ installed = ca[p] \/ CopyFailed
           /\ faults = 0 /\ (\A q \in Procs : pc[q] # "update") => bundle = ca[p]

(* The window a proxy opens is "a browser with the proxy already           *)
(* configured" in "an isolated temporary profile" (README.md:15,176): it   *)
(* goes through that proxy.                                                *)
WindowUsesItsProxy ==
    \A p \in Procs : window[p] # Absent => window[p] = cmd[p].port

(* It does if all command lines that launch a browser on one profile name  *)
(* one port, which main does not see to (SharedProfile).                   *)
LaunchedWith(d, port) ==
    \E c \in CommandLines : Exe(c) # Absent /\ Profile(c) = d /\ c.port = port

OnePortPerProfile ==
    \A d \in Profiles, m, n \in Ports :
        LaunchedWith(d, m) /\ LaunchedWith(d, n) => m = n

(* What a browser shows a proxy's window with: the port some launch on its *)
(* profile gave it, a user.js that an earlier proxy left behind included.  *)
WindowInv ==
    /\ \A d \in Profiles :
          /\ chromium[d] # Absent => LaunchedWith(d, chromium[d].port)
          /\ userJs[d] # Absent => LaunchedWith(d, userJs[d])
    /\ \A p \in Procs :
          /\ stage[p] = "spawn" => pc[p] = "serving" /\ Exe(cmd[p]) # Absent
          /\ window[p] # Absent => pc[p] = "serving"
    /\ OnePortPerProfile => WindowUsesItsProxy

(* The inductive invariant of the proofs.                                  *)
SIInv ==
    /\ STypeOK
    /\ ~overlap =>
          /\ IInv
          /\ \A d \in Profiles :
                chromium[d] # Absent /\ chromium[d].strict =>
                    Settled /\ (installed = cert \/ CopyFailed)
    /\ WindowInv
=============================================================================
