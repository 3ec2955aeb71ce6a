---------------------------- MODULE StartupProofs ----------------------------
(***************************************************************************)
(* Proofs about Startup, for any number of proxies, ports and command      *)
(* lines: every run of main is a run of CaStore, and unless two first      *)
(* starts overlap, what CaStore promises one process holds of all of them, *)
(* and of the browsers they leave behind.                                  *)
(***************************************************************************)
EXTENDS Startup, CaStoreProofs

(* A step of a proxy is a step of CaStore by it, or leaves CaStore alone.  *)
LEMMA StepMaps ==
    ASSUME [SNext]_startupVars
    PROVE  UNCHANGED vars \/ \E p \in Procs : Step(p)
<1>1. CASE UNCHANGED startupVars
  BY <1>1 DEF startupVars
<1>2. CASE CloseBrowser
  BY <1>2 DEF CloseBrowser
<1>3. ASSUME NEW p \in Procs, SStart(p) \/ CaStep(p) PROVE Step(p)
  BY <1>3 DEF SStart, CaStep, Step
<1>4. ASSUME NEW p \in Procs, TrustOnly(p) \/ Bind(p) \/ BindFails(p) PROVE Step(p)
  BY <1>4 DEF TrustOnly, Bind, BindFails, Exit, Step
<1>5. ASSUME NEW p \in Procs, NoBrowserFound(p) \/ SEnd(p) \/ SKill(p) PROVE Step(p)
  BY <1>5 DEF NoBrowserFound, SEnd, SKill, Step
<1>6. ASSUME NEW p \in Procs,
             SkipBrowser(p) \/ LaunchChromium(p) \/ WriteUserJs(p) \/ LaunchFirefox(p)
      PROVE  UNCHANGED vars
  BY <1>6 DEF SkipBrowser, LaunchChromium, WriteUserJs, LaunchFirefox
<1> QED
  BY <1>1, <1>2, <1>3, <1>4, <1>5, <1>6 DEF SNext

(* What main adds to the local CA takes nothing away from it: a behaviour  *)
(* of Startup is one of CaStore.                                           *)
THEOREM MainImplementsCaStore == SSpec => Spec
<1>1. SInit => Init
  BY DEF SInit
<1>2. [SNext]_startupVars => [Next]_vars
  BY StepMaps DEF Next
<1> QED
  BY <1>1, <1>2, PTL DEF SSpec, Spec

-----------------------------------------------------------------------------
LEMMA ProfileType ==
    ASSUME NEW c \in CommandLines
    PROVE  Profile(c) \in Profiles
BY DEF Profile, Profiles

LEMMA InitSIInv == SInit => SIInv
<1>1. SInit => WindowInv
  BY DEF SInit, WindowInv, WindowUsesItsProxy
<1> QED
  BY <1>1, InitIInv, InitTyped, CaAssumption, StartupAssumption, ZenonT(40)
     DEF SInit, SIInv, STypeOK, Profiles, Init

LEMMA SNextTyped == ASSUME STypeOK, [SNext]_startupVars PROVE STypeOK'
<1> USE DEF STypeOK, mainVars, browserVars, startVars, AtStage, Goto
<1>0. TypeOK'
  BY StepMaps, NextTyped DEF Next
<1>1. CASE UNCHANGED startupVars
  BY <1>0, <1>1 DEF startupVars, vars
<1>2. CASE CloseBrowser
  BY <1>0, <1>2 DEF CloseBrowser, vars
<1>3. ASSUME NEW p \in Procs, SStart(p) PROVE STypeOK'
  BY <1>0, <1>3 DEF SStart, Start, TypeOK
<1>4. ASSUME NEW p \in Procs, CaStep(p) PROVE STypeOK'
  <2>1. \A q \in Procs : pc'[q] # "idle" => pc[q] # "idle"
    BY <1>4 DEF CaStep, CheckCert, CheckKey, Load, Generate, TruncateCert, WriteCert,
                TruncateKey, WriteKey, CheckTrust, Ask, Asks, Update, FailsUnwrap, Return, TypeOK
  <2> QED
    BY <1>0, <1>4, <2>1 DEF CaStep
<1>5. ASSUME NEW p \in Procs, TrustOnly(p) \/ Bind(p) \/ BindFails(p) PROVE STypeOK'
  <2>1. \A q \in Procs : pc'[q] # "idle" => pc[q] # "idle"
    BY <1>5 DEF TrustOnly, Bind, BindFails, Exit, Proceed, TypeOK
  <2> QED
    BY <1>0, <1>5, <2>1 DEF TrustOnly, Bind, BindFails, Exit
<1>6. ASSUME NEW p \in Procs, NoBrowserFound(p) \/ SEnd(p) \/ SKill(p) PROVE STypeOK'
  <2>1. \A q \in Procs : pc'[q] # "idle" => pc[q] # "idle" /\ q # p
    BY <1>6 DEF NoBrowserFound, SEnd, SKill, End, Kill, Leave, TypeOK
  <2>2. Gone(p)
    BY <1>6 DEF NoBrowserFound, SEnd, SKill
  <2> QED
    BY <1>0, <2>1, <2>2 DEF Gone
<1>7. ASSUME NEW p \in Procs, SkipBrowser(p) PROVE STypeOK'
  BY <1>0, <1>7 DEF SkipBrowser, vars
<1>8. ASSUME NEW p \in Procs, LaunchChromium(p) PROVE STypeOK'
  <2> DEFINE d == Profile(cmd[p])
             fresh == [port |-> cmd[p].port, strict |-> trusted[p]]
  <2>1. cmd[p] \in CommandLines /\ cmd[p].port \in Ports
    BY <1>8, StartupAssumption DEF LaunchChromium, Launching
  <2>2. fresh \in Browsers
    BY <2>1 DEF Browsers, TypeOK
  <2>3. d \in Profiles
    BY <2>1, ProfileType
  <2>4. chromium' \in [Profiles -> Browsers \cup {Absent}]
        /\ window' \in [Procs -> Ports \cup {Absent}]
    <3>1. CASE UNCHANGED <<window, chromium>>
      BY <3>1
    <3>2. CASE /\ chromium' = [chromium EXCEPT ![d] = IF @ = Absent THEN fresh ELSE @]
               /\ window' = [window EXCEPT ![p] = chromium'[d].port]
      <4>1. chromium' \in [Profiles -> Browsers \cup {Absent}]
        BY <3>2, <2>2
      <4>2. chromium'[d] \in Browsers
        BY <3>2, <2>2, <2>3
      <4>3. chromium'[d].port \in Ports
        BY <4>2 DEF Browsers
      <4> QED
        BY <3>2, <4>1, <4>3
    <3> QED
      BY <1>8, <3>1, <3>2 DEF LaunchChromium
  <2> QED
    BY <1>0, <1>8, <2>4 DEF LaunchChromium, vars
<1>9. ASSUME NEW p \in Procs, WriteUserJs(p) \/ LaunchFirefox(p) PROVE STypeOK'
  <2>1. cmd[p] \in CommandLines /\ cmd[p].port \in Ports /\ Profile(cmd[p]) \in Profiles
    BY <1>9, StartupAssumption, ProfileType DEF WriteUserJs, LaunchFirefox, Launching
  <2>2. CASE WriteUserJs(p)
    BY <1>0, <2>1, <2>2 DEF WriteUserJs, vars
  <2>3. CASE LaunchFirefox(p)
    BY <1>0, <2>1, <2>3 DEF LaunchFirefox, vars
  <2> QED
    BY <1>9, <2>2, <2>3
<1> QED
  BY <1>1, <1>2, <1>3, <1>4, <1>5, <1>6, <1>7, <1>8, <1>9 DEF SNext

-----------------------------------------------------------------------------
(* Until a proxy serves it has opened no window, and its end closes it.    *)
LEMMA CaStepsKeepWindows ==
    ASSUME STypeOK, WindowInv, NEW p \in Procs,
           \/ SStart(p) \/ CaStep(p) \/ TrustOnly(p) \/ Bind(p) \/ BindFails(p)
           \/ NoBrowserFound(p) \/ SEnd(p) \/ SKill(p)
    PROVE  WindowInv'
<1> USE DEF WindowInv, WindowUsesItsProxy, STypeOK, TypeOK, Goto, browserVars
<1>1. CASE SStart(p)
  BY <1>1 DEF SStart, Start
<1>2. CASE CaStep(p)
  <2>1. pc[p] # "serving" /\ \A q \in Procs \ {p} : pc'[q] = pc[q]
    BY <1>2 DEF CaStep, CheckCert, CheckKey, Load, Generate, TruncateCert, WriteCert,
                TruncateKey, WriteKey, CheckTrust, Ask, Asks, Update, FailsUnwrap, Return
  <2> QED
    BY <1>2, <2>1 DEF CaStep, startVars, mainVars
<1>3. CASE TrustOnly(p) \/ BindFails(p)
  <2>1. pc[p] # "serving" /\ \A q \in Procs \ {p} : pc'[q] = pc[q]
    BY <1>3 DEF TrustOnly, BindFails, Exit, Proceed
  <2> QED
    BY <1>3, <2>1 DEF TrustOnly, BindFails, Exit, startVars, mainVars
<1>4. CASE Bind(p)
  BY <1>4 DEF Bind, Proceed, AtStage
<1>5. CASE NoBrowserFound(p) \/ SEnd(p) \/ SKill(p)
  <2>1. Gone(p) /\ \A q \in Procs \ {p} : pc'[q] = pc[q]
    BY <1>5 DEF NoBrowserFound, SEnd, SKill, End, Kill, Leave
  <2> QED
    BY <2>1 DEF Gone
<1> QED
  BY <1>1, <1>2, <1>3, <1>4, <1>5

(* A launch shows a window with its own port, or with that of the browser  *)
(* or the user.js it finds.                                                *)
LEMMA LaunchesKeepWindows ==
    ASSUME STypeOK, WindowInv, NEW p \in Procs,
           SkipBrowser(p) \/ LaunchChromium(p) \/ WriteUserJs(p) \/ LaunchFirefox(p)
    PROVE  WindowInv'
<1> USE DEF WindowInv, WindowUsesItsProxy, STypeOK, AtStage
<1> DEFINE d == Profile(cmd[p])
<1>1. /\ cmd[p] \in CommandLines /\ cmd[p].port \in Ports /\ d \in Profiles
      /\ pc[p] = "serving" /\ UNCHANGED <<pc, cmd, trusted>>
  BY StartupAssumption, ProfileType
     DEF SkipBrowser, LaunchChromium, WriteUserJs, LaunchFirefox, Launching, vars, locals
<1>2. Exe(cmd[p]) # Absent => LaunchedWith(d, cmd[p].port)
  BY <1>1 DEF LaunchedWith
<1>3. CASE SkipBrowser(p)
  BY <1>1, <1>3 DEF SkipBrowser, browserVars
<1>4. CASE LaunchChromium(p)
  <2> DEFINE fresh == [port |-> cmd[p].port, strict |-> trusted[p]]
  <2>1. LaunchedWith(d, cmd[p].port) /\ UNCHANGED userJs
        /\ stage' = [stage EXCEPT ![p] = "accepting"]
    BY <1>2, <1>4 DEF LaunchChromium
  <2>2. CASE UNCHANGED <<window, chromium>>
    BY <1>1, <2>1, <2>2
  <2>3. CASE /\ chromium' = [chromium EXCEPT ![d] = IF @ = Absent THEN fresh ELSE @]
             /\ window' = [window EXCEPT ![p] = chromium'[d].port]
    <3>1. \A e \in Profiles : chromium'[e] # Absent => LaunchedWith(e, chromium'[e].port)
      BY <2>1, <2>3
    <3>2. LaunchedWith(d, chromium'[d].port) /\ chromium'[d].port \in Ports
      <4>1. fresh \in Browsers
        BY <1>1 DEF TypeOK, Browsers
      <4>2. \/ chromium'[d] = fresh
            \/ chromium[d] # Absent /\ chromium'[d] = chromium[d]
        BY <1>1, <2>3
      <4>3. chromium'[d] \in Browsers
        BY <1>1, <4>1, <4>2
      <4> QED
        BY <1>1, <2>1, <4>2, <4>3 DEF Browsers
    <3>3. OnePortPerProfile => window'[p] = cmd[p].port
      BY <1>1, <2>1, <2>3, <3>2 DEF OnePortPerProfile
    <3> QED
      BY <1>1, <2>1, <2>3, <3>1, <3>3
  <2> QED
    BY <1>4, <2>2, <2>3 DEF LaunchChromium
<1>5. CASE WriteUserJs(p)
  BY <1>1, <1>2, <1>5 DEF WriteUserJs
<1>6. CASE LaunchFirefox(p)
  <2>1. Exe(cmd[p]) # Absent
    BY <1>6 DEF LaunchFirefox
  <2>2. userJs[d] # Absent /\ OnePortPerProfile => userJs[d] = cmd[p].port
    BY <1>1, <1>2, <2>1 DEF OnePortPerProfile
  <2> QED
    BY <1>1, <1>6, <2>2 DEF LaunchFirefox
<1> QED
  BY <1>3, <1>4, <1>5, <1>6

LEMMA WindowKeeps ==
    ASSUME STypeOK, WindowInv, [SNext]_startupVars
    PROVE  WindowInv'
<1>1. CASE UNCHANGED startupVars
  BY <1>1 DEF startupVars, startVars, mainVars, browserVars, vars, WindowInv,
              WindowUsesItsProxy
<1>2. CASE CloseBrowser
  BY <1>2 DEF CloseBrowser, mainVars, vars, WindowInv, WindowUsesItsProxy, STypeOK
<1> QED
  BY <1>1, <1>2, CaStepsKeepWindows, LaunchesKeepWindows DEF SNext

-----------------------------------------------------------------------------
(* What a browser that checks certificates relies on.                      *)
BrowserInv ==
    \A d \in Profiles : chromium[d] # Absent /\ chromium[d].strict =>
        Settled /\ (installed = cert \/ CopyFailed)

(* Only sudo cp writes the installed certificate, from ca.pem, or fails.   *)
LEMMA InstallsCert ==
    ASSUME TypeOK, NEW p \in Procs, Step(p)
    PROVE  /\ installed' \in {installed, cert} \/ CopyFailed'
           /\ CopyFailed => CopyFailed' \/ installed' = cert
<1>1. /\ Fault \/ faults' = faults
      /\ Fault => faults' > 0
      /\ faults > 0 => faults' > 0
  BY FaultsCount
<1>2. CASE Ask(p)
  BY <1>1, <1>2 DEF Ask, CopyFailed
<1>3. CASE ~Ask(p)
  <2>1. UNCHANGED installed
    BY <1>3 DEF Step, Start, CheckCert, CheckKey, Load, Generate, TruncateCert, WriteCert,
                TruncateKey, WriteKey, CheckTrust, Update, Proceed, End, Kill, Leave, diskVars
  <2> QED
    BY <1>1, <2>1 DEF CopyFailed
<1> QED
  BY <1>2, <1>3

LEMMA SNextKeeps ==
    ASSUME SIInv, [SNext]_startupVars
    PROVE  SIInv'
<1>1. STypeOK /\ STypeOK' /\ TypeOK
  BY SNextTyped DEF SIInv, STypeOK
<1>0. WindowInv'
  BY <1>1, WindowKeeps DEF SIInv
<1>2. SUFFICES ASSUME ~overlap' PROVE IInv' /\ BrowserInv'
  BY <1>0, <1>1 DEF SIInv, BrowserInv
<1>3. ~overlap
  <2>1. ASSUME NEW p \in Procs, SStart(p) PROVE ~overlap
    BY <1>2, <2>1 DEF SStart
  <2>2. \/ UNCHANGED overlap
        \/ \E p \in Procs : SStart(p)
    BY DEF SNext, CaStep, TrustOnly, Bind, BindFails, Exit, SkipBrowser, NoBrowserFound,
           LaunchChromium, WriteUserJs, LaunchFirefox, SEnd, SKill, Gone, CloseBrowser,
           startupVars, startVars
  <2> QED
    BY <1>2, <2>1, <2>2
<1>4. IInv /\ BrowserInv
  BY <1>3 DEF SIInv, BrowserInv
<1>5. Settled /\ (installed = cert \/ CopyFailed) => Settled' /\ (installed' = cert' \/ CopyFailed')
  <2>1. [Next]_vars
    BY StepMaps DEF Next
  <2>2. CASE UNCHANGED vars
    BY <1>1, <2>1, <2>2, StaysSettled DEF vars, diskVars, CopyFailed
  <2>3. CASE \E p \in Procs : Step(p)
    <3>1. PICK p \in Procs : Step(p)
      BY <2>3
    <3>2. Settled => Settled' /\ cert' = cert
      BY <1>1, <2>1, StaysSettled
    <3>3. /\ installed' = installed \/ installed' = cert \/ CopyFailed'
          /\ CopyFailed => CopyFailed' \/ installed' = cert
      BY <1>1, <3>1, InstallsCert
    <3> QED
      BY <3>2, <3>3
  <2> QED
    BY <2>2, <2>3, StepMaps
<1>6. IInv'
  <2>1. CASE UNCHANGED vars
    BY <1>4, <2>1, StutterKeeps
  <2>2. CASE \E p \in Procs : Step(p)
    <3>1. PICK p \in Procs : Step(p)
      BY <2>2
    <3>2. StartsAlone(p)
      <4> SUFFICES ASSUME Start(p)
                   PROVE  Settled \/ \A q \in Procs \ {p} : pc[q] = "idle"
        BY DEF StartsAlone
      <4>1. pc[p] = "idle" /\ pc' = [pc EXCEPT ![p] = "check_cert"]
        BY DEF Start, Goto
      <4>2. PICK q \in Procs : SStart(q)
        <5>1. pc'[p] = "check_cert" /\ pc[p] = "idle"
          BY <1>1, <4>1 DEF TypeOK
        <5>2. ASSUME NEW q \in Procs, CaStep(q) PROVE FALSE
          BY <1>1, <4>1, <5>2
             DEF CaStep, CheckCert, CheckKey, Load, Generate, TruncateCert, WriteCert,
                 TruncateKey, WriteKey, CheckTrust, Ask, Asks, Update, FailsUnwrap, Return,
                 Goto, TypeOK
        <5>3. ASSUME NEW q \in Procs, TrustOnly(q) \/ Bind(q) \/ BindFails(q) PROVE FALSE
          BY <1>1, <4>1, <5>3 DEF TrustOnly, Bind, BindFails, Exit, Proceed, Goto, TypeOK
        <5>4. ASSUME NEW q \in Procs, NoBrowserFound(q) \/ SEnd(q) \/ SKill(q) PROVE FALSE
          BY <1>1, <4>1, <5>4
             DEF NoBrowserFound, SEnd, SKill, End, Kill, Leave, Goto, TypeOK
        <5>5. pc' # pc
          BY <5>1
        <5> QED
          BY <5>2, <5>3, <5>4, <5>5
             DEF SNext, SkipBrowser, LaunchChromium, WriteUserJs, LaunchFirefox,
                 CloseBrowser, startupVars, vars
      <4>3. q = p
        BY <1>1, <4>1, <4>2 DEF SStart, Start, Goto, TypeOK
      <4> QED
        BY <1>2, <4>2, <4>3 DEF SStart
    <3> QED
      BY <1>4, <3>1, <3>2, StepKeeps
  <2> QED
    BY <2>1, <2>2, StepMaps
<1>7. BrowserInv'
  <2>1. CASE UNCHANGED chromium
    BY <1>4, <1>5, <2>1 DEF BrowserInv
  <2>2. CASE CloseBrowser
    BY <1>1, <1>4, <1>5, <2>2 DEF CloseBrowser, BrowserInv, STypeOK
  <2>3. ASSUME NEW p \in Procs, LaunchChromium(p) PROVE BrowserInv'
    <3> DEFINE e == Profile(cmd[p])
               fresh == [port |-> cmd[p].port, strict |-> trusted[p]]
    <3>1. UNCHANGED <<cert, keyFile, installed, faults, pc>>
      BY <2>3 DEF LaunchChromium, vars, diskVars
    <3>2. (Settled' <=> Settled) /\ (CopyFailed' <=> CopyFailed)
      BY <3>1 DEF Settled, Generating, CopyFailed
    <3>3. trusted[p] => Settled /\ (installed = cert \/ CopyFailed)
      BY <1>4 DEF IInv, PairInv, TrustedIsInstalled
    <3>4. \/ UNCHANGED chromium
          \/ chromium' = [chromium EXCEPT ![e] = IF @ = Absent THEN fresh ELSE @]
      BY <2>3 DEF LaunchChromium
    <3>5. ASSUME NEW d \in Profiles, chromium'[d] # Absent, chromium'[d].strict
          PROVE  Settled /\ (installed = cert \/ CopyFailed)
      <4>1. chromium'[d] = chromium[d] \/ chromium'[d] = fresh
        BY <1>1, <3>4 DEF STypeOK
      <4> QED
        BY <1>4, <3>3, <3>5, <4>1 DEF BrowserInv
    <3> QED
      BY <3>1, <3>2, <3>5 DEF BrowserInv
  <2> QED
    BY <2>1, <2>2, <2>3
       DEF SNext, SStart, CaStep, TrustOnly, Bind, BindFails, Exit, SkipBrowser,
           NoBrowserFound, WriteUserJs, LaunchFirefox, SEnd, SKill, Gone,
           startupVars, startVars, browserVars
<1> QED
  BY <1>6, <1>7

(* The inductive invariant, for any number of proxies and browsers.        *)
THEOREM Invariance == SSpec => []SIInv
BY InitSIInv, SNextKeeps, PTL DEF SSpec

(* Every variable keeps to its type.                                       *)
THEOREM StartupTypeCorrect == SSpec => []STypeOK
<1>1. SIInv => STypeOK
  BY DEF SIInv
<1> QED
  BY <1>1, Invariance, PTL

(* Every proxy signs with the key of ca.pem.                               *)
THEOREM EveryProxySigns == SSpec => []ProxySignsForCert
<1>1. SIInv => ProxySignsForCert
  BY DEF SIInv, IInv, ProxySignsForCert
<1> QED
  BY <1>1, Invariance, PTL

(* Whoever is told the CA is trusted signs with the installed certificate. *)
THEOREM EveryTrustIsInstalled == SSpec => []ProxyTrustedIsInstalled
<1>1. SIInv => ProxyTrustedIsInstalled
  BY DEF SIInv, IInv, ProxyTrustedIsInstalled
<1> QED
  BY <1>1, Invariance, PTL

(* Unless two first starts overlap, a start panics only if a file          *)
(* operation fails (the unwraps of src/ca.rs:32-45) or after a kill.       *)
THEOREM PanicsExplained == SSpec => []ProxyPanicsOnlyAfterFault
<1>1. SIInv => ProxyPanicsOnlyAfterFault
  BY DEF SIInv, IInv, ProxyPanicsOnlyAfterFault
<1> QED
  BY <1>1, Invariance, PTL

(* Unless two first starts overlap, a Chromium that checks certificates    *)
(* finds the CA of every proxy on its port in the trust store, if nothing  *)
(* failed and nobody is rebuilding it; and no other CA is installed,       *)
(* whatever failed (launch_browser, src/browser.rs:159-195; trust_ca).     *)
THEOREM StrictAccepts == SSpec => []StrictBrowserAccepts
<1>1. SIInv => StrictBrowserAccepts
  <2> SUFFICES ASSUME SIInv, NEW d \in Profiles, NEW p \in Procs, ~overlap,
                      chromium[d] # Absent, chromium[d].strict,
                      Serves(p, chromium[d].port)
               PROVE  /\ installed = ca[p] \/ CopyFailed
                      /\ faults = 0 /\ (\A q \in Procs : pc[q] # "update") => bundle = ca[p]
    BY DEF StrictBrowserAccepts
  <2>1. Settled /\ (installed = cert \/ CopyFailed)
    BY DEF SIInv
  <2>2. ca[p] = cert
    BY DEF SIInv, IInv, SignsForCert, Serves
  <2>3. ASSUME faults = 0, \A q \in Procs : pc[q] # "update" PROVE bundle = ca[p]
    <3>1. bundle = Rebuilt
      BY <2>3 DEF SIInv, IInv, StoreUpToDate
    <3>2. installed = cert /\ cert \in KeyPairs
      BY <2>1, <2>3 DEF CopyFailed, Settled
    <3> QED
      BY <2>2, <3>1, <3>2 DEF Rebuilt
  <2> QED
    BY <2>1, <2>2, <2>3
<1> QED
  BY <1>1, Invariance, PTL

(* If no two command lines launch a browser on one profile with different  *)
(* ports, every window goes through the proxy that opened it: also one     *)
(* that an earlier proxy's browser took over, or that reads the user.js an *)
(* earlier proxy wrote (launch_browser, src/browser.rs:159-231).                   *)
THEOREM WindowsUseTheirProxy ==
    ASSUME OnePortPerProfile
    PROVE  SSpec => []WindowUsesItsProxy
<1>1. SIInv => WindowUsesItsProxy
  BY DEF SIInv, WindowInv
<1> QED
  BY <1>1, Invariance, PTL

(* A settled CA stays, whatever main does besides.                         *)
THEOREM StartupSettledStays == SSpec => SettledForGood
BY MainImplementsCaStore, SettledStays
=============================================================================
