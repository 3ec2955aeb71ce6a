---------------------------- MODULE CaStoreProofs ----------------------------
(***************************************************************************)
(* Proofs about CaStore, for any number of processes, kills and failed     *)
(* operations: a CA that is settled on disk stays; and if until then       *)
(* processes start one at a time, each signs for the certificate in        *)
(* ca.pem, however often it was killed or failed and was restarted.        *)
(***************************************************************************)
EXTENDS CaStore, TLAPS

LEMMA InitTyped == Init => TypeOK
BY CaAssumption DEF Init, TypeOK, CaAssumption, FileContents, Stages

LEMMA NextTyped == ASSUME TypeOK, [Next]_vars PROVE TypeOK'
<1> USE DEF TypeOK, diskVars, locals, Goto, FileContents, Stages, FailsUnwrap
<1>0. Fault => faults' \in 0..MaxFaults
  BY CaAssumption DEF Fault, CaAssumption
<1>1. CASE UNCHANGED vars
  BY <1>1 DEF vars
<1>2. ASSUME NEW p \in Procs,
             Start(p) \/ CheckCert(p) \/ CheckKey(p) \/ Load(p)
      PROVE  TypeOK'
  BY <1>0, <1>2 DEF Start, CheckCert, CheckKey, Load
<1>3. ASSUME NEW p \in Procs, Generate(p) PROVE TypeOK'
  BY <1>3, CaAssumption DEF Generate, CaAssumption, KeyPairs
<1>4. ASSUME NEW p \in Procs,
             TruncateCert(p) \/ WriteCert(p) \/ TruncateKey(p) \/ WriteKey(p)
      PROVE  TypeOK'
  BY <1>0, <1>4 DEF TruncateCert, WriteCert, TruncateKey, WriteKey
<1>5. ASSUME NEW p \in Procs, CheckTrust(p) \/ Ask(p) \/ Update(p) \/ Proceed(p)
      PROVE  TypeOK'
  BY <1>0, <1>5 DEF CheckTrust, Ask, Asks, Update, Rebuilt, Proceed, Return
<1>6. ASSUME NEW p \in Procs, End(p) \/ Kill(p) PROVE TypeOK'
  <2>1. faults' \in 0..MaxFaults
    BY <1>0, <1>6 DEF End, Kill
  <2>2. /\ pc' = [pc EXCEPT ![p] = "idle"] /\ ca' = [ca EXCEPT ![p] = Absent]
        /\ prompt' = [prompt EXCEPT ![p] = FALSE]
        /\ trusted' = [trusted EXCEPT ![p] = FALSE]
        /\ UNCHANGED <<cert, keyFile, installed, bundle, generated>>
    BY <1>6 DEF End, Kill, Leave
  <2>3. pc' \in [Procs -> Stages] /\ ca' \in [Procs -> KeyPairs \cup {Absent}]
    BY <2>2
  <2>4. prompt' \in [Procs -> BOOLEAN] /\ trusted' \in [Procs -> BOOLEAN]
    BY Zenon, <2>2
  <2> QED
    BY <2>1, <2>2, <2>3, <2>4
<1> QED
  BY <1>1, <1>2, <1>3, <1>4, <1>5, <1>6 DEF Next, Step

(* Every variable keeps to its type.                                       *)
THEOREM TypeCorrect == Spec => []TypeOK
BY InitTyped, NextTyped, PTL DEF Spec

(* A step finds both files and so replaces neither: only a process that    *)
(* found one missing writes to them.                                       *)
LEMMA StaysSettled ==
    ASSUME TypeOK, Settled, [Next]_vars
    PROVE  Settled' /\ cert' = cert
<1> USE DEF TypeOK, diskVars, locals, Goto, Settled, Generating, FailsUnwrap
<1>0. cert # Absent /\ keyFile # Absent
  BY CaAssumption DEF CaAssumption, KeyPairs
<1>1. CASE UNCHANGED vars
  BY <1>1 DEF vars
<1>2. ASSUME NEW p \in Procs, Start(p) \/ CheckCert(p) \/ CheckKey(p) \/ Load(p)
      PROVE  Settled' /\ cert' = cert
  BY <1>0, <1>2 DEF Start, CheckCert, CheckKey, Load
<1>3. ASSUME NEW p \in Procs,
             \/ Generate(p) \/ TruncateCert(p) \/ WriteCert(p)
             \/ TruncateKey(p) \/ WriteKey(p)
      PROVE  FALSE
  BY <1>3 DEF Generate, TruncateCert, WriteCert, TruncateKey, WriteKey
<1>4. ASSUME NEW p \in Procs, CheckTrust(p) \/ Ask(p) \/ Update(p) \/ Proceed(p)
      PROVE  Settled' /\ cert' = cert
  BY <1>4 DEF CheckTrust, Ask, Asks, Update, Proceed, Return
<1>5. ASSUME NEW p \in Procs, End(p) \/ Kill(p) PROVE Settled' /\ cert' = cert
  BY <1>5 DEF End, Kill, Leave
<1> QED
  BY <1>1, <1>2, <1>3, <1>4, <1>5 DEF Next, Step

(* A CA that is settled on disk is never replaced, whatever number of      *)
(* processes start in the directory, are killed there or fail.             *)
THEOREM SettledStays == Spec => SettledForGood
<1>1. TypeOK /\ [Next]_vars => [Settled => Settled' /\ cert' = cert]_vars
  BY StaysSettled
<1> QED
  BY <1>1, TypeCorrect, PTL DEF Spec, SettledForGood

-----------------------------------------------------------------------------
(* Processes that start one at a time until the CA is settled.             *)

LEMMA InitIInv == Init => IInv
<1>1. Init => StoreUpToDate
  BY CaAssumption DEF Init, StoreUpToDate, Rebuilt, CaAssumption, KeyPairs
<1> QED
  BY <1>1, InitTyped, CaAssumption
     DEF Init, IInv, PairInv, Alone, SignsForCert, TrustedIsInstalled, PanicsOnlyAfterFault,
         Generating, CaAssumption, KeyPairs

(* Whoever starts while the CA is not settled finds all others idle.       *)
StartsAlone(p) == Start(p) => Settled \/ \A q \in Procs \ {p} : pc[q] = "idle"

(* Faults are only counted up.                                             *)
LEMMA FaultsCount ==
    ASSUME TypeOK, NEW p \in Procs, Step(p)
    PROVE  /\ Fault \/ faults' = faults
           /\ Fault => faults' > 0
           /\ faults > 0 => faults' > 0
<1>1. faults \in Nat
  BY CaAssumption DEF TypeOK, CaAssumption
<1>2. Fault \/ faults' = faults
  BY DEF Step, Start, CheckCert, CheckKey, Load, Generate, TruncateCert, WriteCert,
         TruncateKey, WriteKey, CheckTrust, Ask, Update, Proceed, End, Kill, FailsUnwrap
<1>3. Fault => faults' = faults + 1
  BY DEF Fault
<1> QED
  BY <1>1, <1>2, <1>3

(* The trust store follows the installed certificate, which only a copy    *)
(* changes, and a copy goes on to the rebuild or has failed.               *)
LEMMA StoreKept ==
    ASSUME TypeOK, StoreUpToDate, NEW p \in Procs, Step(p)
    PROVE  StoreUpToDate'
<1> SUFFICES ASSUME faults' = 0, \A q \in Procs : pc'[q] # "update"
             PROVE  bundle' = Rebuilt'
  BY DEF StoreUpToDate
<1>1. faults = 0 /\ ~Fault
  <2>1. ~(faults' > 0) /\ faults \in Nat
    BY CaAssumption DEF TypeOK, CaAssumption
  <2> QED
    BY <2>1, FaultsCount
<1>2. CASE Update(p)
  BY <1>1, <1>2 DEF Update, Rebuilt
<1>3. CASE Ask(p)
  <2>1. pc[p] = "ask" /\ pc' = [pc EXCEPT ![p] = "returned"] /\ UNCHANGED <<installed, bundle>>
    BY <1>1, <1>3 DEF Ask, Return, Goto, TypeOK
  <2>2. \A q \in Procs : pc[q] # "update"
    BY <2>1 DEF TypeOK
  <2> QED
    BY <1>1, <2>1, <2>2 DEF StoreUpToDate, Rebuilt
<1>4. CASE ~Update(p) /\ ~Ask(p)
  <2>1. UNCHANGED <<installed, bundle>>
    BY <1>4 DEF Step, Start, CheckCert, CheckKey, Load, Generate, TruncateCert, WriteCert,
                TruncateKey, WriteKey, CheckTrust, Proceed, End, Kill, Leave, diskVars
  <2>2. \A q \in Procs : pc[q] # "update"
    <3>1. pc[p] # "update"
      BY <1>1, <1>4 DEF Step, Start, CheckCert, CheckKey, Load, Generate, TruncateCert,
                WriteCert, TruncateKey, WriteKey, CheckTrust, Proceed, End, Kill
    <3>2. \A q \in Procs \ {p} : pc'[q] = pc[q]
      BY <1>4 DEF Step, Start, CheckCert, CheckKey, Load, Generate, TruncateCert, WriteCert,
                  TruncateKey, WriteKey, CheckTrust, Return, Asks, Proceed, End, Kill, Leave,
                  FailsUnwrap, Goto, TypeOK
    <3> QED
      BY <3>1, <3>2
  <2> QED
    BY <1>1, <2>1, <2>2 DEF StoreUpToDate, Rebuilt
<1> QED
  BY <1>2, <1>3, <1>4

LEMMA StepKeeps ==
    ASSUME IInv, NEW p \in Procs, Step(p), StartsAlone(p)
    PROVE  IInv'
<1> DEFINE Inv1(q) ==
      /\ PairInv(q)
      /\ pc[q] \in {"check_trust", "ask", "update", "returned", "serving"} =>
            ca[q] = cert /\ ca[q] = keyFile
      /\ trusted[q] => installed = ca[q] \/ CopyFailed
      /\ pc[q] = "panicked" => faults > 0
<1> DEFINE Cut == (keyFile = Truncated /\ \A q \in Procs : pc[q] # "write_key") => faults > 0
<1> USE DEF diskVars, locals, Goto, PairInv, Generating, Settled, FailsUnwrap, CopyFailed
<1>1. TypeOK /\ TypeOK' /\ Alone /\ Cut /\ \A q \in Procs : Inv1(q)
  BY NextTyped DEF IInv, SignsForCert, TrustedIsInstalled, PanicsOnlyAfterFault, Next
<1>2. Absent \notin KeyPairs /\ Truncated \notin KeyPairs /\ Absent # Truncated
  BY CaAssumption DEF CaAssumption, KeyPairs
<1>f. /\ Fault => faults' > 0
      /\ faults > 0 => faults' > 0
  BY <1>1, FaultsCount
<1>3. Alone' /\ Cut' /\ \A q \in Procs : Inv1(q)'
  <2>1. ASSUME Start(p) PROVE Alone' /\ Cut' /\ \A q \in Procs : Inv1(q)'
    BY <1>1, <1>2, <2>1, ZenonT(40) DEF TypeOK, Start, Alone, StartsAlone
  <2>2. ASSUME CheckCert(p) \/ CheckKey(p) PROVE Alone' /\ Cut' /\ \A q \in Procs : Inv1(q)'
    BY <1>1, <1>2, <2>2 DEF TypeOK, CheckCert, CheckKey, Alone
  <2>3. ASSUME Load(p) PROVE Alone' /\ Cut' /\ \A q \in Procs : Inv1(q)'
    BY <1>1, <1>2, <1>f, <2>3 DEF TypeOK, FileContents, Load, Alone
  <2>4. ASSUME Generate(p) PROVE Alone' /\ Cut' /\ \A q \in Procs : Inv1(q)'
    BY <1>1, <1>2, <2>4 DEF TypeOK, Generate, KeyPairs, Alone
  <2>5. ASSUME TruncateCert(p) \/ WriteCert(p) \/ TruncateKey(p) \/ WriteKey(p)
        PROVE Alone' /\ Cut' /\ \A q \in Procs : Inv1(q)'
    <3>1. CASE TruncateCert(p)
      BY <1>1, <1>2, <1>f, <3>1 DEF TypeOK, TruncateCert, Alone
    <3>2. CASE WriteCert(p)
      BY <1>1, <1>2, <1>f, <3>2 DEF TypeOK, WriteCert, Alone
    <3>3. CASE TruncateKey(p)
      BY <1>1, <1>2, <1>f, <3>3 DEF TypeOK, TruncateKey, Alone
    <3>4. CASE WriteKey(p)
      BY <1>1, <1>2, <1>f, <3>4 DEF TypeOK, WriteKey, Alone
    <3> QED
      BY <2>5, <3>1, <3>2, <3>3, <3>4
  <2>6. ASSUME CheckTrust(p) PROVE Alone' /\ Cut' /\ \A q \in Procs : Inv1(q)'
    BY <1>1, <1>2, <1>f, <2>6 DEF TypeOK, CheckTrust, Asks, Return, Alone
  <2>7. ASSUME Ask(p) PROVE Alone' /\ Cut' /\ \A q \in Procs : Inv1(q)'
    <3>1. Settled /\ ca[p] = cert /\ Alone' /\ UNCHANGED <<cert, keyFile, ca>>
      BY <1>1, <1>2, <2>7 DEF TypeOK, Ask, Return, Alone
    <3>2. Settled' /\ Cut'
      BY <1>1, <1>2, <2>7, <3>1 DEF TypeOK, Ask, Return
    <3>3. installed' = installed \/ installed' = cert \/ CopyFailed'
      BY <1>f, <2>7 DEF Ask
    <3>4. ASSUME NEW q \in Procs PROVE Inv1(q)'
      BY <1>1, <1>2, <1>f, <2>7, <3>1, <3>2, <3>3 DEF TypeOK, Ask, Return
    <3> QED
      BY <3>1, <3>2, <3>4
  <2>8. ASSUME Update(p) PROVE Alone' /\ Cut' /\ \A q \in Procs : Inv1(q)'
    <3>1. /\ pc[p] = "update" /\ pc' = [pc EXCEPT ![p] = "returned"]
          /\ trusted' = [trusted EXCEPT ![p] = TRUE]
          /\ UNCHANGED <<cert, keyFile, installed, ca>>
      BY <2>8 DEF Update, Return
    <3>2. Settled /\ ca[p] = cert /\ (installed = ca[p] \/ CopyFailed)
      BY <1>1, <1>2, <3>1 DEF TypeOK, FileContents, Alone
    <3> QED
      BY <1>1, <1>2, <1>f, <3>1, <3>2 DEF TypeOK, Alone
  <2>9. ASSUME Proceed(p) PROVE Alone' /\ Cut' /\ \A q \in Procs : Inv1(q)'
    BY <1>1, <1>2, <2>9 DEF TypeOK, Proceed, Alone
  <2>10. ASSUME End(p) \/ Kill(p) PROVE Alone' /\ Cut' /\ \A q \in Procs : Inv1(q)'
    BY <1>1, <1>2, <1>f, <2>10 DEF TypeOK, End, Kill, Leave, Alone
  <2> QED
    BY <2>1, <2>2, <2>3, <2>4, <2>5, <2>6, <2>7, <2>8, <2>9, <2>10 DEF Step
<1>4. StoreUpToDate'
  BY <1>1, StoreKept DEF IInv
<1> QED
  BY <1>1, <1>3, <1>4 DEF IInv, SignsForCert, TrustedIsInstalled, PanicsOnlyAfterFault

LEMMA StutterKeeps == ASSUME IInv, UNCHANGED vars PROVE IInv'
<1> USE DEF vars, diskVars, locals, IInv
<1>1. StoreUpToDate'
  BY DEF StoreUpToDate, Rebuilt
<1> QED
  BY <1>1 DEF TypeOK, Alone, PairInv, SignsForCert, TrustedIsInstalled, CopyFailed,
              PanicsOnlyAfterFault, Generating, Settled

(* A proxy alone in its directory signs with the key whose certificate is  *)
(* in ca.pem; if it is told its CA is trusted, no other certificate is     *)
(* installed, and the trust store holds this one unless something failed   *)
(* or is still being rebuilt; and it panics only if a file operation of    *)
(* its own fails, or it was killed or failed before                        *)
(* (load_or_generate and trust_ca, src/ca.rs:25-52 and 140-248).           *)
THEOREM OnlyProcessSigns ==
    ASSUME NEW p, Procs = {p}
    PROVE  Spec => [](/\ SignsForCert /\ TrustedIsInstalled
                      /\ StoreUpToDate /\ PanicsOnlyAfterFault)
<1>1. IInv /\ [Next]_vars => IInv'
  <2>1. StartsAlone(p)
    BY DEF StartsAlone
  <2>2. p \in Procs /\ (Next => Step(p))
    BY DEF Next
  <2> QED
    BY <2>1, <2>2, StepKeeps, StutterKeeps
<1>2. IInv => SignsForCert /\ TrustedIsInstalled /\ StoreUpToDate /\ PanicsOnlyAfterFault
  BY DEF IInv
<1> QED
  BY <1>1, <1>2, InitIInv, PTL DEF Spec
=============================================================================
