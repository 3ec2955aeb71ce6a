------------------------------- MODULE CaStore -------------------------------
(***************************************************************************)
(* The local CA on disk and in the system's trust store: load_or_generate  *)
(* and trust_ca (src/ca.rs, the Linux branch), in the order main calls     *)
(* them, by several proxy processes started in one directory, any of which *)
(* may be killed at any point, and whose file operations and commands may  *)
(* fail.                                                                   *)
(*                                                                         *)
(* A key pair is a number; a certificate is the number of the key it was   *)
(* made for (self_signed derives it from the key alone).  fs::write first  *)
(* truncates the file, then fills it: a file is Absent, Truncated (empty   *)
(* or cut short), or holds a key's number.                                 *)
(***************************************************************************)
EXTENDS Integers, FiniteSets

CONSTANTS
    Procs,          \* proxy processes
    MaxKey,         \* bound on the number of key pairs ever generated
    MaxFaults,      \* bound on the number of kills, failed file operations and failed commands
    Absent,         \* the file does not exist
    Truncated       \* the file is there but holds no certificate or key

ASSUME CaAssumption ==
    /\ MaxKey \in Nat
    /\ MaxFaults \in Nat
    /\ Absent \notin 1..MaxKey /\ Truncated \notin 1..MaxKey
    /\ Absent # Truncated

KeyPairs == 1..MaxKey
FileContents == KeyPairs \cup {Absent, Truncated}

VARIABLES
    cert,       \* ca.pem
    keyFile,    \* ca-key.pem
    installed,  \* bangumi-proxy-ca.crt among the system's CA certificates
    bundle,     \* the certificate in the system's trust store, or Absent
    generated,  \* number of key pairs generated so far
    faults,     \* number of kills and failures so far
    pc,         \* where each process is
    prompt,     \* was it started with --trust-ca?
    ca,         \* the key pair its MitmCa signs with, or Absent
    trusted     \* what its trust_ca returned

diskVars == <<cert, keyFile, installed, bundle>>
locals == <<prompt, ca, trusted>>
vars == <<diskVars, generated, faults, pc, locals>>

Stages == {"idle", "check_cert", "check_key", "load", "generate", "truncate_cert",
           "write_cert", "truncate_key", "write_key", "check_trust", "ask",
           "update", "returned", "serving", "exited", "panicked"}

(* Between the checks that send a process to generate a CA and its last    *)
(* write to the two files.                                                 *)
Generating(p) == pc[p] \in {"generate", "truncate_cert", "write_cert",
                            "truncate_key", "write_key"}

Init ==
    /\ cert = Absent /\ keyFile = Absent
    /\ installed = Absent /\ bundle = Absent
    /\ generated = 0 /\ faults = 0
    /\ pc = [p \in Procs |-> "idle"]
    /\ prompt = [p \in Procs |-> FALSE]
    /\ ca = [p \in Procs |-> Absent]
    /\ trusted = [p \in Procs |-> FALSE]

Goto(p, stage) == pc' = [pc EXCEPT ![p] = stage]

Fault == faults < MaxFaults /\ faults' = faults + 1

(* An operation fails, and its unwrap panics.                              *)
FailsUnwrap(p) == Fault /\ Goto(p, "panicked")

Start(p) ==
    /\ pc[p] = "idle"
    /\ Goto(p, "check_cert")
    /\ \E flag \in BOOLEAN : prompt' = [prompt EXCEPT ![p] = flag]
    /\ UNCHANGED <<diskVars, generated, faults, ca, trusted>>

-----------------------------------------------------------------------------
(* load_or_generate                                                        *)

\* Mutant: the files are not looked at.
CheckCertRegenerates(p) ==
    /\ pc[p] = "check_cert"
    /\ Goto(p, "generate")
    /\ UNCHANGED <<diskVars, generated, faults, locals>>

\* Mutant: a missing ca.pem is loaded.
CheckCertInverted(p) ==
    /\ pc[p] = "check_cert"
    /\ Goto(p, IF cert = Absent THEN "load" ELSE "check_key")
    /\ UNCHANGED <<diskVars, generated, faults, locals>>

CheckCert(p) ==
    /\ pc[p] = "check_cert"
    /\ Goto(p, IF cert # Absent THEN "check_key" ELSE "generate")
    /\ UNCHANGED <<diskVars, generated, faults, locals>>

\* Mutant: the key file is not looked at.
CheckKeyRegenerates(p) ==
    /\ pc[p] = "check_key"
    /\ Goto(p, "generate")
    /\ UNCHANGED <<diskVars, generated, faults, locals>>

CheckKey(p) ==
    /\ pc[p] = "check_key"
    /\ Goto(p, IF keyFile # Absent THEN "load" ELSE "generate")
    /\ UNCHANGED <<diskVars, generated, faults, locals>>

(* Both unwraps panic: on a file that cannot be read, and on one without a *)
(* key.                                                                    *)
Load(p) ==
    /\ pc[p] = "load"
    /\ \/ /\ keyFile \in KeyPairs
          /\ ca' = [ca EXCEPT ![p] = keyFile]
          /\ Goto(p, "check_trust")
          /\ UNCHANGED faults
       \/ /\ keyFile \notin KeyPairs
          /\ Goto(p, "panicked")
          /\ UNCHANGED <<ca, faults>>
       \/ FailsUnwrap(p) /\ UNCHANGED ca
    /\ UNCHANGED <<diskVars, generated, prompt, trusted>>

Generate(p) ==
    /\ pc[p] = "generate"
    /\ generated < MaxKey
    /\ generated' = generated + 1
    /\ ca' = [ca EXCEPT ![p] = generated + 1]
    /\ Goto(p, "truncate_cert")
    /\ UNCHANGED <<diskVars, faults, prompt, trusted>>

\* Mutant: a ca.pem that is there is not overwritten.
TruncateCertOnce(p) ==
    /\ pc[p] = "truncate_cert"
    /\ cert' = IF cert = Absent THEN Truncated ELSE cert
    /\ Goto(p, IF cert = Absent THEN "write_cert" ELSE "truncate_key")
    /\ UNCHANGED <<keyFile, installed, bundle, generated, faults, locals>>

(* fs::write opens the file, which truncates it, and writes; where either  *)
(* fails (no permission, a full disk) its unwrap panics.                   *)
TruncateCert(p) ==
    /\ pc[p] = "truncate_cert"
    /\ \/ cert' = Truncated /\ Goto(p, "write_cert") /\ UNCHANGED faults
       \/ FailsUnwrap(p) /\ UNCHANGED cert
    /\ UNCHANGED <<keyFile, installed, bundle, generated, locals>>

WriteCert(p) ==
    /\ pc[p] = "write_cert"
    /\ \/ cert' = ca[p] /\ Goto(p, "truncate_key") /\ UNCHANGED faults
       \/ FailsUnwrap(p) /\ cert' \in {cert, Truncated}
    /\ UNCHANGED <<keyFile, installed, bundle, generated, locals>>

TruncateKey(p) ==
    /\ pc[p] = "truncate_key"
    /\ \/ keyFile' = Truncated /\ Goto(p, "write_key") /\ UNCHANGED faults
       \/ FailsUnwrap(p) /\ UNCHANGED keyFile
    /\ UNCHANGED <<cert, installed, bundle, generated, locals>>

WriteKey(p) ==
    /\ pc[p] = "write_key"
    /\ \/ keyFile' = ca[p] /\ Goto(p, "check_trust") /\ UNCHANGED faults
       \/ FailsUnwrap(p) /\ keyFile' \in {keyFile, Truncated}
    /\ UNCHANGED <<cert, installed, bundle, generated, locals>>

-----------------------------------------------------------------------------
(* trust_ca                                                                *)

Return(p, answer) ==
    /\ trusted' = [trusted EXCEPT ![p] = answer]
    /\ Goto(p, "returned")

\* Mutant: a start without --trust-ca answers true.
CheckTrustUnasked(p) ==
    /\ pc[p] = "check_trust"
    /\ \/ /\ cert \in KeyPairs /\ (installed = cert \/ ~prompt[p])
          /\ Return(p, TRUE)
       \/ /\ cert \notin KeyPairs
          /\ Return(p, FALSE)
       \/ /\ cert \in KeyPairs /\ installed # cert /\ prompt[p]
          /\ Goto(p, "ask")
          /\ UNCHANGED trusted
    /\ UNCHANGED <<diskVars, generated, faults, prompt, ca>>

Asks(p) == Goto(p, "ask") /\ UNCHANGED trusted

(* ca.pem is read; without a certificate in it, or if it cannot be read,   *)
(* the answer is false.  An installed file that cannot be read is another. *)
CheckTrust(p) ==
    LET other == \/ cert \in KeyPairs /\ prompt[p] /\ Asks(p)
                 \/ (cert \notin KeyPairs \/ ~prompt[p]) /\ Return(p, FALSE)
    IN  /\ pc[p] = "check_trust"
        /\ \/ /\ cert \in KeyPairs /\ installed = cert
              /\ Return(p, TRUE)
              /\ UNCHANGED faults
           \/ /\ cert \notin KeyPairs \/ installed # cert
              /\ other
              /\ UNCHANGED faults
           \/ Fault /\ (other \/ Return(p, FALSE))
        /\ UNCHANGED <<diskVars, generated, prompt, ca>>

(* The user declines, or sudo cp copies ca.pem as it is by then, or fails, *)
(* before it has touched its target or after.                              *)
Ask(p) ==
    /\ pc[p] = "ask"
    /\ \/ Return(p, FALSE) /\ UNCHANGED <<installed, faults>>
       \/ installed' = cert /\ Goto(p, "update") /\ UNCHANGED <<trusted, faults>>
       \/ Fault /\ installed' = Truncated /\ Return(p, FALSE)
    /\ UNCHANGED <<cert, keyFile, bundle, generated, prompt, ca>>

(* What the trust store holds of this proxy once it is rebuilt.            *)
Rebuilt == IF installed \in KeyPairs THEN installed ELSE Absent

(* update-ca-certificates rebuilds the trust store, or fails: trust_ca     *)
(* does not look at its status.                                            *)
Update(p) ==
    /\ pc[p] = "update"
    /\ \/ bundle' = Rebuilt /\ UNCHANGED faults
       \/ Fault /\ UNCHANGED bundle
    /\ Return(p, TRUE)
    /\ UNCHANGED <<cert, keyFile, installed, generated, prompt, ca>>

-----------------------------------------------------------------------------
(* main goes on: with --trust-ca it is done, otherwise it serves if it can *)
(* bind its port.                                                          *)
Proceed(p) ==
    /\ pc[p] = "returned"
    /\ \/ Goto(p, "exited")
       \/ ~prompt[p] /\ Goto(p, "serving")
    /\ UNCHANGED <<diskVars, generated, faults, locals>>

(* A process that has ended, however it did, leaves its slot for the next. *)
Leave(p) ==
    /\ Goto(p, "idle")
    /\ ca' = [ca EXCEPT ![p] = Absent]
    /\ prompt' = [prompt EXCEPT ![p] = FALSE]
    /\ trusted' = [trusted EXCEPT ![p] = FALSE]
    /\ UNCHANGED <<diskVars, generated>>

End(p) ==
    /\ pc[p] \in {"serving", "exited", "panicked"}
    /\ Leave(p)
    /\ UNCHANGED faults

Kill(p) ==
    /\ pc[p] \notin {"idle", "serving", "exited", "panicked"}
    /\ Fault
    /\ Leave(p)

Step(p) ==
    \/ Start(p)
    \/ CheckCert(p) \/ CheckKey(p) \/ Load(p)
    \/ Generate(p) \/ TruncateCert(p) \/ WriteCert(p)
    \/ TruncateKey(p) \/ WriteKey(p)
    \/ CheckTrust(p) \/ Ask(p) \/ Update(p)
    \/ Proceed(p) \/ End(p) \/ Kill(p)

Next == \E p \in Procs : Step(p)

Spec == Init /\ [][Next]_vars

-----------------------------------------------------------------------------
TypeOK ==
    /\ cert \in FileContents /\ keyFile \in FileContents
    /\ installed \in FileContents /\ bundle \in KeyPairs \cup {Absent}
    /\ generated \in 0..MaxKey
    /\ faults \in 0..MaxFaults
    /\ pc \in [Procs -> Stages]
    /\ prompt \in [Procs -> BOOLEAN]
    /\ ca \in [Procs -> KeyPairs \cup {Absent}]
    /\ trusted \in [Procs -> BOOLEAN]

(* The files hold a certificate and its key, and nobody is about to        *)
(* replace them.                                                           *)
Settled ==
    /\ cert \in KeyPairs /\ keyFile = cert
    /\ \A p \in Procs : ~Generating(p)

(* Once the CA is settled on disk it is never replaced, whoever starts and *)
(* whoever is killed: what the user trusted stays what the proxy uses.     *)
SettledForGood == [][Settled => Settled' /\ cert' = cert]_vars

(* Where processes start one at a time, a proxy that got past              *)
(* load_or_generate signs with the key whose certificate is in ca.pem,     *)
(* whatever kills and failed writes happened before.                       *)
SignsForCert ==
    \A p \in Procs :
        pc[p] \in {"check_trust", "ask", "update", "returned", "serving"} =>
            ca[p] = cert /\ ca[p] = keyFile

(* A copy that failed halfway has left no certificate where it was.        *)
CopyFailed == faults > 0 /\ installed = Truncated

(* A process whose trust_ca answered true signs with the certificate that  *)
(* was copied among the system's CA certificates: no other one is there,   *)
(* and it is gone only if a later copy failed.                             *)
TrustedIsInstalled ==
    \A p \in Procs : trusted[p] => installed = ca[p] \/ CopyFailed

(* The trust store is the one built from what is installed, where nothing  *)
(* failed and no rebuild is under way.                                     *)
StoreUpToDate ==
    faults = 0 /\ (\A p \in Procs : pc[p] # "update") => bundle = Rebuilt

(* Where processes start one at a time, a start panics only if one of its  *)
(* own file operations fails, or an earlier start failed or was killed.    *)
PanicsOnlyAfterFault ==
    \A p \in Procs : pc[p] = "panicked" => faults > 0

(* A key on disk belongs to the certificate on disk, except while a        *)
(* process replaces both, which it does only where there was no key.       *)
PairInv(p) ==
    /\ keyFile # Absent => cert # Absent
    /\ Generating(p) =>
          \/ keyFile = Absent
          \/ pc[p] = "write_key" /\ keyFile = Truncated
    /\ ~Generating(p) /\ keyFile \in KeyPairs => cert = keyFile
    /\ pc[p] = "load" => keyFile # Absent
    /\ pc[p] \in {"truncate_cert", "write_cert", "truncate_key", "write_key"} =>
          ca[p] \in KeyPairs
    /\ pc[p] \in {"truncate_key", "write_key"} => cert = ca[p]
    /\ pc[p] \in {"ask", "update"} => Settled
    /\ pc[p] = "update" => installed = ca[p] \/ CopyFailed
    /\ trusted[p] =>
          /\ pc[p] \in {"returned", "serving", "exited"}
          /\ Settled /\ ca[p] = cert

(* The inductive invariant, as long as processes run one at a time until   *)
(* the CA is settled.                                                      *)
Alone == Settled \/ \A p, q \in Procs : pc[p] # "idle" /\ pc[q] # "idle" => p = q

IInv ==
    /\ TypeOK
    /\ Alone
    /\ \A p \in Procs : PairInv(p)
    /\ (keyFile = Truncated /\ \A p \in Procs : pc[p] # "write_key") => faults > 0
    /\ SignsForCert
    /\ TrustedIsInstalled
    /\ StoreUpToDate
    /\ PanicsOnlyAfterFault
=============================================================================
