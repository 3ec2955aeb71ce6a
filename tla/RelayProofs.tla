----------------------------- MODULE RelayProofs -----------------------------
(***************************************************************************)
(* Proofs about Relay for any number of bytes, any length of buf and any   *)
(* room in the kernel's buffers.                                           *)
(***************************************************************************)
EXTENDS Relay, TLAPS

LEMMA InitIInv == Init => IInv
<1> SUFFICES ASSUME Init PROVE IInv
  OBVIOUS
<1>1. TypeOK
  <2>1. 0 \in 0..MaxSent /\ <<>> \in Seq(Nat)
    BY RelayAssumption DEF RelayAssumption
  <2> QED
    BY <2>1 DEF Init, TypeOK, Peers
<1>2. InOrder /\ LossHasCause /\ EndsAtEndOfStream
  BY DEF Init, InOrder, Increasing, Within, LossHasCause, EndsAtEndOfStream
<1>3. ASSUME NEW p \in Peers PROVE Counted(p)
  BY <1>3 DEF Init, Counted, Peers, Within
<1> QED
  BY <1>1, <1>2, <1>3 DEF IInv

(* Reading moves bytes into buf; nothing is passed on yet.                 *)
LEMMA ReadBytesKeeps == ASSUME IInv, ReadBytes PROVE IInv'
<1> USE DEF ReadBytes, peerVars, Peers
<1>1. TypeOK'
  BY RelayAssumption DEF IInv, TypeOK, RelayAssumption, Counted
<1>2. InOrder' /\ LossHasCause' /\ EndsAtEndOfStream'
  BY DEF IInv, InOrder, LossHasCause, EndsAtEndOfStream
<1>3. ASSUME NEW p \in Peers PROVE Counted(p)'
  BY <1>3, RelayAssumption DEF IInv, TypeOK, Counted, RelayAssumption
<1> QED
  BY <1>1, <1>2, <1>3 DEF IInv

LEMMA ReadEofKeeps == ASSUME IInv, ReadEof PROVE IInv'
<1> USE DEF ReadEof, peerVars, Peers
<1>1. TypeOK'
  BY DEF IInv, TypeOK
<1>2. InOrder' /\ LossHasCause'
  BY DEF IInv, InOrder, LossHasCause
<1>3. EndsAtEndOfStream'
  BY DEF IInv, TypeOK, EndsAtEndOfStream, LossHasCause, Counted, Other
<1>4. ASSUME NEW p \in Peers PROVE Counted(p)'
  BY <1>4 DEF IInv, Counted
<1> QED
  BY <1>1, <1>2, <1>3, <1>4 DEF IInv

LEMMA ReadNothingKeeps == ASSUME IInv, ReadNothing PROVE IInv'
<1> USE DEF ReadNothing, peerVars, Peers
<1>1. TypeOK'
  BY DEF IInv, TypeOK, Other
<1>2. InOrder' /\ LossHasCause' /\ EndsAtEndOfStream'
  BY DEF IInv, InOrder, LossHasCause, EndsAtEndOfStream
<1>3. ASSUME NEW p \in Peers PROVE Counted(p)'
  BY <1>3 DEF IInv, Counted
<1> QED
  BY <1>1, <1>2, <1>3 DEF IInv

LEMMA ReadErrorKeeps == ASSUME IInv, ReadError PROVE IInv'
<1> USE DEF ReadError, peerVars, Peers
<1>1. TypeOK'
  BY DEF IInv, TypeOK
<1>2. InOrder' /\ LossHasCause' /\ EndsAtEndOfStream'
  BY DEF IInv, TypeOK, InOrder, LossHasCause, EndsAtEndOfStream
<1>3. ASSUME NEW p \in Peers PROVE Counted(p)'
  BY <1>3 DEF IInv, Counted
<1> QED
  BY <1>1, <1>2, <1>3 DEF IInv

(* Appending the next number to an increasing sequence of smaller ones.    *)
LEMMA AppendNext ==
    ASSUME NEW s \in Seq(Nat), NEW n \in Nat, Within(s, n), Increasing(s),
           NEW t, t = Append(s, n + 1)
    PROVE  /\ t \in Seq(Nat) /\ Len(t) = Len(s) + 1
           /\ Within(t, n + 1) /\ Increasing(t)
<1>1. /\ t \in Seq(Nat) /\ Len(s) \in Nat /\ Len(t) = Len(s) + 1
      /\ \A i \in 1..Len(s) : t[i] = s[i]
      /\ t[Len(s) + 1] = n + 1
  OBVIOUS
<1>2. ASSUME NEW i \in 1..Len(t) PROVE t[i] \in 1..n + 1
  <2>1. CASE i = Len(s) + 1
    BY <1>1, <2>1
  <2>2. CASE i \in 1..Len(s)
    BY <1>1, <2>2 DEF Within
  <2> QED
    BY <1>1, <2>1, <2>2
<1>3. ASSUME NEW i \in 1..Len(t), NEW j \in 1..Len(t), i < j PROVE t[i] < t[j]
  <2>1. i \in 1..Len(s) /\ t[i] = s[i] /\ s[i] \in 1..n
    BY <1>1, <1>3 DEF Within
  <2>2. CASE j = Len(s) + 1
    BY <1>1, <2>1, <2>2
  <2>3. CASE j \in 1..Len(s)
    BY <1>1, <1>3, <2>1, <2>3 DEF Increasing
  <2> QED
    BY <1>1, <2>2, <2>3
<1> QED
  BY <1>1, <1>2, <1>3 DEF Within, Increasing

(* A written byte follows every byte passed on before it.                  *)
LEMMA WriteByteKeeps == ASSUME IInv, WriteByte PROVE IInv'
<1>0. /\ TypeOK /\ InOrder /\ LossHasCause /\ EndsAtEndOfStream
      /\ \A p \in Peers : Counted(p)
      /\ side \in Peers /\ MaxSent \in Nat
  BY RelayAssumption DEF IInv, TypeOK, RelayAssumption
<1>1. /\ pc = "write" /\ written[side] < read[side]
      /\ written' = [written EXCEPT ![side] = written[side] + 1]
      /\ passed' = [passed EXCEPT ![side] = Append(passed[side], written[side] + 1)]
      /\ UNCHANGED <<pc, side, read, full, sent, closed, gone, taken>>
  BY DEF WriteByte, peerVars
<1>2. /\ written[side] \in Nat /\ read[side] \in Nat /\ sent[side] \in Nat
      /\ written[side] + 1 <= read[side] /\ read[side] <= sent[side]
      /\ written[side] + 1 \in 0..MaxSent
      /\ Len(passed[side]) <= written[side]
  BY <1>0, <1>1 DEF TypeOK, Counted
<1>3. /\ passed'[side] = Append(passed[side], written[side] + 1)
      /\ written'[side] = written[side] + 1
      /\ \A p \in Peers : p # side => passed'[p] = passed[p] /\ written'[p] = written[p]
  BY <1>0, <1>1 DEF TypeOK
<1>4. /\ passed'[side] \in Seq(Nat) /\ Len(passed'[side]) = Len(passed[side]) + 1
      /\ Within(passed'[side], written[side] + 1) /\ Increasing(passed'[side])
  <2>1. /\ passed[side] \in Seq(Nat)
        /\ Within(passed[side], written[side]) /\ Increasing(passed[side])
    BY <1>0 DEF TypeOK, Counted, InOrder
  <2> QED
    BY <1>2, <1>3, <2>1, AppendNext
<1>5. TypeOK'
  <2>1. passed' \in [Peers -> Seq(Nat)] /\ written' \in [Peers -> 0..MaxSent]
    BY <1>0, <1>1, <1>2, <1>3, <1>4 DEF TypeOK
  <2> QED
    BY <1>0, <1>1, <2>1 DEF TypeOK
<1>6. ASSUME NEW p \in Peers PROVE Counted(p)'
  <2>1. CASE p = side
    <3>1. Len(passed[side]) \in Nat
      BY <1>0 DEF TypeOK
    <3> QED
      BY <1>1, <1>2, <1>3, <1>4, <2>1, <3>1 DEF Counted
  <2>2. CASE p # side
    BY <1>0, <1>1, <1>3, <1>6, <2>2 DEF Counted
  <2> QED
    BY <2>1, <2>2
<1>7. InOrder'
  <2>1. Within(passed'[side], sent[side])
    BY <1>2, <1>4, SMTT(20) DEF Within
  <2> QED
    BY <1>0, <1>1, <1>3, <1>4, <2>1 DEF InOrder
<1>8. LossHasCause'
  <2>1. Len(passed[side]) \in Nat
    BY <1>0 DEF TypeOK
  <2> QED
    BY <1>0, <1>1, <1>2, <1>3, <1>4, <2>1 DEF LossHasCause, TypeOK
<1>9. EndsAtEndOfStream'
  BY <1>1 DEF EndsAtEndOfStream
<1> QED
  BY <1>5, <1>6, <1>7, <1>8, <1>9 DEF IInv

(* The end of a write_all forgets what is left in buf, and says why.       *)
LEMMA WriteEndsKeeps ==
    ASSUME IInv, WriteDone \/ WriteWouldBlock \/ WriteError
    PROVE  IInv'
<1> USE DEF WriteEnds, peerVars, Peers
<1>0. WriteEnds /\ TypeOK
  BY DEF IInv, WriteDone, WriteWouldBlock, WriteError
<1>1. TypeOK'
  BY <1>0 DEF TypeOK, Other, WriteDone, WriteWouldBlock, WriteError
<1>2. InOrder'
  BY <1>0 DEF IInv, InOrder
<1>3. LossHasCause'
  BY <1>0 DEF IInv, TypeOK, LossHasCause, WriteDone, WriteWouldBlock, WriteError
<1>4. EndsAtEndOfStream'
  BY <1>0 DEF EndsAtEndOfStream
<1>5. ASSUME NEW p \in Peers PROVE Counted(p)'
  <2>1. /\ written[p] \in Nat /\ read[p] \in Nat /\ Len(passed[p]) \in Nat
        /\ written[p] <= read[p] /\ Counted(p)
    BY <1>0 DEF IInv, TypeOK, Counted
  <2>2. written'[p] \in {written[p], read[p]} /\ (p = side => written'[p] = read[p])
    BY <1>0 DEF TypeOK
  <2>3. Within(passed[p], read[p])
    BY <2>1 DEF Counted, Within
  <2> QED
    BY <1>0, <2>1, <2>2, <2>3 DEF Counted
<1> QED
  BY <1>1, <1>2, <1>3, <1>4, <1>5 DEF IInv

LEMMA PeerStepKeeps == ASSUME IInv, NEW p \in Peers, PeerStep(p) PROVE IInv'
<1> USE DEF PeerStep, Peers
<1>0. TypeOK /\ InOrder /\ LossHasCause /\ EndsAtEndOfStream
  BY DEF IInv
<1>1. CASE Send(p)
  <2>1. TypeOK'
    BY <1>0, <1>1, RelayAssumption DEF TypeOK, Send, RelayAssumption
  <2>2. InOrder'
    <3>1. \A q \in Peers : sent[q] \in Nat /\ sent'[q] \in Nat /\ sent[q] <= sent'[q]
      BY <1>0, <1>1 DEF TypeOK, Send
    <3> QED
      BY <1>0, <1>1, <3>1 DEF Send, InOrder, Within
  <2>4. LossHasCause' /\ EndsAtEndOfStream'
    BY <1>0, <1>1 DEF TypeOK, Send, LossHasCause, EndsAtEndOfStream
  <2>3. ASSUME NEW q \in Peers PROVE Counted(q)'
    BY <1>1, <2>3 DEF IInv, TypeOK, Send, Counted
  <2> QED
    BY <2>1, <2>2, <2>3, <2>4 DEF IInv
<1>2. CASE Close(p)
  <2>1. TypeOK'
    BY Zenon, <1>0, <1>2 DEF TypeOK, Close
  <2>2. InOrder' /\ LossHasCause' /\ EndsAtEndOfStream'
    BY <1>0, <1>2 DEF TypeOK, Close, InOrder, LossHasCause, EndsAtEndOfStream
  <2>3. ASSUME NEW q \in Peers PROVE Counted(q)'
    BY <1>2, <2>3 DEF IInv, Close, Counted
  <2> QED
    BY <2>1, <2>2, <2>3 DEF IInv
<1>3. CASE Reset(p)
  <2>1. TypeOK'
    BY Zenon, <1>0, <1>3 DEF TypeOK, Reset
  <2>2. InOrder' /\ LossHasCause' /\ EndsAtEndOfStream'
    BY <1>0, <1>3 DEF TypeOK, Reset, InOrder, LossHasCause, EndsAtEndOfStream
  <2>3. ASSUME NEW q \in Peers PROVE Counted(q)'
    BY <1>3, <2>3 DEF IInv, Reset, Counted
  <2> QED
    BY <2>1, <2>2, <2>3 DEF IInv
<1>4. CASE Take(p)
  <2>1. TypeOK'
    BY <1>0, <1>4 DEF TypeOK, Take, Other
  <2>2. InOrder' /\ LossHasCause' /\ EndsAtEndOfStream'
    BY <1>0, <1>4 DEF Take, InOrder, LossHasCause, EndsAtEndOfStream
  <2>3. ASSUME NEW q \in Peers PROVE Counted(q)'
    BY <1>4, <2>3 DEF IInv, Take, Counted
  <2> QED
    BY <2>1, <2>2, <2>3 DEF IInv
<1> QED
  BY <1>1, <1>2, <1>3, <1>4

LEMMA StutterKeeps == ASSUME IInv, UNCHANGED vars PROVE IInv'
BY DEF vars, peerVars, IInv, TypeOK, InOrder, LossHasCause, EndsAtEndOfStream,
       Counted, Buffered

THEOREM Invariance == Spec => []IInv
<1>1. IInv /\ [Next]_vars => IInv'
  BY ReadBytesKeeps, ReadEofKeeps, ReadNothingKeeps, ReadErrorKeeps, WriteByteKeeps,
     WriteEndsKeeps, PeerStepKeeps, StutterKeeps DEF Next, Loop
<1> QED
  BY <1>1, InitIInv, PTL DEF Spec

(* Every variable keeps to its type, the counters to their bounds.         *)
THEOREM TypeCorrect == Spec => []TypeOK
<1>1. IInv => TypeOK
  BY DEF IInv
<1> QED
  BY <1>1, Invariance, PTL

(* A tunnel never reorders or repeats bytes, nor makes any up.             *)
THEOREM OrderKept == Spec => []InOrder
<1>1. IInv => InOrder
  BY DEF IInv
<1> QED
  BY <1>1, Invariance, PTL

(* Only a full send buffer or a reset peer makes a tunnel lose bytes.      *)
THEOREM LossExplained == Spec => []LossHasCause
<1>1. IInv => LossHasCause
  BY DEF IInv
<1> QED
  BY <1>1, Invariance, PTL

(* A tunnel nobody resets ends at the end of a stream it has carried over. *)
THEOREM EndExplained == Spec => []EndsAtEndOfStream
<1>1. IInv => EndsAtEndOfStream
  BY DEF IInv
<1> QED
  BY <1>1, Invariance, PTL
=============================================================================
