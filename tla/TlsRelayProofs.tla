---------------------------- MODULE TlsRelayProofs ----------------------------
(***************************************************************************)
(* Proofs about TlsRelay, for every length of the buffer and of the        *)
(* streams: a session holds one record at most, the bytes that come next,  *)
(* so whatever the two libraries keep of a write the bytes stay in order.  *)
(***************************************************************************)
EXTENDS TlsRelay, RelayProofs, SequenceTheorems

LEMMA WithinMore ==
    ASSUME NEW s \in Seq(Nat), NEW m \in Nat, NEW n \in Nat, m <= n, Within(s, m)
    PROVE  Within(s, n)
<1>1. ASSUME NEW i \in 1..Len(s) PROVE s[i] \in 1..n
  <2>1. s[i] \in 1..m
    BY <1>1 DEF Within
  <2> QED
    BY <2>1
<1> QED
  BY <1>1 DEF Within

(* Appending a run of numbers to an increasing sequence of smaller ones.   *)
LEMMA AppendRun ==
    ASSUME NEW s \in Seq(Nat), NEW n \in Nat, Within(s, n), Increasing(s),
           NEW from \in Nat, NEW to \in Nat, n <= from, from <= to,
           NEW t, t = s \o Bytes(from, to)
    PROVE  /\ t \in Seq(Nat) /\ Len(t) = Len(s) + to - from
           /\ Within(t, to) /\ Increasing(t)
<1> DEFINE run == Bytes(from, to)
<1>1. /\ run \in Seq(Nat) /\ Len(run) = to - from
      /\ \A i \in 1..to - from : run[i] = from + i
  BY DEF Bytes
<1>2. /\ t \in Seq(Nat) /\ Len(t) = Len(s) + Len(run)
      /\ \A i \in 1..Len(s) + Len(run) :
            t[i] = IF i <= Len(s) THEN s[i] ELSE run[i - Len(s)]
  BY <1>1, ConcatProperties
<1> HIDE DEF run
<1>3. Len(s) \in Nat /\ Len(t) = Len(s) + to - from
  BY <1>1, <1>2
<1>4. ASSUME NEW i \in 1..Len(t)
      PROVE  \/ i \in 1..Len(s) /\ t[i] = s[i]
             \/ i > Len(s) /\ t[i] = from + i - Len(s) /\ i - Len(s) <= to - from
  <2>1. CASE i <= Len(s)
    BY <1>2, <1>3, <2>1
  <2>2. CASE ~(i <= Len(s))
    <3>1. i - Len(s) \in 1..to - from
      BY <1>3, <2>2
    <3> QED
      BY <1>1, <1>2, <1>3, <2>2, <3>1, SMTT(20)
  <2> QED
    BY <2>1, <2>2
<1>5. ASSUME NEW i \in 1..Len(t) PROVE t[i] \in 1..to
  BY <1>3, <1>4 DEF Within
<1>6. ASSUME NEW i \in 1..Len(t), NEW j \in 1..Len(t), i < j PROVE t[i] < t[j]
  <2>1. CASE j \in 1..Len(s)
    BY <1>3, <1>4, <1>6, <2>1 DEF Increasing
  <2>2. CASE i \in 1..Len(s) /\ j > Len(s)
    <3>1. t[i] = s[i] /\ s[i] \in 1..n /\ t[j] = from + j - Len(s)
      BY <1>3, <1>4, <2>2 DEF Within
    <3> QED
      BY <1>3, <2>2, <3>1, SMTT(20)
  <2>3. CASE i > Len(s) /\ j > Len(s)
    <3>1. t[i] = from + i - Len(s) /\ t[j] = from + j - Len(s)
      BY <1>3, <1>4, <2>3
    <3> QED
      BY <1>3, <1>6, <2>3, <3>1
  <2>4. \/ j \in 1..Len(s)
        \/ i \in 1..Len(s) /\ j > Len(s)
        \/ i > Len(s) /\ j > Len(s)
    <3>1. Len(s) \in Nat /\ Len(t) \in Nat
      BY <1>2, <1>3
    <3> QED
      BY <1>6, <3>1
  <2> QED
    BY <2>1, <2>2, <2>3, <2>4
<1> QED
  BY <1>2, <1>3, <1>5, <1>6 DEF Within, Increasing

-----------------------------------------------------------------------------
LEMMA TInitTIInv == TInit => TIInv
<1> SUFFICES ASSUME TInit PROVE TIInv
  OBVIOUS
<1>1. MaxSent \in Nat /\ BufSize \in Nat
  BY RelayAssumption DEF RelayAssumption
<1>2. /\ Init /\ tls \in BOOLEAN /\ shake \in {"waiting", "done"}
      /\ pend = [p \in Peers |-> NoRecord] /\ due = 0 /\ broken = FALSE
  BY DEF TInit
<1>3. TypeOK /\ InOrder
  BY <1>2, InitIInv DEF IInv
<1>4. TTypeOK
  <2>1. NoRecord \in [from : 0..MaxSent, to : 0..MaxSent] /\ 0 \in 0..BufSize
    BY <1>1 DEF NoRecord
  <2> QED
    BY <1>2, <1>3, <2>1 DEF TTypeOK
<1>5. /\ \A p \in Peers : HeldCount(p) = 0 /\ ~Holds(p) /\ pend[p] = NoRecord
      /\ \A p \in Peers : Len(passed[p]) = 0
  BY <1>2 DEF HeldCount, Holds, NoRecord, Init
<1>6. TLossHasCause /\ HeldComesNext /\ TEndsAtEndOfStream
  BY <1>2, <1>5 DEF Init, TLossHasCause, HeldComesNext, TEndsAtEndOfStream
<1>7. ASSUME NEW p \in Peers PROVE TCounted(p)
  BY <1>1, <1>2, <1>5, <1>7 DEF Init, TCounted, NoRecord, Within
<1> QED
  BY <1>2, <1>3, <1>4, <1>5, <1>6, <1>7 DEF TIInv, Init, Peers

(* The invariant of one peer's numbers, as arithmetic.                     *)
LEMMA TFacts ==
    ASSUME TIInv, NEW p \in Peers
    PROVE  /\ sent[p] \in Nat /\ read[p] \in Nat /\ written[p] \in Nat
           /\ sent[p] <= MaxSent /\ MaxSent \in Nat /\ BufSize \in Nat
           /\ pend[p].from \in Nat /\ pend[p].to \in Nat
           /\ pend[p] = [from |-> pend[p].from, to |-> pend[p].to]
           /\ passed[p] \in Seq(Nat) /\ Len(passed[p]) \in Nat
           /\ Increasing(passed[p])
           /\ TCounted(p)
<1>1. pend[p] \in [from : 0..MaxSent, to : 0..MaxSent]
  BY DEF TIInv, TTypeOK
<1> QED
  BY <1>1, RelayAssumption DEF TIInv, TTypeOK, TypeOK, InOrder, RelayAssumption

-----------------------------------------------------------------------------
(* Steps that carry no bytes: only where the loop is changes, or how far   *)
(* the handshake has come.                                                 *)
LEMMA MoveKeeps ==
    ASSUME TIInv,
           UNCHANGED <<read, written, passed, full, peerVars, tls, pend, due, broken>>,
           pc' \in {"read", "write", "done"}, side' \in Peers,
           pc # "write" \/ (pc' = pc /\ side' = side),
           shake' = shake \/ shake' \in {"ready", "done"},
           TEndsAtEndOfStream'
    PROVE  TIInv'
<1> USE DEF peerVars
<1>1. TTypeOK'
  BY DEF TIInv, TTypeOK, TypeOK
<1>2. InOrder' /\ TLossHasCause' /\ HeldComesNext'
  BY DEF TIInv, InOrder, TLossHasCause, HeldComesNext, HeldCount, Holds
<1>3. ASSUME NEW p \in Peers PROVE TCounted(p)'
  BY <1>3 DEF TIInv, TCounted
<1> QED
  BY <1>1, <1>2, <1>3 DEF TIInv, Holds

LEMMA HandshakeKeeps == ASSUME TIInv, Handshake \/ BrowserReady PROVE TIInv'
<1>1. /\ UNCHANGED <<vars, tls, pend, due, broken>>
      /\ shake' \in {"ready", "done"}
  BY DEF Handshake, BrowserReady
<1>2. pc' \in {"read", "write", "done"} /\ side' \in Peers
  BY <1>1 DEF TIInv, TTypeOK, TypeOK, vars
<1>3. TEndsAtEndOfStream'
  BY <1>1 DEF TIInv, TEndsAtEndOfStream, HeldCount, vars, peerVars
<1> QED
  BY <1>1, <1>2, <1>3, MoveKeeps DEF vars

LEMMA TReadNothingKeeps ==
    ASSUME TIInv, UNCHANGED tlsVars \/ ReadClientBlocked,
           ReadNothing \/ ReadClientBlocked
    PROVE  TIInv'
<1>1. /\ UNCHANGED <<read, written, passed, full, peerVars, tls, pend, due, broken, shake>>
      /\ pc = "read" /\ pc' = "read" /\ side' \in Peers
  BY DEF TIInv, TTypeOK, TypeOK, ReadNothing, ReadClientBlocked, tlsVars, Other, Peers
<1>2. TEndsAtEndOfStream'
  BY <1>1 DEF TEndsAtEndOfStream
<1> QED
  BY <1>1, <1>2, MoveKeeps

(* The stream that ends the relay was carried as far as it went.           *)
LEMMA TReadEofKeeps == ASSUME TIInv, ReadEof, UNCHANGED tlsVars PROVE TIInv'
<1>1. /\ UNCHANGED <<read, written, passed, full, peerVars, tls, pend, due, broken, shake>>
      /\ UNCHANGED side
      /\ pc = "read" /\ pc' = "done" /\ side \in Peers
      /\ closed[side] /\ read[side] = sent[side]
  BY DEF TIInv, TTypeOK, TypeOK, ReadEof, tlsVars
<1>2. TEndsAtEndOfStream'
  <2> SUFFICES ASSUME \A p \in Peers : ~gone[p], ~full[side]
               PROVE  Len(passed[side]) + HeldCount(side) = sent[side]
    BY <1>1 DEF TEndsAtEndOfStream, HeldCount, peerVars
  <2>1. written[side] = read[side]
    BY <1>1 DEF TIInv, TCounted
  <2> QED
    BY <1>1, <2>1 DEF TIInv, TLossHasCause, Other, Peers
<1> QED
  BY <1>1, <1>2, MoveKeeps

(* A browser that leaves before its handshake is over has sent nothing.    *)
LEMMA ReadFailsKeeps == ASSUME TIInv, ReadFails PROVE TIInv'
<1>1. /\ UNCHANGED <<read, written, passed, full, peerVars, tls, pend, due, broken, shake>>
      /\ UNCHANGED side
      /\ pc = "read" /\ pc' = "done" /\ side \in Peers
      /\ Failed
  BY DEF TIInv, TTypeOK, TypeOK, ReadFails, tlsVars
<1>2. TEndsAtEndOfStream'
  <2> SUFFICES ASSUME \A p \in Peers : ~gone[p], ~broken
               PROVE  \E p \in Peers :
                         closed[p] /\ (full[p] \/ Len(passed[p]) + HeldCount(p) = sent[p])
    BY <1>1 DEF TEndsAtEndOfStream, HeldCount, peerVars
  <2>1. "client" \in Peers /\ closed["client"] /\ sent["client"] = 0
    BY <1>1 DEF Failed, TIInv, Peers
  <2>2. written["client"] = 0
    <3>1. /\ TCounted("client")
          /\ written["client"] \in Nat /\ read["client"] \in Nat /\ sent["client"] \in Nat
      BY <2>1, TFacts
    <3> QED
      BY <2>1, <3>1 DEF TCounted
  <2> QED
    BY <2>1, <2>2 DEF TIInv, TLossHasCause, Other, Peers
<1> QED
  BY <1>1, <1>2, MoveKeeps

LEMMA TReadBytesKeeps == ASSUME TIInv, ReadBytes, UNCHANGED tlsVars PROVE TIInv'
<1>1. /\ pc = "read" /\ pc' = "write"
      /\ UNCHANGED <<side, written, passed, full, sent, closed, gone, taken>>
      /\ UNCHANGED <<tls, shake, pend, due, broken>>
      /\ side \in Peers
  BY DEF TIInv, TTypeOK, TypeOK, ReadBytes, tlsVars, peerVars
<1>2. PICK n \in 1..BufSize : /\ n <= sent[side] - read[side]
                              /\ read' = [read EXCEPT ![side] = @ + n]
  BY DEF ReadBytes
<1>3. /\ read'[side] = read[side] + n
      /\ \A p \in Peers : p # side => read'[p] = read[p]
      /\ read[side] + n \in 0..MaxSent
  BY <1>1, <1>2, TFacts, SMTT(20) DEF TIInv, TTypeOK, TypeOK
<1>4. TTypeOK'
  BY <1>1, <1>2, <1>3 DEF TIInv, TTypeOK, TypeOK
<1>5. InOrder' /\ TLossHasCause' /\ HeldComesNext' /\ TEndsAtEndOfStream'
  BY <1>1 DEF TIInv, InOrder, TLossHasCause, HeldComesNext, TEndsAtEndOfStream,
              HeldCount, Holds
<1>6. ASSUME NEW p \in Peers PROVE TCounted(p)'
  <2>1. CASE p = side
    <3>1. /\ TCounted(side) /\ BufSize \in Nat
          /\ written[side] \in Nat /\ read[side] \in Nat /\ sent[side] \in Nat
      BY <1>1, TFacts
    <3>2. read[side] = written[side] /\ n \in Nat /\ n <= BufSize
      BY <1>1, <3>1 DEF TCounted
    <3> QED
      BY <1>1, <1>2, <1>3, <2>1, <3>1, <3>2 DEF TCounted
  <2>2. CASE p # side
    BY <1>1, <1>3, <1>6, <2>2, TFacts DEF TCounted
  <2> QED
    BY <2>1, <2>2
<1> QED
  BY <1>1, <1>4, <1>5, <1>6 DEF TIInv, Holds

-----------------------------------------------------------------------------
(* A write that ends with bytes left in buf forgets them; full, a reset or *)
(* the broken session says why.                                            *)
LEMMA ForgetKeeps ==
    ASSUME TIInv, WriteEnds,
           UNCHANGED <<tls, shake, pend, due>>,
           full' = full \/ full' = [full EXCEPT ![side] = TRUE],
           broken' \in BOOLEAN, broken => broken', broken' => full["client"],
           written[side] = read[side] \/ full'[side] \/ gone[Other(side)]
    PROVE  TIInv'
<1>1. /\ pc = "write" /\ pc' = "read" /\ side' \in Peers /\ side \in Peers
      /\ written' = [written EXCEPT ![side] = read[side]]
      /\ UNCHANGED <<read, passed, sent, closed, gone, taken>>
  BY DEF TIInv, TTypeOK, TypeOK, WriteEnds, peerVars, Other, Peers
<1>2. /\ written'[side] = read[side]
      /\ \A p \in Peers : p # side => written'[p] = written[p]
  BY <1>1 DEF TIInv, TTypeOK, TypeOK
<1>3. /\ full' \in [Peers -> BOOLEAN]
      /\ \A p \in Peers : full[p] => full'[p]
  <2>1. full \in [Peers -> BOOLEAN]
    BY DEF TIInv, TTypeOK, TypeOK
  <2> QED
    BY Zenon, <1>1, <2>1
<1>4. TTypeOK'
  BY <1>1, <1>3, TFacts DEF TIInv, TTypeOK, TypeOK
<1>5. InOrder' /\ HeldComesNext' /\ TEndsAtEndOfStream'
  BY <1>1, <1>3 DEF TIInv, InOrder, HeldComesNext, TEndsAtEndOfStream, HeldCount, Holds,
                    Peers
<1>6. TLossHasCause'
  BY <1>1, <1>2, <1>3 DEF TIInv, TLossHasCause, HeldCount
<1>7. ASSUME NEW p \in Peers PROVE TCounted(p)'
  <2>1. /\ written'[p] \in {written[p], read[p]} /\ (p = side => written'[p] = read[p])
    BY <1>1, <1>2, <1>7
  <2>2. /\ TCounted(p) /\ passed[p] \in Seq(Nat) /\ BufSize \in Nat
        /\ written[p] \in Nat /\ read[p] \in Nat /\ sent[p] \in Nat
        /\ pend[p].to \in Nat /\ pend[p].from \in Nat
    BY <1>7, TFacts
  <2>3. Within(passed[p], read[p])
    <3>1. written[p] <= read[p] /\ Within(passed[p], written[p])
      BY <2>2 DEF TCounted
    <3> QED
      BY <2>2, <3>1, WithinMore
  <2> QED
    BY <1>1, <1>7, <2>1, <2>2, <2>3 DEF TCounted
<1> QED
  BY <1>1, <1>3, <1>4, <1>5, <1>6, <1>7 DEF TIInv, Holds, Peers

LEMMA LosingWriteKeeps ==
    ASSUME TIInv, SslWriteShort \/ WriteRefused \/ WriteFails
    PROVE  TIInv'
<1>0. broken \in BOOLEAN /\ (broken => full["client"]) /\ full \in [Peers -> BOOLEAN]
  BY DEF TIInv, TTypeOK, TypeOK, HeldComesNext
<1>1. CASE SslWriteShort
  <2>1. /\ WriteEnds /\ UNCHANGED <<tls, shake, pend, due>>
        /\ full' = full /\ broken' = TRUE
    BY <1>1 DEF SslWriteShort
  <2>2. side = "client" /\ full["client"]
    BY <1>1 DEF SslWriteShort, AtSslWrite, TIInv
  <2> QED
    BY <1>0, <2>1, <2>2, ForgetKeeps
<1>2. CASE WriteRefused
  <2>1. /\ WriteEnds /\ UNCHANGED <<tls, shake, pend, due, broken>>
        /\ full' = [full EXCEPT ![side] = TRUE] /\ side \in Peers
    BY <1>2 DEF WriteRefused, tlsVars, TIInv, TTypeOK, TypeOK
  <2>2. full'[side]
    BY <1>0, <2>1
  <2> QED
    BY <1>0, <2>1, <2>2, ForgetKeeps
<1>3. CASE WriteFails
  <2>1. /\ WriteEnds /\ UNCHANGED <<tls, shake, pend, due, broken>>
        /\ full' = full
        /\ gone[Other(side)] \/ full'[side]
    BY <1>0, <1>3 DEF WriteFails, tlsVars
  <2> QED
    BY <1>0, <2>1, ForgetKeeps
<1> QED
  BY <1>1, <1>2, <1>3

-----------------------------------------------------------------------------
(* Bytes of p go on to the other peer or to its session, or out of it: the *)
(* conditions on what p's share of the state becomes.                      *)
Carried(p) ==
    /\ pc # "done"
    /\ UNCHANGED <<read, sent, closed, gone, taken, tls, shake, broken>>
    /\ \/ pc' = pc /\ side' = side
       \/ pc' = "read" /\ side' \in Peers /\ side = p /\ written'[p] = read[p]
    /\ \A q \in Peers : q # p =>
          /\ passed'[q] = passed[q] /\ pend'[q] = pend[q]
          /\ written'[q] = written[q] /\ full'[q] = full[q]
    /\ passed' \in [Peers -> Seq(Nat)]
    /\ pend' \in [Peers -> [from : 0..MaxSent, to : 0..MaxSent]]
    /\ written' \in [Peers -> 0..MaxSent]
    /\ full' \in [Peers -> BOOLEAN]
    /\ due' \in 0..BufSize
    /\ full[p] => full'[p]
    /\ written[p] <= written'[p] /\ written'[p] <= read[p]
    /\ Increasing(passed'[p]) /\ Within(passed'[p], written'[p])
    /\ pend'[p].from <= pend'[p].to /\ pend'[p].to <= written'[p]
    /\ pend'[p] # NoRecord =>
          /\ Within(passed'[p], pend'[p].from)
          /\ IF p = "client" THEN full'[p] ELSE tls
    /\ ~full'[p] /\ ~gone[Other(p)] =>
          Len(passed'[p]) + (pend'[p].to - pend'[p].from) = written'[p]

LEMMA CarryKeeps == ASSUME TIInv, NEW p \in Peers, Carried(p) PROVE TIInv'
<1> USE DEF Carried
<1>0. /\ sent[p] \in Nat /\ read[p] \in Nat /\ written[p] \in Nat /\ BufSize \in Nat
      /\ written'[p] \in Nat /\ TCounted(p)
  <2>1. written'[p] \in 0..MaxSent
    OBVIOUS
  <2>2. written'[p] \in Nat
    BY <2>1
  <2> QED
    BY <2>2, TFacts
<1>1. TTypeOK'
  BY DEF TIInv, TTypeOK, TypeOK
<1>2. InOrder'
  <2>1. Within(passed'[p], sent[p])
    <3>1. written'[p] <= sent[p] /\ passed'[p] \in Seq(Nat) /\ Within(passed'[p], written'[p])
      BY <1>0 DEF TCounted
    <3> QED
      BY <1>0, <3>1, WithinMore
  <2> QED
    BY <2>1 DEF TIInv, InOrder
<1>3. TLossHasCause'
  BY ZenonT(40) DEF TIInv, TLossHasCause, HeldCount
<1>4. HeldComesNext'
  BY DEF TIInv, HeldComesNext, Holds, Peers
<1>5. TEndsAtEndOfStream'
  BY DEF TEndsAtEndOfStream
<1>6. ASSUME NEW q \in Peers PROVE TCounted(q)'
  <2>1. CASE q = p
    BY <1>0, <2>1 DEF TCounted
  <2>2. CASE q # p
    BY <1>6, <2>2, TFacts DEF TCounted
  <2> QED
    BY <2>1, <2>2
<1> QED
  BY <1>1, <1>2, <1>3, <1>4, <1>5, <1>6 DEF TIInv, Holds, Peers

(* The browser's session sends the record it holds.                        *)
LEMMA FlushKeeps == ASSUME TIInv, Flush PROVE TIInv'
<1> DEFINE p == "remote"
<1>0. p \in Peers /\ TTypeOK /\ pc # "done" /\ Holds(p)
  BY DEF Flush, AtClient, Peers, TIInv
<1>1. /\ UNCHANGED <<read, sent, closed, gone, taken, tls, shake, broken>>
      /\ UNCHANGED <<pc, side, written, full, due>>
      /\ passed' = [passed EXCEPT ![p] = passed[p] \o HeldBytes(p)]
      /\ pend' = [pend EXCEPT ![p] = NoRecord]
  BY DEF Flush, peerVars
<1> DEFINE from == pend[p].from
           to == pend[p].to
<1>2. /\ from \in Nat /\ to \in Nat /\ from <= to /\ to <= written[p]
      /\ written[p] \in Nat /\ read[p] \in Nat /\ written[p] <= read[p] /\ MaxSent \in Nat
      /\ passed[p] \in Seq(Nat) /\ Len(passed[p]) \in Nat
      /\ Increasing(passed[p]) /\ Within(passed[p], from)
      /\ ~full[p] /\ ~gone[Other(p)] => Len(passed[p]) + (to - from) = written[p]
  BY <1>0, TFacts DEF TCounted, TIInv, HeldComesNext, TLossHasCause, HeldCount
<1>3. /\ passed'[p] = passed[p] \o Bytes(from, to) /\ pend'[p] = NoRecord
      /\ \A q \in Peers : q # p => passed'[q] = passed[q] /\ pend'[q] = pend[q]
  BY <1>0, <1>1 DEF TTypeOK, TypeOK, HeldBytes
<1> HIDE DEF p, from, to
<1>4. /\ passed'[p] \in Seq(Nat) /\ Len(passed'[p]) = Len(passed[p]) + to - from
      /\ Within(passed'[p], to) /\ Increasing(passed'[p])
  <2>1. /\ passed[p] \in Seq(Nat) /\ from \in Nat /\ to \in Nat /\ from <= to /\ from <= from
        /\ Within(passed[p], from) /\ Increasing(passed[p])
    BY <1>2
  <2>2. passed'[p] = passed[p] \o Bytes(from, to)
    BY <1>3
  <2> QED
    BY <2>1, <2>2, AppendRun
<1>5. Within(passed'[p], written[p])
  <2>1. to <= written[p] /\ to \in Nat /\ written[p] \in Nat
    BY <1>2
  <2> QED
    BY <1>4, <2>1 DEF Within
<1>6. /\ passed' \in [Peers -> Seq(Nat)]
      /\ pend' \in [Peers -> [from : 0..MaxSent, to : 0..MaxSent]]
      /\ written \in [Peers -> 0..MaxSent] /\ full \in [Peers -> BOOLEAN]
      /\ due \in 0..BufSize
  <2>1. NoRecord \in [from : 0..MaxSent, to : 0..MaxSent]
    BY <1>2 DEF NoRecord
  <2> QED
    BY <1>0, <1>1, <1>4, <2>1 DEF TTypeOK, TypeOK
<1>7. NoRecord.from = 0 /\ NoRecord.to = 0
  BY DEF NoRecord
<1>8. ~full'[p] /\ ~gone[Other(p)] =>
         Len(passed'[p]) + (pend'[p].to - pend'[p].from) = written'[p]
  <2>1. pend'[p].to = 0 /\ pend'[p].from = 0
    BY <1>3, <1>7
  <2>2. full'[p] = full[p] /\ written'[p] = written[p]
    BY <1>1
  <2>3. ~full[p] /\ ~gone[Other(p)] => Len(passed'[p]) = written[p]
    BY <1>2, <1>4
  <2> QED
    BY <1>4, <2>1, <2>2, <2>3
<1>9. /\ pend'[p].from <= pend'[p].to /\ pend'[p].to <= written'[p]
      /\ written[p] <= written'[p] /\ written'[p] <= read[p]
      /\ Within(passed'[p], written'[p]) /\ Increasing(passed'[p])
  BY <1>1, <1>2, <1>3, <1>4, <1>5, <1>7
<1>10. /\ pc' = pc /\ side' = side /\ full' = full /\ due' = due
       /\ \A q \in Peers : q # p =>
            /\ passed'[q] = passed[q] /\ pend'[q] = pend[q]
            /\ written'[q] = written[q] /\ full'[q] = full[q]
  BY <1>1, <1>3
<1>11. /\ written' \in [Peers -> 0..MaxSent] /\ full' \in [Peers -> BOOLEAN]
       /\ due' \in 0..BufSize
  BY <1>1, <1>6
<1>12. Carried(p)
  BY <1>0, <1>1, <1>3, <1>6, <1>8, <1>9, <1>10, <1>11 DEF Carried
<1> QED
  BY <1>0, <1>12, CarryKeeps

(* The numbers of a write that is about to begin.                          *)
LEMMA WriteFacts ==
    ASSUME TIInv, NEW p \in Peers, pc = "write", side = p
    PROVE  /\ written[p] \in Nat /\ read[p] \in Nat /\ written[p] <= read[p]
           /\ MaxSent \in Nat /\ read[p] \in 0..MaxSent /\ written[p] \in 0..MaxSent
           /\ BufSize \in Nat /\ Chunk = read[p] - written[p] /\ Chunk \in 0..BufSize
           /\ passed[p] \in Seq(Nat) /\ Len(passed[p]) \in Nat /\ Increasing(passed[p])
           /\ Within(passed[p], written[p])
           /\ pend[p].from \in Nat /\ pend[p].to \in Nat
           /\ pend[p].from <= pend[p].to /\ pend[p].to <= written[p]
           /\ passed \in [Peers -> Seq(Nat)]
           /\ pend \in [Peers -> [from : 0..MaxSent, to : 0..MaxSent]]
           /\ written \in [Peers -> 0..MaxSent] /\ full \in [Peers -> BOOLEAN]
           /\ due \in 0..BufSize
           /\ ~Holds(p) => pend[p] = NoRecord /\ pend[p].from = 0 /\ pend[p].to = 0
           /\ Holds(p) => Within(passed[p], pend[p].from)
           /\ ~full[p] /\ ~gone[Other(p)] =>
                 Len(passed[p]) + (pend[p].to - pend[p].from) = written[p]
<1>1. /\ TCounted(p) /\ TTypeOK /\ HeldComesNext /\ TLossHasCause
      /\ sent[p] \in Nat /\ sent[p] <= MaxSent /\ MaxSent \in Nat
      /\ read[p] \in Nat /\ written[p] \in Nat /\ BufSize \in Nat
      /\ passed[p] \in Seq(Nat) /\ Len(passed[p]) \in Nat /\ Increasing(passed[p])
      /\ pend[p].from \in Nat /\ pend[p].to \in Nat
  BY TFacts DEF TIInv
<1>2. /\ written[p] <= read[p] /\ read[p] \in 0..MaxSent /\ written[p] \in 0..MaxSent
      /\ Chunk = read[p] - written[p] /\ Chunk \in 0..BufSize
      /\ Within(passed[p], written[p])
      /\ pend[p].from <= pend[p].to /\ pend[p].to <= written[p]
  BY <1>1 DEF TCounted, Chunk
<1>3. /\ passed \in [Peers -> Seq(Nat)]
      /\ pend \in [Peers -> [from : 0..MaxSent, to : 0..MaxSent]]
      /\ written \in [Peers -> 0..MaxSent] /\ full \in [Peers -> BOOLEAN]
      /\ due \in 0..BufSize
  BY <1>1 DEF TTypeOK, TypeOK
<1>4. /\ ~Holds(p) => pend[p] = NoRecord /\ pend[p].from = 0 /\ pend[p].to = 0
      /\ Holds(p) => Within(passed[p], pend[p].from)
      /\ ~full[p] /\ ~gone[Other(p)] =>
            Len(passed[p]) + (pend[p].to - pend[p].from) = written[p]
  BY <1>1 DEF Holds, NoRecord, HeldComesNext, TLossHasCause, HeldCount
<1> QED
  BY <1>1, <1>2, <1>3, <1>4

(* rustls sends the chunk, or holds it whole.                              *)
LEMMA TlsWriteKeeps == ASSUME TIInv, TlsWrite PROVE TIInv'
<1> DEFINE p == "remote"
           w == written[p]
           r == read[p]
<1>0. p \in Peers /\ tls /\ pc = "write" /\ side = p /\ ~Holds(p)
  BY DEF TlsWrite, Clear, Peers
<1>1. /\ UNCHANGED <<read, sent, closed, gone, taken, tls, shake, broken, full, due>>
      /\ pc' = "read" /\ side' = "client" /\ side' \in Peers
      /\ written' = [written EXCEPT ![p] = r]
  BY DEF TlsWrite, peerVars, Peers
<1>2. \/ /\ passed' = [passed EXCEPT ![p] = passed[p] \o Bytes(w, r)]
         /\ pend' = pend
      \/ /\ pend' = [pend EXCEPT ![p] = [from |-> w, to |-> r]]
         /\ passed' = passed
  BY DEF TlsWrite
<1> HIDE DEF p
<1>3. /\ w \in Nat /\ r \in Nat /\ w <= r /\ r \in 0..MaxSent /\ w \in 0..MaxSent
      /\ passed[p] \in Seq(Nat) /\ Len(passed[p]) \in Nat /\ Increasing(passed[p])
      /\ Within(passed[p], w)
      /\ pend[p] = NoRecord /\ pend[p].from = 0 /\ pend[p].to = 0
      /\ ~full[p] /\ ~gone[Other(p)] => Len(passed[p]) = w
  BY <1>0, WriteFacts
<1>4. /\ passed \in [Peers -> Seq(Nat)] /\ written \in [Peers -> 0..MaxSent]
      /\ pend \in [Peers -> [from : 0..MaxSent, to : 0..MaxSent]]
      /\ full \in [Peers -> BOOLEAN] /\ due \in 0..BufSize
  BY <1>0, WriteFacts
<1>5. /\ written'[p] = r /\ written' \in [Peers -> 0..MaxSent]
      /\ \A q \in Peers : q # p => written'[q] = written[q]
  BY <1>0, <1>1, <1>3, <1>4
<1> HIDE DEF w, r
<1>6. CASE /\ passed' = [passed EXCEPT ![p] = passed[p] \o Bytes(w, r)]
           /\ pend' = pend
  <2>1. /\ passed'[p] = passed[p] \o Bytes(w, r)
        /\ \A q \in Peers : q # p => passed'[q] = passed[q]
    BY <1>0, <1>4, <1>6
  <2>2. /\ passed'[p] \in Seq(Nat) /\ Len(passed'[p]) = Len(passed[p]) + r - w
        /\ Within(passed'[p], r) /\ Increasing(passed'[p])
    <3>1. /\ passed[p] \in Seq(Nat) /\ w \in Nat /\ r \in Nat /\ w <= r /\ w <= w
          /\ Within(passed[p], w) /\ Increasing(passed[p])
      BY <1>3
    <3> QED
      BY <2>1, <3>1, AppendRun
  <2>3. passed' \in [Peers -> Seq(Nat)]
    BY <1>0, <1>4, <1>6, <2>2
  <2>4. ~full[p] /\ ~gone[Other(p)] => Len(passed'[p]) + (0 - 0) = r
    <3>1. /\ Len(passed[p]) \in Nat /\ w \in Nat /\ r \in Nat
          /\ ~full[p] /\ ~gone[Other(p)] => Len(passed[p]) = w
      BY <1>3
    <3> QED
      BY <2>2, <3>1, SMTT(20)
  <2>5. w <= r /\ r <= r /\ 0 <= r
    BY <1>3
  <2>6. Carried(p)
    BY <1>0, <1>1, <1>3, <1>4, <1>5, <1>6, <2>1, <2>2, <2>3, <2>4, <2>5, SMTT(20) DEF Carried, w, r
  <2> QED
    BY <1>0, <2>6, CarryKeeps
<1>7. CASE /\ pend' = [pend EXCEPT ![p] = [from |-> w, to |-> r]]
           /\ passed' = passed
  <2>1. /\ pend'[p] = [from |-> w, to |-> r]
        /\ pend' \in [Peers -> [from : 0..MaxSent, to : 0..MaxSent]]
        /\ \A q \in Peers : q # p => pend'[q] = pend[q]
    BY <1>0, <1>3, <1>4, <1>7
  <2>2. pend'[p].from = w /\ pend'[p].to = r
    BY <2>1
  <2>3. Within(passed[p], r)
    BY <1>3 DEF Within
  <2>4. ~full[p] /\ ~gone[Other(p)] => Len(passed[p]) + (r - w) = r
    BY <1>3
  <2>5. w <= r /\ r <= r
    BY <1>3
  <2>6. p # "client"
    BY DEF p
  <2>7. Carried(p)
    BY <1>0, <1>1, <1>3, <1>4, <1>5, <1>7, <2>1, <2>2, <2>3, <2>4, <2>5, <2>6
       DEF Carried, w, r
  <2> QED
    BY <1>0, <2>7, CarryKeeps
<1> QED
  BY <1>2, <1>6, <1>7 DEF w, r

(* A byte to a plain socket.                                               *)
LEMMA TWriteByteKeeps ==
    ASSUME TIInv, WriteByte, UNCHANGED tlsVars, ~tls, side = "remote"
    PROVE  TIInv'
<1> DEFINE p == "remote"
           w == written[p]
<1>0. p \in Peers /\ pc = "write" /\ side = p /\ ~Holds(p) /\ written[p] < read[p]
  BY DEF WriteByte, TIInv, Peers
<1>1. /\ UNCHANGED <<read, sent, closed, gone, taken, tls, shake, broken, full, due, pend>>
      /\ pc' = pc /\ side' = side
      /\ written' = [written EXCEPT ![p] = w + 1]
      /\ passed' = [passed EXCEPT ![p] = Append(passed[p], w + 1)]
  BY DEF WriteByte, peerVars, tlsVars
<1> HIDE DEF p
<1>2. /\ w \in Nat /\ read[p] \in Nat /\ read[p] <= MaxSent /\ MaxSent \in Nat
      /\ w + 1 <= read[p] /\ w + 1 \in 0..MaxSent
      /\ passed[p] \in Seq(Nat) /\ Len(passed[p]) \in Nat /\ Increasing(passed[p])
      /\ Within(passed[p], w)
      /\ pend[p] = NoRecord /\ pend[p].from = 0 /\ pend[p].to = 0
      /\ ~full[p] /\ ~gone[Other(p)] => Len(passed[p]) = w
  BY <1>0, WriteFacts
<1>3. /\ passed \in [Peers -> Seq(Nat)] /\ written \in [Peers -> 0..MaxSent]
      /\ pend \in [Peers -> [from : 0..MaxSent, to : 0..MaxSent]]
      /\ full \in [Peers -> BOOLEAN] /\ due \in 0..BufSize
  BY <1>0, WriteFacts
<1>4. /\ written'[p] = w + 1 /\ written' \in [Peers -> 0..MaxSent]
      /\ passed'[p] = Append(passed[p], w + 1)
      /\ \A q \in Peers : q # p => written'[q] = written[q] /\ passed'[q] = passed[q]
  BY <1>0, <1>1, <1>2, <1>3
<1> HIDE DEF w
<1>5. /\ passed'[p] \in Seq(Nat) /\ Len(passed'[p]) = Len(passed[p]) + 1
      /\ Within(passed'[p], w + 1) /\ Increasing(passed'[p])
  BY <1>2, <1>4, AppendNext
<1>6. passed' \in [Peers -> Seq(Nat)]
  BY <1>0, <1>1, <1>3, <1>5
<1>7. ~full[p] /\ ~gone[Other(p)] => Len(passed'[p]) + (0 - 0) = w + 1
  BY <1>2, <1>5
<1>8. w <= w + 1 /\ w + 1 <= read[p] /\ 0 <= w + 1
  BY <1>2
<1>9. Carried(p)
  BY <1>0, <1>1, <1>2, <1>3, <1>4, <1>5, <1>6, <1>7, <1>8 DEF Carried, w
<1> QED
  BY <1>0, <1>9, CarryKeeps

LEMMA PlainWriteKeeps == ASSUME TIInv, PlainWrite PROVE TIInv'
<1>0. /\ ~tls /\ side = "remote" /\ UNCHANGED tlsVars
      /\ UNCHANGED <<tls, shake, pend, due, broken>>
      /\ broken \in BOOLEAN /\ (broken => full["client"]) /\ full \in [Peers -> BOOLEAN]
  BY DEF PlainWrite, tlsVars, TIInv, TTypeOK, TypeOK, HeldComesNext
<1>1. CASE WriteByte
  BY <1>0, <1>1, TWriteByteKeeps
<1>2. CASE WriteDone
  BY <1>0, <1>2, ForgetKeeps DEF WriteDone
<1>3. CASE WriteWouldBlock
  <2>1. WriteEnds /\ full' = [full EXCEPT ![side] = TRUE] /\ full'[side]
    BY <1>0, <1>3 DEF WriteWouldBlock, Peers
  <2> QED
    BY <1>0, <2>1, ForgetKeeps
<1> QED
  BY <1>1, <1>2, <1>3 DEF PlainWrite

-----------------------------------------------------------------------------
(* What the end of an SSL_write must leave behind: all bytes of the client *)
(* passed on, held by the session, or lost to a write without room.        *)
SslCarried ==
    LET p == "client" IN
    /\ passed'[p] \in Seq(Nat)
    /\ Increasing(passed'[p]) /\ Within(passed'[p], read[p])
    /\ pend'[p] \in [from : 0..MaxSent, to : 0..MaxSent]
    /\ pend'[p].from <= pend'[p].to /\ pend'[p].to <= read[p]
    /\ pend'[p] # NoRecord => Within(passed'[p], pend'[p].from) /\ full'[p]
    /\ ~full'[p] /\ ~gone[Other(p)] =>
          Len(passed'[p]) + (pend'[p].to - pend'[p].from) = read[p]

LEMMA SslEndFacts ==
    ASSUME TIInv, AtSslWrite, NEW accepted, NEW rest, NEW isFull \in BOOLEAN,
           SslWriteEnds(accepted, rest, isFull)
    PROVE  /\ passed'["client"] = passed["client"] \o accepted
           /\ pend'["client"] = rest
           /\ full'["client"] = (full["client"] \/ isFull)
<1>1. /\ passed \in [Peers -> Seq(Nat)] /\ full \in [Peers -> BOOLEAN]
      /\ pend \in [Peers -> [from : 0..MaxSent, to : 0..MaxSent]]
      /\ "client" \in Peers
  BY DEF TIInv, TTypeOK, TypeOK, Peers
<1>2. /\ passed' = [passed EXCEPT !["client"] = passed["client"] \o accepted]
      /\ pend' = [pend EXCEPT !["client"] = rest]
      /\ full' = [full EXCEPT !["client"] = full["client"] \/ isFull]
  BY DEF SslWriteEnds
<1> QED
  BY Zenon, <1>1, <1>2

LEMMA SslEndKeeps ==
    ASSUME TIInv, AtSslWrite, NEW accepted, NEW rest, NEW isFull \in BOOLEAN,
           SslWriteEnds(accepted, rest, isFull), SslCarried
    PROVE  TIInv'
<1> DEFINE p == "client"
<1>0. p \in Peers /\ pc = "write" /\ side = p
  BY DEF AtSslWrite, Peers
<1>1. /\ UNCHANGED <<read, sent, closed, gone, taken, tls, shake, broken>>
      /\ pc' = "read" /\ side' \in Peers
      /\ written' = [written EXCEPT ![p] = read[p]]
      /\ passed' = [passed EXCEPT ![p] = passed[p] \o accepted]
      /\ pend' = [pend EXCEPT ![p] = rest]
      /\ full' = [full EXCEPT ![p] = full[p] \/ isFull]
      /\ due' = IF rest = NoRecord THEN 0 ELSE Chunk
  BY DEF SslWriteEnds, peerVars, Peers
<1>2. /\ passed'[p] = passed[p] \o accepted /\ pend'[p] = rest
      /\ full'[p] = (full[p] \/ isFull)
  BY SslEndFacts
<1> HIDE DEF p
<1>3. /\ written[p] \in Nat /\ read[p] \in Nat /\ written[p] <= read[p]
      /\ read[p] \in 0..MaxSent /\ BufSize \in Nat /\ Chunk \in 0..BufSize
      /\ passed \in [Peers -> Seq(Nat)] /\ written \in [Peers -> 0..MaxSent]
      /\ pend \in [Peers -> [from : 0..MaxSent, to : 0..MaxSent]]
      /\ full \in [Peers -> BOOLEAN]
  BY <1>0, WriteFacts
<1>4. /\ written'[p] = read[p] /\ written' \in [Peers -> 0..MaxSent]
      /\ \A q \in Peers : q # p =>
            written'[q] = written[q] /\ passed'[q] = passed[q] /\ pend'[q] = pend[q]
  BY <1>0, <1>1, <1>3
<1>5. /\ full' \in [Peers -> BOOLEAN]
      /\ full[p] => full'[p]
      /\ \A q \in Peers : q # p => full'[q] = full[q]
  <2>1. (full[p] \/ isFull) \in BOOLEAN
    OBVIOUS
  <2>2. full' \in [Peers -> BOOLEAN] /\ \A q \in Peers : q # p => full'[q] = full[q]
    BY Zenon, <1>0, <1>1, <1>3, <2>1
  <2> QED
    BY <1>2, <2>2
<1>6. /\ passed' \in [Peers -> Seq(Nat)]
      /\ pend' \in [Peers -> [from : 0..MaxSent, to : 0..MaxSent]]
  <2>1. /\ passed[p] \o accepted \in Seq(Nat)
        /\ rest \in [from : 0..MaxSent, to : 0..MaxSent]
    BY <1>2 DEF SslCarried, p
  <2> QED
    BY <1>0, <1>1, <1>3, <2>1
<1>7. due' \in 0..BufSize /\ written[p] <= read[p] /\ read[p] <= read[p]
  BY <1>1, <1>3
<1>8. Carried(p)
  BY <1>0, <1>1, <1>4, <1>5, <1>6, <1>7 DEF Carried, SslCarried, p
<1> QED
  BY <1>0, <1>8, CarryKeeps

LEMMA SslWriteKeeps == ASSUME TIInv, SslWrite PROVE TIInv'
<1> DEFINE p == "client"
           w == written[p]
           r == read[p]
<1>0. p \in Peers /\ pc = "write" /\ side = p /\ ~Holds(p) /\ AtSslWrite
  BY DEF SslWrite, AtSslWrite, Peers
<1>1. \/ SslWriteEnds(Bytes(w, r), NoRecord, FALSE)
      \/ SslWriteEnds(<<>>, [from |-> w, to |-> r], TRUE)
  BY DEF SslWrite
<1> HIDE DEF p
<1>2. /\ w \in Nat /\ r \in Nat /\ w <= r /\ r \in 0..MaxSent /\ w \in 0..MaxSent
      /\ MaxSent \in Nat
      /\ passed[p] \in Seq(Nat) /\ Len(passed[p]) \in Nat /\ Increasing(passed[p])
      /\ Within(passed[p], w)
      /\ ~full[p] /\ ~gone[Other(p)] => Len(passed[p]) = w
  BY <1>0, WriteFacts
<1>3. CASE SslWriteEnds(Bytes(w, r), NoRecord, FALSE)
  <2>1. /\ passed'[p] = passed[p] \o Bytes(w, r) /\ pend'[p] = NoRecord
        /\ full'[p] = (full[p] \/ FALSE)
    BY <1>0, <1>3, SslEndFacts DEF p
  <2>2. /\ passed'[p] \in Seq(Nat) /\ Len(passed'[p]) = Len(passed[p]) + r - w
        /\ Within(passed'[p], r) /\ Increasing(passed'[p])
    <3>1. /\ passed[p] \in Seq(Nat) /\ w \in Nat /\ r \in Nat /\ w <= r /\ w <= w
          /\ Within(passed[p], w) /\ Increasing(passed[p])
      BY <1>2
    <3> QED
      BY <2>1, <3>1, AppendRun
  <2>3. /\ NoRecord \in [from : 0..MaxSent, to : 0..MaxSent]
        /\ NoRecord.from = 0 /\ NoRecord.to = 0 /\ 0 <= 0 /\ 0 <= r
    BY <1>2 DEF NoRecord
  <2>4. ~full'[p] /\ ~gone[Other(p)] => Len(passed'[p]) + (0 - 0) = r
    <3>1. /\ Len(passed[p]) \in Nat /\ w \in Nat /\ r \in Nat
          /\ ~full[p] /\ ~gone[Other(p)] => Len(passed[p]) = w
      BY <1>2
    <3>2. ~full'[p] => ~full[p]
      BY <2>1
    <3> HIDE DEF w, r
    <3> QED
      BY <2>2, <3>1, <3>2
  <2>5. SslCarried
    BY <2>1, <2>2, <2>3, <2>4 DEF SslCarried, p
  <2> QED
    BY <1>0, <1>3, <2>5, SslEndKeeps
<1>4. CASE SslWriteEnds(<<>>, [from |-> w, to |-> r], TRUE)
  <2>1. /\ passed'[p] = passed[p] \o <<>> /\ pend'[p] = [from |-> w, to |-> r]
        /\ full'[p] = (full[p] \/ TRUE)
    BY <1>0, <1>4, SslEndFacts DEF p
  <2>2. passed'[p] = passed[p]
    BY <1>2, <2>1, ConcatEmptySeq
  <2>3. Within(passed[p], r)
    BY <1>2 DEF Within
  <2>4. /\ pend'[p] \in [from : 0..MaxSent, to : 0..MaxSent]
        /\ pend'[p].from = w /\ pend'[p].to = r /\ w <= r /\ r <= r
    BY <1>2, <2>1
  <2>5. SslCarried
    BY <1>2, <2>1, <2>2, <2>3, <2>4 DEF SslCarried, p
  <2> QED
    BY <1>0, <1>4, <2>5, SslEndKeeps
<1> QED
  BY <1>1, <1>3, <1>4

(* The record held goes out first, and what is sent or held after it is    *)
(* the rest of a later chunk: bytes may be lost in between, never moved.   *)
LEMMA SslWriteAgainKeeps == ASSUME TIInv, SslWriteAgain PROVE TIInv'
<1> DEFINE p == "client"
           from == pend[p].from
           to == pend[p].to
           next == written[p] + due
           r == read[p]
<1>0. /\ p \in Peers /\ pc = "write" /\ side = p /\ Holds(p) /\ AtSslWrite
      /\ full[p] /\ Chunk >= due
  BY DEF SslWriteAgain, AtSslWrite, Peers, TIInv
<1>1. \/ SslWriteEnds(Bytes(from, to), NoRecord, TRUE)
      \/ SslWriteEnds(Bytes(from, to) \o Bytes(next, r), NoRecord, TRUE)
      \/ SslWriteEnds(Bytes(from, to), [from |-> next, to |-> r], TRUE)
  BY DEF SslWriteAgain, HeldBytes
<1> HIDE DEF p
<1>2. /\ written[p] \in Nat /\ due \in Nat /\ due <= r - written[p]
      /\ from \in Nat /\ to \in Nat /\ r \in Nat /\ next \in Nat /\ MaxSent \in Nat
      /\ from <= to /\ to <= written[p] /\ written[p] <= next /\ next <= r
      /\ r \in 0..MaxSent /\ next \in 0..MaxSent
      /\ passed[p] \in Seq(Nat) /\ Increasing(passed[p]) /\ Within(passed[p], from)
  <2>1. /\ written[p] \in Nat /\ r \in Nat /\ due \in 0..BufSize /\ BufSize \in Nat
        /\ Chunk = r - written[p] /\ MaxSent \in Nat /\ r \in 0..MaxSent
        /\ from \in Nat /\ to \in Nat /\ from <= to /\ to <= written[p]
        /\ passed[p] \in Seq(Nat) /\ Increasing(passed[p]) /\ Within(passed[p], from)
    BY <1>0, WriteFacts
  <2> QED
    BY <1>0, <2>1, SMTT(20)
<1> HIDE DEF from, to, next, r
<1>3. /\ Bytes(from, to) \in Seq(Nat) /\ Bytes(next, r) \in Seq(Nat)
      /\ NoRecord \in [from : 0..MaxSent, to : 0..MaxSent]
      /\ NoRecord.from = 0 /\ NoRecord.to = 0
  <2>1. \A m, n \in Nat : m <= n => Bytes(m, n) \in Seq(Nat)
    BY DEF Bytes
  <2>2. from <= to /\ next <= r /\ NoRecord \in [from : 0..MaxSent, to : 0..MaxSent]
    BY <1>2 DEF NoRecord
  <2> QED
    BY <1>2, <2>1, <2>2 DEF NoRecord
<1>4. ASSUME NEW s \in Seq(Nat), s = passed[p] \o Bytes(from, to)
      PROVE  Within(s, to) /\ Increasing(s) /\ Within(s, r) /\ Within(s, next)
  <2>1. from <= from
    BY <1>2
  <2>2. Within(s, to) /\ Increasing(s)
    <3>1. /\ passed[p] \in Seq(Nat) /\ from \in Nat /\ to \in Nat /\ from <= to
          /\ Within(passed[p], from) /\ Increasing(passed[p])
      BY <1>2
    <3> QED
      BY <1>4, <2>1, <3>1, AppendRun
  <2>3. to \in Nat /\ to <= r /\ to <= next /\ r \in Nat /\ next \in Nat
    BY <1>2
  <2>4. Within(s, r) /\ Within(s, next)
    BY <2>2, <2>3 DEF Within
  <2> QED
    BY <2>2, <2>4
<1>5. passed[p] \o Bytes(from, to) \in Seq(Nat)
  BY <1>2, <1>3, ConcatProperties
<1>6. CASE SslWriteEnds(Bytes(from, to), NoRecord, TRUE)
  <2>1. /\ passed'[p] = passed[p] \o Bytes(from, to) /\ pend'[p] = NoRecord /\ full'[p]
    BY <1>0, <1>6, SslEndFacts DEF p
  <2>2. passed'[p] \in Seq(Nat) /\ Increasing(passed'[p]) /\ Within(passed'[p], r)
    BY <1>4, <1>5, <2>1
  <2>3. 0 <= 0 /\ 0 <= r
    BY <1>2
  <2>4. SslCarried
    BY <1>3, <2>1, <2>2, <2>3 DEF SslCarried, p, r
  <2> QED
    BY <1>0, <1>6, <2>4, SslEndKeeps
<1>7. CASE SslWriteEnds(Bytes(from, to) \o Bytes(next, r), NoRecord, TRUE)
  <2>1. /\ passed'[p] = passed[p] \o (Bytes(from, to) \o Bytes(next, r))
        /\ pend'[p] = NoRecord /\ full'[p]
    BY <1>0, <1>7, SslEndFacts DEF p
  <2>2. passed'[p] = (passed[p] \o Bytes(from, to)) \o Bytes(next, r)
    <3>1. /\ passed[p] \in Seq(Nat) /\ Bytes(from, to) \in Seq(Nat)
          /\ Bytes(next, r) \in Seq(Nat)
      BY <1>2, <1>3
    <3>2. (passed[p] \o Bytes(from, to)) \o Bytes(next, r)
            = passed[p] \o (Bytes(from, to) \o Bytes(next, r))
      <4>1. \A s, t, u \in Seq(Nat) : (s \o t) \o u = s \o (t \o u)
        <5> TAKE s, t, u \in Seq(Nat)
        <5> QED
          BY ConcatAssociative, SMTT(30)
      <4> QED
        BY <3>1, <4>1, Zenon
    <3> QED
      BY <2>1, <3>2
  <2>3. /\ Within(passed[p] \o Bytes(from, to), next)
        /\ Increasing(passed[p] \o Bytes(from, to))
    BY <1>4, <1>5
  <2>4. passed'[p] \in Seq(Nat) /\ Increasing(passed'[p]) /\ Within(passed'[p], r)
    <3>1. next \in Nat /\ r \in Nat /\ next <= next /\ next <= r
      BY <1>2
    <3> QED
      BY <1>5, <2>2, <2>3, <3>1, AppendRun
  <2>5. 0 <= 0 /\ 0 <= r
    BY <1>2
  <2>6. SslCarried
    BY <1>3, <2>1, <2>4, <2>5 DEF SslCarried, p, r
  <2> QED
    BY <1>0, <1>7, <2>6, SslEndKeeps
<1>8. CASE SslWriteEnds(Bytes(from, to), [from |-> next, to |-> r], TRUE)
  <2>1. /\ passed'[p] = passed[p] \o Bytes(from, to)
        /\ pend'[p] = [from |-> next, to |-> r] /\ full'[p]
    BY <1>0, <1>8, SslEndFacts DEF p
  <2>2. /\ passed'[p] \in Seq(Nat) /\ Increasing(passed'[p])
        /\ Within(passed'[p], r) /\ Within(passed'[p], next)
    BY <1>4, <1>5, <2>1
  <2>3. /\ pend'[p] \in [from : 0..MaxSent, to : 0..MaxSent]
        /\ pend'[p].from = next /\ pend'[p].to = r /\ next <= r /\ r <= r
    BY <1>2, <2>1
  <2>4. SslCarried
    BY <2>1, <2>2, <2>3 DEF SslCarried, p, r
  <2> QED
    BY <1>0, <1>8, <2>4, SslEndKeeps
<1> QED
  BY <1>1, <1>6, <1>7, <1>8

-----------------------------------------------------------------------------
(* The peers: a browser in its handshake sends nothing.                    *)
LEMMA TPeerStepKeeps == ASSUME TIInv, NEW p \in Peers, TPeerStep(p) PROVE TIInv'
<1>0. /\ pc # "done" /\ PeerStep(p) /\ TTypeOK /\ InOrder
      /\ UNCHANGED <<pc, side, read, written, passed, full, tls, shake, pend, due, broken>>
  BY DEF TPeerStep, PeerStep, tlsVars, TIInv
<1>1. /\ sent' \in [Peers -> 0..MaxSent] /\ \A q \in Peers : sent[q] <= sent'[q]
      /\ shake = "waiting" => sent'["client"] = sent["client"]
  <2>1. CASE Send(p)
    <3>1. sent \in [Peers -> 0..MaxSent] /\ MaxSent \in Nat
      BY <1>0, RelayAssumption DEF TTypeOK, TypeOK, RelayAssumption
    <3>2. sent' = [sent EXCEPT ![p] = @ + 1] /\ sent[p] < MaxSent
      BY <2>1 DEF Send
    <3>3. sent'[p] # sent[p]
      BY <3>1, <3>2
    <3>4. p = "client" => shake # "waiting"
      BY <3>3 DEF TPeerStep
    <3> QED
      BY <3>1, <3>2, <3>4 DEF Peers
  <2>2. CASE Close(p) \/ Reset(p) \/ Take(p)
    BY <1>0, <2>2, RelayAssumption, SMTT(20)
       DEF Close, Reset, Take, TTypeOK, TypeOK, RelayAssumption
  <2> QED
    BY <1>0, <2>1, <2>2 DEF PeerStep
<1>2. /\ closed' \in [Peers -> BOOLEAN] /\ gone' \in [Peers -> BOOLEAN]
      /\ \A q \in Peers : gone[q] => gone'[q]
  <2>1. closed \in [Peers -> BOOLEAN] /\ gone \in [Peers -> BOOLEAN]
    BY <1>0 DEF TTypeOK, TypeOK
  <2>2. CASE Close(p)
    BY Zenon, <2>1, <2>2 DEF Close
  <2>3. CASE Reset(p)
    BY Zenon, <2>1, <2>3 DEF Reset
  <2>4. CASE Send(p) \/ Take(p)
    BY <2>1, <2>4 DEF Send, Take
  <2> QED
    BY <1>0, <2>2, <2>3, <2>4 DEF PeerStep
<1>3. taken' \in [Peers -> Nat]
  <2>1. taken \in [Peers -> Nat]
    BY <1>0 DEF TTypeOK, TypeOK
  <2>2. CASE Take(p)
    BY <2>1, <2>2 DEF Take, Other, Peers
  <2>3. CASE Send(p) \/ Close(p) \/ Reset(p)
    BY <2>1, <2>3 DEF Send, Close, Reset
  <2> QED
    BY <1>0, <2>2, <2>3 DEF PeerStep
<1>4. TTypeOK'
  BY <1>0, <1>1, <1>2, <1>3 DEF TTypeOK, TypeOK
<1>8. \A q \in Peers : sent[q] \in Nat /\ sent'[q] \in Nat /\ sent[q] <= sent'[q]
  <2>1. MaxSent \in Nat /\ sent \in [Peers -> 0..MaxSent]
    BY <1>0, RelayAssumption DEF TTypeOK, TypeOK, RelayAssumption
  <2> QED
    BY <1>1, <2>1
<1>5. InOrder'
  BY <1>0, <1>8 DEF InOrder, Within
<1>6. TLossHasCause' /\ HeldComesNext' /\ TEndsAtEndOfStream'
  BY <1>0, <1>2 DEF TIInv, TLossHasCause, HeldComesNext, TEndsAtEndOfStream, HeldCount,
                    Holds, Other, Peers
<1>7. ASSUME NEW q \in Peers PROVE TCounted(q)'
  <2>1. /\ sent[q] \in Nat /\ sent'[q] \in Nat /\ sent[q] <= sent'[q] /\ read[q] \in Nat
        /\ TCounted(q)
    BY <1>7, <1>8, TFacts
  <2> QED
    BY <1>0, <2>1 DEF TCounted
<1> QED
  BY <1>0, <1>1, <1>4, <1>5, <1>6, <1>7 DEF TIInv, Holds

LEMMA TStutterKeeps == ASSUME TIInv, UNCHANGED allVars PROVE TIInv'
<1>1. /\ UNCHANGED <<read, written, passed, full, peerVars, tls, pend, due, broken>>
      /\ UNCHANGED <<pc, side, shake>>
  BY DEF allVars, vars, tlsVars
<1>2. TEndsAtEndOfStream' /\ pc' \in {"read", "write", "done"} /\ side' \in Peers
  BY <1>1 DEF TIInv, TTypeOK, TypeOK, TEndsAtEndOfStream, HeldCount, peerVars
<1> QED
  BY <1>1, <1>2, MoveKeeps

THEOREM TInvariance == TSpec => []TIInv
<1>1. ASSUME TIInv, [TNext]_allVars PROVE TIInv'
  <2>1. CASE TLoop
    BY <1>1, <2>1, HandshakeKeeps, FlushKeeps, TReadBytesKeeps, TReadEofKeeps,
       TReadNothingKeeps, ReadFailsKeeps, SslWriteKeeps, SslWriteAgainKeeps,
       TlsWriteKeeps, PlainWriteKeeps, LosingWriteKeeps
       DEF TLoop, ReadClient, ReadRemote
  <2>2. CASE BrowserReady \/ UNCHANGED allVars
    BY <1>1, <2>2, HandshakeKeeps, TStutterKeeps
  <2>3. CASE \E p \in Peers : TPeerStep(p)
    BY <1>1, <2>3, TPeerStepKeeps
  <2> QED
    BY <1>1, <2>1, <2>2, <2>3 DEF TNext
<1> QED
  BY <1>1, TInitTIInv, PTL DEF TSpec

(* Every variable keeps to its type, the counters to their bounds.         *)
THEOREM TTypeCorrect == TSpec => []TTypeOK
<1>1. TIInv => TTypeOK
  BY DEF TIInv
<1> QED
  BY <1>1, TInvariance, PTL

(* Whatever the sessions hold, are given again or refuse, relay_tls never  *)
(* reorders or repeats bytes, nor makes any up.                            *)
THEOREM TOrderKept == TSpec => []InOrder
<1>1. TIInv => InOrder
  BY DEF TIInv
<1> QED
  BY <1>1, TInvariance, PTL

(* Only a write without room (or before the browser's handshake is over)   *)
(* or a reset peer makes relay_tls lose bytes.                             *)
THEOREM TLossExplained == TSpec => []TLossHasCause
<1>1. TIInv => TLossHasCause
  BY DEF TIInv
<1> QED
  BY <1>1, TInvariance, PTL

(* What a session holds comes after all it has sent, and the backend's     *)
(* session fails only after a write without room.                          *)
THEOREM HeldInOrder == TSpec => []HeldComesNext
<1>1. TIInv => HeldComesNext
  BY DEF TIInv
<1> QED
  BY <1>1, TInvariance, PTL

(* A relay nobody resets, and whose backend session is whole, ends at the  *)
(* end of a stream it has carried over.                                    *)
THEOREM TEndExplained == TSpec => []TEndsAtEndOfStream
<1>1. TIInv => TEndsAtEndOfStream
  BY DEF TIInv
<1> QED
  BY <1>1, TInvariance, PTL
=============================================================================
