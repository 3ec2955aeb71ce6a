-------------------------------- MODULE Relay --------------------------------
(***************************************************************************)
(* relay_plain (src/proxy.rs:238-259): the loop that carries a CONNECT     *)
(* tunnel's bytes between the browser and the remote server, once          *)
(* handle_tunnel has made both sockets non-blocking.                       *)
(*                                                                         *)
(* A byte is its position in the stream of the peer that sent it.  A       *)
(* socket's send buffer has room for Room bytes the peer has not taken.    *)
(* write_all is a run of write() calls; each hands over at least a byte or *)
(* finds the buffer full and fails with WouldBlock, an error relay_plain   *)
(* ignores along with the bytes not yet written.                           *)
(***************************************************************************)
EXTENDS Integers, Sequences

CONSTANTS
    MaxSent,    \* bound on the bytes each peer sends
    BufSize,    \* the length of buf, 8192 in the code
    Room        \* what the kernel buffers for a peer that does not read

ASSUME RelayAssumption ==
    /\ MaxSent \in Nat
    /\ BufSize \in Nat \ {0}
    /\ Room \in Nat \ {0}

Peers == {"client", "remote"}
Other(p) == IF p = "client" THEN "remote" ELSE "client"

VARIABLES
    pc,         \* what the loop does next
    side,       \* the peer it reads from, or whose bytes it writes
    sent,       \* [Peers -> number of bytes the peer has sent]
    closed,     \* [Peers -> has it shut down its sending side?]
    gone,       \* [Peers -> has it reset the connection?]
    read,       \* [Peers -> number of its bytes the relay has read]
    written,    \* of those, how many write_all is done with
    passed,     \* [Peers -> the bytes of it accepted for the other peer]
    taken,      \* [Peers -> how many of them the other peer has received]
    full        \* history: [Peers -> did a write of its bytes hit a full buffer?]

peerVars == <<sent, closed, gone, taken>>
vars == <<pc, side, read, written, passed, full, peerVars>>

Init ==
    /\ pc = "read"
    /\ side = "client"
    /\ sent = [p \in Peers |-> 0]
    /\ closed = [p \in Peers |-> FALSE]
    /\ gone = [p \in Peers |-> FALSE]
    /\ read = [p \in Peers |-> 0]
    /\ written = [p \in Peers |-> 0]
    /\ passed = [p \in Peers |-> <<>>]
    /\ taken = [p \in Peers |-> 0]
    /\ full = [p \in Peers |-> FALSE]

-----------------------------------------------------------------------------
(* read(&mut buf) on the socket of side.  What a peer sent before it reset *)
(* the connection may still be read, or may be gone with it.               *)

\* Mutant: the whole buffer is taken, however much read returned.
ReadBytesFull ==
    /\ pc = "read"
    /\ sent[side] > read[side]
    /\ read' = [read EXCEPT ![side] = @ + BufSize]
    /\ pc' = "write"
    /\ UNCHANGED <<side, written, passed, full, peerVars>>

ReadBytes ==
    /\ pc = "read"
    /\ \E n \in 1..BufSize :
          /\ n <= sent[side] - read[side]
          /\ read' = [read EXCEPT ![side] = @ + n]
    /\ pc' = "write"
    /\ UNCHANGED <<side, written, passed, full, peerVars>>

\* Mutant: Ok(0) is treated as nothing to read.
ReadEofIgnored ==
    /\ pc = "read"
    /\ ~gone[side]
    /\ closed[side] /\ read[side] = sent[side]
    /\ side' = Other(side)
    /\ UNCHANGED <<pc, read, written, passed, full, peerVars>>

ReadEof ==
    /\ pc = "read"
    /\ ~gone[side]
    /\ closed[side] /\ read[side] = sent[side]
    /\ pc' = "done"
    /\ UNCHANGED <<side, read, written, passed, full, peerVars>>

\* Mutant: WouldBlock ends the relay as any other error does.
ReadNothingEnds ==
    /\ pc = "read"
    /\ ~gone[side]
    /\ ~closed[side] /\ read[side] = sent[side]
    /\ pc' = "done"
    /\ UNCHANGED <<side, read, written, passed, full, peerVars>>

(* WouldBlock: nothing to read, go on with the other peer.                 *)
ReadNothing ==
    /\ pc = "read"
    /\ ~gone[side]
    /\ ~closed[side] /\ read[side] = sent[side]
    /\ side' = Other(side)
    /\ UNCHANGED <<pc, read, written, passed, full, peerVars>>

(* Any other error ends the relay.                                         *)
ReadError ==
    /\ pc = "read"
    /\ gone[side]
    /\ pc' = "done"
    /\ UNCHANGED <<side, read, written, passed, full, peerVars>>

-----------------------------------------------------------------------------
(* write_all(&buf[..n]) on the socket of Other(side).                      *)

Buffered(p) == Len(passed[p]) - taken[p]

\* Mutant: the bytes of a partial write are written again.
WriteByteRepeats ==
    /\ pc = "write"
    /\ ~gone[Other(side)]
    /\ written[side] < read[side]
    /\ Buffered(side) < Room
    /\ \E n \in {written[side], written[side] + 1} : written' = [written EXCEPT ![side] = n]
    /\ passed' = [passed EXCEPT ![side] = Append(@, written[side] + 1)]
    /\ UNCHANGED <<pc, side, read, full, peerVars>>

\* Mutant: a write starts one byte late in the buffer.
WriteByteLate ==
    /\ pc = "write"
    /\ ~gone[Other(side)]
    /\ written[side] < read[side]
    /\ Buffered(side) < Room
    /\ written' = [written EXCEPT ![side] = @ + 1]
    /\ passed' = [passed EXCEPT ![side] = Append(@, written[side] + 2)]
    /\ UNCHANGED <<pc, side, read, full, peerVars>>

WriteByte ==
    /\ pc = "write"
    /\ ~gone[Other(side)]
    /\ written[side] < read[side]
    /\ Buffered(side) < Room
    /\ written' = [written EXCEPT ![side] = @ + 1]
    /\ passed' = [passed EXCEPT ![side] = Append(@, written[side] + 1)]
    /\ UNCHANGED <<pc, side, read, full, peerVars>>

(* write_all is done, or fails; either way buf is read over next.          *)
WriteEnds ==
    /\ pc = "write"
    /\ pc' = "read"
    /\ side' = Other(side)
    /\ written' = [written EXCEPT ![side] = read[side]]
    /\ UNCHANGED <<read, passed, peerVars>>

\* Mutant: write instead of write_all.
WriteDonePartly ==
    /\ WriteEnds
    /\ UNCHANGED full

WriteDone ==
    /\ WriteEnds
    /\ written[side] = read[side]
    /\ UNCHANGED full

\* Mutant: a full buffer is waited for.
WriteWouldBlockWaits ==
    /\ pc = "write"
    /\ ~gone[Other(side)]
    /\ written[side] < read[side]
    /\ Buffered(side) = Room
    /\ full' = [full EXCEPT ![side] = TRUE]
    /\ UNCHANGED <<pc, side, read, written, passed, peerVars>>

WriteWouldBlock ==
    /\ WriteEnds
    /\ ~gone[Other(side)]
    /\ written[side] < read[side]
    /\ Buffered(side) = Room
    /\ full' = [full EXCEPT ![side] = TRUE]

WriteError ==
    /\ WriteEnds
    /\ gone[Other(side)]
    /\ written[side] < read[side]
    /\ UNCHANGED full

Loop ==
    \/ ReadBytes \/ ReadEof \/ ReadNothing \/ ReadError
    \/ WriteByte \/ WriteDone \/ WriteWouldBlock \/ WriteError

-----------------------------------------------------------------------------
(* The peers, which the relay cannot hurry.                                *)

Send(p) ==
    /\ ~closed[p] /\ ~gone[p]
    /\ sent[p] < MaxSent
    /\ sent' = [sent EXCEPT ![p] = @ + 1]
    /\ UNCHANGED <<closed, gone, taken>>

Close(p) ==
    /\ ~closed[p]
    /\ closed' = [closed EXCEPT ![p] = TRUE]
    /\ UNCHANGED <<sent, gone, taken>>

Reset(p) ==
    /\ ~gone[p]
    /\ gone' = [gone EXCEPT ![p] = TRUE]
    /\ UNCHANGED <<sent, closed, taken>>

Take(p) ==
    /\ ~gone[p]
    /\ Buffered(Other(p)) > 0
    /\ taken' = [taken EXCEPT ![Other(p)] = @ + 1]
    /\ UNCHANGED <<sent, closed, gone>>

PeerStep(p) ==
    /\ Send(p) \/ Close(p) \/ Reset(p) \/ Take(p)
    /\ UNCHANGED <<pc, side, read, written, passed, full>>

Next == Loop \/ \E p \in Peers : PeerStep(p)

Spec == Init /\ [][Next]_vars

(* The thread is scheduled.  The peers owe the relay nothing: they may     *)
(* send, close and take their bytes or not.                                *)
FairSpec == Spec /\ WF_vars(Loop)

-----------------------------------------------------------------------------
TypeOK ==
    /\ pc \in {"read", "write", "done"}
    /\ side \in Peers
    /\ sent \in [Peers -> 0..MaxSent]
    /\ closed \in [Peers -> BOOLEAN]
    /\ gone \in [Peers -> BOOLEAN]
    /\ read \in [Peers -> 0..MaxSent]
    /\ written \in [Peers -> 0..MaxSent]
    /\ passed \in [Peers -> Seq(Nat)]
    /\ taken \in [Peers -> Nat]
    /\ full \in [Peers -> BOOLEAN]

Increasing(s) == \A i, j \in 1..Len(s) : i < j => s[i] < s[j]
Within(s, n)  == \A i \in 1..Len(s) : s[i] \in 1..n

(* Whatever the chunks, partial writes and full buffers, a peer's bytes    *)
(* reach the other one in order, none twice, and none the peer has not     *)
(* sent.                                                                   *)
InOrder ==
    \A p \in Peers : Increasing(passed[p]) /\ Within(passed[p], sent[p])

(* Bytes the relay has read are lost to a full buffer or a reset peer, and *)
(* to nothing else.                                                        *)
LossHasCause ==
    \A p \in Peers :
        ~full[p] /\ ~gone[Other(p)] => Len(passed[p]) = written[p]

(* Unless a peer resets it, the tunnel ends by the end of a stream, and    *)
(* then this stream was carried to its last byte (if no buffer got full).  *)
EndsAtEndOfStream ==
    pc = "done" /\ (\A p \in Peers : ~gone[p]) =>
        \E p \in Peers : closed[p] /\ (full[p] \/ Len(passed[p]) = sent[p])

(* The inductive invariant: the relay holds unwritten bytes of one peer at *)
(* most, and only between a read and the end of its write_all.             *)
Counted(p) ==
    /\ written[p] <= read[p] /\ read[p] <= sent[p]
    /\ Len(passed[p]) <= written[p]
    /\ Within(passed[p], written[p])
    /\ written[p] = read[p] \/ (pc = "write" /\ p = side)

IInv ==
    /\ TypeOK
    /\ InOrder
    /\ LossHasCause
    /\ EndsAtEndOfStream
    /\ \A p \in Peers : Counted(p)

(* A peer that ends its stream, or resets, ends the tunnel, even if the    *)
(* other one neither reads nor closes.                                     *)
EofEndsTunnel ==
    \A p \in Peers : closed[p] \/ gone[p] ~> pc = "done"

(* A peer that takes nothing does not keep the other one's bytes, nor      *)
(* those sent to it, from being read.                                      *)
NoHeadOfLineBlocking ==
    \A p \in Peers : \A n \in 1..MaxSent :
        sent[p] >= n ~> (read[p] >= n \/ pc = "done")

(* "Other domains are not decrypted or modified; they are forwarded as     *)
(* plain TCP tunnels" (README.md:120): what a peer receives is what the    *)
(* other one sent, from the first byte on, without gaps.                   *)
Unmodified ==
    \A p \in Peers : \A i \in 1..Len(passed[p]) : passed[p][i] = i
=============================================================================
