------------------------------ MODULE TlsRelay ------------------------------
(***************************************************************************)
(* relay_tls (src/proxy.rs:261-290): the loop of relay_plain over TLS.     *)
(* The peer "remote" is the backend, an OpenSSL session; the client is the *)
(* browser's rustls session (handle_mitm) or, for a plain HTTP request,    *)
(* its socket.  Both sockets are non-blocking by then, so every write may  *)
(* fail with WouldBlock, which the loop ignores; what the two libraries    *)
(* keep of such a write decides what becomes of the bytes.                 *)
(*                                                                         *)
(* A chunk is one TLS record.  It reaches the peer whole or not at all, so *)
(* it goes out when the socket has room for all of it.                     *)
(***************************************************************************)
EXTENDS Relay

CONSTANT MaxTotal   \* bound on the bytes both peers send together

ASSUME TlsRelayAssumption == Room >= BufSize /\ MaxTotal \in Nat

VARIABLES
    tls,        \* is the client a TLS session?
    shake,      \* the browser's handshake: "waiting" for its last message,
                \* which is "ready" to be read, or "done"
    pend,       \* [Peers -> the record of its bytes a session still holds]
    due,        \* bytes OpenSSL expects the next write to begin with
    broken      \* has the OpenSSL session failed for good?

tlsVars == <<tls, shake, pend, due, broken>>
allVars == <<vars, tlsVars>>

NoRecord == [from |-> 0, to |-> 0]

TInit ==
    /\ Init
    /\ tls \in BOOLEAN
    /\ shake = IF tls THEN "waiting" ELSE "done"
    /\ pend = [p \in Peers |-> NoRecord]
    /\ due = 0
    /\ broken = FALSE

Bytes(from, to) == [i \in 1..(to - from) |-> from + i]
Holds(p) == pend[p] # NoRecord
Fits(p, n) == Buffered(p) + n <= Room
HeldFits(p) == Fits(p, pend[p].to - pend[p].from)
HeldBytes(p) == Bytes(pend[p].from, pend[p].to)
Chunk == read[side] - written[side]

-----------------------------------------------------------------------------
(* rustls::Stream finishes earlier business before each read and write     *)
(* (complete_prior_io): the handshake, and output that did not fit.        *)

AtClient ==
    \/ pc = "read" /\ side = "client"
    \/ pc = "write" /\ side = "remote"

Handshake ==
    /\ AtClient
    /\ shake = "ready"
    /\ shake' = "done"
    /\ UNCHANGED <<vars, tls, pend, due, broken>>

\* Mutant: output the session holds is thrown away instead of sent.
FlushForgets ==
    /\ AtClient
    /\ ~gone["client"]
    /\ Holds("remote") /\ HeldFits("remote")
    /\ pend' = [pend EXCEPT !["remote"] = NoRecord]
    /\ UNCHANGED <<pc, side, read, written, passed, full, peerVars>>
    /\ UNCHANGED <<tls, shake, due, broken>>

Flush ==
    /\ AtClient
    /\ ~gone["client"]
    /\ Holds("remote") /\ HeldFits("remote")
    /\ passed' = [passed EXCEPT !["remote"] = @ \o HeldBytes("remote")]
    /\ pend' = [pend EXCEPT !["remote"] = NoRecord]
    /\ UNCHANGED <<pc, side, read, written, full, peerVars>>
    /\ UNCHANGED <<tls, shake, due, broken>>

\* Mutant: output the session holds is not waited for.
ClearEarly == shake = "done"

Clear == shake = "done" /\ ~Holds("remote")

Blocked ==
    \/ shake = "waiting"
    \/ Holds("remote") /\ ~HeldFits("remote")

-----------------------------------------------------------------------------
(* With earlier business unfinished client.read reads nothing, and does not *)
(* see that the browser has closed, except during the handshake.           *)

ReadClient ==
    /\ side = "client" /\ Clear
    /\ ReadBytes \/ ReadEof \/ ReadNothing
    /\ UNCHANGED tlsVars

ReadClientBlocked ==
    /\ pc = "read" /\ side = "client"
    /\ ~gone["client"]
    /\ Blocked
    /\ shake = "waiting" => ~closed["client"]
    /\ side' = "remote"
    /\ UNCHANGED <<pc, read, written, passed, full, peerVars, tlsVars>>

ReadRemote ==
    /\ side = "remote" /\ ~broken
    /\ ReadBytes \/ ReadEof \/ ReadNothing
    /\ UNCHANGED tlsVars

(* Any other error of a read ends the relay.                               *)
Failed ==
    \/ gone[side]
    \/ side = "remote" /\ broken
    \/ side = "client" /\ shake = "waiting" /\ closed["client"]

\* Mutant: an error of the OpenSSL session is taken for WouldBlock.
ReadFailsOnReset ==
    /\ pc = "read" /\ Failed
    /\ IF gone[side] THEN pc' = "done" /\ UNCHANGED side
                     ELSE side' = Other(side) /\ UNCHANGED pc
    /\ UNCHANGED <<read, written, passed, full, peerVars, tlsVars>>

ReadFails ==
    /\ pc = "read" /\ Failed
    /\ pc' = "done"
    /\ UNCHANGED <<side, read, written, passed, full, peerVars, tlsVars>>

-----------------------------------------------------------------------------
(* backend.write_all: SSL_write without partial-write mode.  A write that  *)
(* blocks leaves its record in the session; the next one is taken for its  *)
(* repetition, whatever its bytes are: they count as sent up to the length *)
(* due, and a write shorter than that is a fatal error.                    *)

SslWriteEnds(accepted, rest, isFull) ==
    /\ passed' = [passed EXCEPT !["client"] = @ \o accepted]
    /\ pend' = [pend EXCEPT !["client"] = rest]
    /\ due' = IF rest = NoRecord THEN 0 ELSE Chunk
    /\ full' = [full EXCEPT !["client"] = @ \/ isFull]
    /\ written' = [written EXCEPT !["client"] = read["client"]]
    /\ pc' = "read"
    /\ side' = "remote"
    /\ UNCHANGED <<read, peerVars, tls, shake, broken>>

AtSslWrite ==
    /\ pc = "write" /\ side = "client"
    /\ ~gone["remote"] /\ ~broken

SslWrite ==
    LET new == [from |-> written["client"], to |-> read["client"]] IN
    /\ AtSslWrite
    /\ ~Holds("client")
    /\ IF Fits("client", Chunk)
         THEN SslWriteEnds(Bytes(new.from, new.to), NoRecord, FALSE)
         ELSE SslWriteEnds(<<>>, new, TRUE)

\* Mutant: the bytes before those due are sent again with the record held.
SslWriteAgainRepeats ==
    LET new == [from |-> written["client"], to |-> read["client"]] IN
    /\ AtSslWrite
    /\ Holds("client") /\ HeldFits("client")
    /\ Chunk >= due
    /\ SslWriteEnds(HeldBytes("client") \o HeldBytes("client"), NoRecord, TRUE)

SslWriteAgain ==
    LET held == pend["client"].to - pend["client"].from
        new == [from |-> written["client"] + due, to |-> read["client"]] IN
    /\ AtSslWrite
    /\ Holds("client") /\ HeldFits("client")
    /\ Chunk >= due
    /\ IF Chunk = due
         THEN SslWriteEnds(HeldBytes("client"), NoRecord, TRUE)
         ELSE IF Fits("client", held + Chunk - due)
                THEN SslWriteEnds(HeldBytes("client") \o Bytes(new.from, new.to), NoRecord, TRUE)
                ELSE SslWriteEnds(HeldBytes("client"), new, TRUE)

SslWriteShort ==
    /\ AtSslWrite
    /\ Holds("client")
    /\ Chunk < due
    /\ WriteEnds
    /\ broken' = TRUE
    /\ UNCHANGED <<full, tls, shake, pend, due>>

-----------------------------------------------------------------------------
(* client.write_all.  rustls takes the whole chunk and sends what fits; a  *)
(* plain socket behaves as in relay_plain.                                 *)

TlsWrite ==
    /\ tls /\ pc = "write" /\ side = "remote"
    /\ ~gone["client"]
    /\ Clear
    /\ pc' = "read" /\ side' = "client"
    /\ written' = [written EXCEPT !["remote"] = read["remote"]]
    /\ IF Fits("remote", Chunk)
         THEN /\ passed' = [passed EXCEPT !["remote"] =
                                @ \o Bytes(written["remote"], read["remote"])]
              /\ UNCHANGED pend
         ELSE /\ pend' = [pend EXCEPT !["remote"] =
                              [from |-> written["remote"], to |-> read["remote"]]]
              /\ UNCHANGED passed
    /\ UNCHANGED <<read, full, peerVars, tls, shake, due, broken>>

PlainWrite ==
    /\ ~tls /\ side = "remote"
    /\ WriteByte \/ WriteDone \/ WriteWouldBlock
    /\ UNCHANGED tlsVars

\* Mutant: the refused chunk is written until it is taken.
WriteRefusedWaits ==
    /\ pc = "write"
    /\ ~gone[Other(side)]
    /\ side = "remote" /\ tls /\ Blocked
    /\ UNCHANGED <<vars, tlsVars>>

(* A chunk that comes before the last one is out is refused: WouldBlock,   *)
(* and the loop goes on without it.                                        *)
WriteRefused ==
    /\ pc = "write"
    /\ ~gone[Other(side)]
    /\ \/ side = "client" /\ Holds("client") /\ ~HeldFits("client") /\ Chunk >= due
       \/ side = "remote" /\ tls /\ Blocked
    /\ WriteEnds
    /\ full' = [full EXCEPT ![side] = TRUE]
    /\ UNCHANGED tlsVars

(* The error of a reset connection is ignored as WouldBlock is.            *)
WriteFails ==
    /\ pc = "write"
    /\ gone[Other(side)] \/ (side = "client" /\ broken)
    /\ WriteEnds
    /\ UNCHANGED <<full, tlsVars>>

TLoop ==
    \/ Handshake \/ Flush
    \/ ReadClient \/ ReadClientBlocked \/ ReadRemote \/ ReadFails
    \/ SslWrite \/ SslWriteAgain \/ SslWriteShort \/ TlsWrite \/ PlainWrite
    \/ WriteRefused \/ WriteFails

-----------------------------------------------------------------------------
(* The browser ends its handshake before it sends a byte of a request.     *)
BrowserReady ==
    /\ shake = "waiting"
    /\ ~closed["client"] /\ ~gone["client"]
    /\ shake' = "ready"
    /\ UNCHANGED <<vars, tls, pend, due, broken>>

TPeerStep(p) ==
    /\ pc # "done"
    /\ PeerStep(p)
    /\ sent'[p] # sent[p] =>
          /\ p = "client" => shake # "waiting"
          /\ sent["client"] + sent["remote"] < MaxTotal
    /\ UNCHANGED tlsVars

TNext == TLoop \/ BrowserReady \/ \E p \in Peers : TPeerStep(p)

TSpec == TInit /\ [][TNext]_allVars

TFairSpec == TSpec /\ WF_allVars(TLoop)

-----------------------------------------------------------------------------
TTypeOK ==
    /\ TypeOK
    /\ tls \in BOOLEAN
    /\ shake \in {"waiting", "ready", "done"}
    /\ pend \in [Peers -> [from : 0..MaxSent, to : 0..MaxSent]]
    /\ due \in 0..BufSize
    /\ broken \in BOOLEAN

HeldCount(p) == pend[p].to - pend[p].from

(* Bytes the relay has read reach the other peer, are held by its session, *)
(* or were lost after a write that found no room (or, on the way to the    *)
(* browser, an unfinished handshake), or with a connection that was reset. *)
TLossHasCause ==
    \A p \in Peers :
        ~full[p] /\ ~gone[Other(p)] => Len(passed[p]) + HeldCount(p) = written[p]

(* A session never holds a record older than what it has already sent, and *)
(* a session that has failed did so after a write found no room.           *)
HeldComesNext ==
    /\ \A p \in Peers : Holds(p) => Within(passed[p], pend[p].from)
    /\ broken => full["client"]

(* Unless a peer resets it, or the backend's session fails, the relay ends *)
(* by the end of a stream that was carried to its last byte: to the other  *)
(* peer, or to its session (which the end of the relay throws away).       *)
TEndsAtEndOfStream ==
    pc = "done" /\ ~broken /\ (\A p \in Peers : ~gone[p]) =>
        \E p \in Peers : closed[p] /\ (full[p] \/ Len(passed[p]) + HeldCount(p) = sent[p])

(* The inductive invariant.  A session holds bytes between those that went *)
(* out and those the relay is done with; OpenSSL's only after a write that *)
(* found no room, the browser's only if it is one.  Before its handshake   *)
(* the browser has sent nothing, so leaving then loses nothing.            *)
TCounted(p) ==
    /\ written[p] <= read[p] /\ read[p] <= sent[p]
    /\ pend[p].from <= pend[p].to /\ pend[p].to <= written[p]
    /\ Within(passed[p], written[p])
    /\ written[p] = read[p] \/ (pc = "write" /\ p = side)
    /\ read[p] - written[p] <= BufSize

TIInv ==
    /\ TTypeOK
    /\ InOrder
    /\ TLossHasCause
    /\ HeldComesNext
    /\ TEndsAtEndOfStream
    /\ \A p \in Peers : TCounted(p)
    /\ Holds("client") => full["client"]
    /\ Holds("remote") => tls
    /\ shake = "waiting" => sent["client"] = 0

(* A backend that ends its stream, resets, or whose session has failed     *)
(* ends the relay, even if the browser reads nothing.                      *)
BackendEndsRelay ==
    closed["remote"] \/ gone["remote"] \/ broken ~> pc = "done"

(* The backend's bytes are read whatever the browser does.                 *)
BackendIsRead ==
    \A n \in 1..MaxSent : sent["remote"] >= n ~> (read["remote"] >= n \/ pc = "done")

(* A browser that goes on taking what it is sent, and has ended its        *)
(* handshake, is read, is heard when it leaves, and receives every byte    *)
(* of which no write was refused.                                          *)
BrowserIsServed ==
    []<>(Buffered("remote") = 0) =>
        /\ closed["client"] \/ gone["client"] ~> pc = "done"
        /\ \A n \in 1..MaxSent :
              sent["client"] >= n ~> (read["client"] >= n \/ pc = "done")
        /\ \A n \in 1..MaxSent :
              sent["remote"] >= n ~>
                 (Len(passed["remote"]) >= n \/ full["remote"] \/ pc = "done")
=============================================================================
