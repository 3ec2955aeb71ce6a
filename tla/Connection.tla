----------------------------- MODULE Connection -----------------------------
(***************************************************************************)
(* handle_client (src/proxy.rs:11-206): one browser connection, from the   *)
(* request line to the relay.  Connections share nothing but EchCache, so  *)
(* one of them shows them all; the outcome of open_backend is what         *)
(* StrictEch promises: a stream over the host's own route, or an error.    *)
(*                                                                         *)
(* What the client sends is cut into units: the lines of the head, the     *)
(* last of which is blank, and pieces of what follows it.  handle_client   *)
(* reads the head through a BufReader, which takes whatever has arrived    *)
(* off the socket, and everything after the head or body straight from the *)
(* socket.  A unit is its position in the client's stream; a line that the *)
(* end of the stream cuts off is taken for the line, and a client that     *)
(* resets the connection for one that sent what was read and left.         *)
(***************************************************************************)
EXTENDS Integers, Sequences

CONSTANTS
    Targets,    \* host names is_target accepts
    Scripts     \* what a client may send: the method of its first request, or
                \* "none" for a request line of one word; its host; head, the
                \* number of lines of its head, bad, those of them that are not
                \* UTF-8, and lengthAt, the one with the Content-Length; length,
                \* its value; and ends[i], the units up to the end of its ith
                \* request

ASSUME ConnectionAssumption ==
    \A s \in Scripts :
        /\ s.method \in {"CONNECT", "GET", "none"}
        /\ s.head \in Nat /\ s.head >= 2
        /\ s.bad \subseteq 1..(s.head - 1)
        /\ s.lengthAt \in Nat /\ s.length \in Nat
        /\ s.ends \in Seq(Nat) \ {<<>>}
        /\ s.ends[1] >= s.head + s.length

VARIABLES
    script,     \* what this client sends, in units
    sent,       \* number of units it has sent
    closed,     \* has it closed the connection?
    fetched,    \* number of units read off the socket
    used,       \* number of units handle_client has seen; the others of
                \* those fetched are in the BufReader
    pc,         \* where the connection's thread is
    request,    \* what it will write to the backend: head and body
    want,       \* how many units that will be when the body is read
    tried,      \* how many of them it has tried to write
    backend,    \* the route and host of the open backend stream
    forwarded,  \* the units written to the backend
    lost,       \* history: has a write to the backend failed?
    replied,    \* was "200 Connection Established" sent?
    responses   \* number of responses relayed to the client

clientVars == <<script, sent, closed>>
requestVars == <<request, want, tried>>
backendVars == <<backend, forwarded, lost>>
answerVars == <<replied, responses>>
vars == <<clientVars, fetched, used, pc, requestVars, backendVars, answerVars>>

NoBackend == [route |-> "none"]

Made == 0                       \* what the proxy makes up: the blank line after a
                                \* head without one, a piece of vec![0u8; content_len]
Hello == script.head + 1        \* what opens a TLS handshake in a tunnel
Total == script.ends[Len(script.ends)]

(* The request handle_client parses: the first one.                        *)
IsConnect == script.method = "CONNECT"
IsTarget == script.host \in Targets

Init ==
    /\ script \in Scripts
    /\ sent = 0
    /\ closed = FALSE
    /\ fetched = 0
    /\ used = 0
    /\ pc = "line"
    /\ request = <<>> /\ want = 0 /\ tried = 0
    /\ backend = NoBackend /\ forwarded = <<>> /\ lost = FALSE
    /\ replied = FALSE /\ responses = 0

-----------------------------------------------------------------------------
(* Reading through the BufReader.                                          *)

Eof == closed /\ fetched = sent

Fill ==
    /\ pc \in {"line", "headers", "body"}
    /\ used = fetched
    /\ fetched' \in fetched + 1..sent
    /\ UNCHANGED <<clientVars, used, pc, requestVars, backendVars, answerVars>>

\* Mutant: read_line does not wait for the line.
ReadLineEarly ==
    /\ pc = "line"
    /\ ~Eof
    /\ used' = used + 1
    /\ request' = <<1>>
    /\ pc' = "headers"
    /\ UNCHANGED <<clientVars, fetched, want, tried, backendVars, answerVars>>

(* A request line that is not UTF-8 is read and is an error of read_line.  *)
ReadLine ==
    /\ pc = "line"
    /\ \/ /\ used < fetched /\ 1 \notin script.bad
          /\ used' = used + 1
          /\ request' = <<1>>
          /\ pc' = "headers"
       \/ /\ used < fetched /\ 1 \in script.bad
          /\ used' = used + 1
          /\ pc' = "done"
          /\ UNCHANGED request
       \/ /\ used = fetched /\ Eof
          /\ pc' = "done"
          /\ UNCHANGED <<used, request>>
    /\ UNCHANGED <<clientVars, fetched, want, tried, backendVars, answerVars>>

(* What handle_client, handle_connect and handle_http_request choose by    *)
(* the request line and the Content-Length.                                *)
Handler(length) ==
    IF IsConnect THEN IF IsTarget THEN "mitm" ELSE "tunnel"
    ELSE IF script.method = "none" THEN "done"
    ELSE IF length > 0 THEN "body" ELSE "open"

HeadEnds(lines, length) ==
    /\ request' = lines
    /\ want' = Len(lines) + length
    /\ pc' = Handler(length)

(* The Content-Length among the headers read so far.                       *)
Announced == IF script.lengthAt <= Len(request) THEN script.length ELSE 0

Header ==
    /\ used + 1 < script.head /\ used + 1 \notin script.bad
    /\ request' = Append(request, used + 1)
    /\ UNCHANGED <<pc, want>>

\* Mutant: the loop over the headers ends at the blank line only.
ReadHeadersForever ==
    /\ pc = "headers"
    /\ used < fetched
    /\ used' = used + 1
    /\ Header \/ (used + 1 >= script.head /\ HeadEnds(Append(request, used + 1), Announced))
    /\ UNCHANGED <<clientVars, fetched, tried, backendVars, answerVars>>

(* The headers end at the blank line, at a line that is not UTF-8, which   *)
(* read_line takes and reports as an error, or where the stream ends.  In  *)
(* the last case the request line may lack its second word, and the        *)
(* Content-Length some of its digits.                                      *)
ReadHeaders ==
    /\ pc = "headers"
    /\ \/ /\ used < fetched
          /\ used' = used + 1
          /\ \/ Header
             \/ used + 1 = script.head /\ HeadEnds(Append(request, used + 1), Announced)
             \/ used + 1 \in script.bad /\ HeadEnds(Append(request, Made), Announced)
       \/ /\ used = fetched /\ Eof
          /\ \/ \E length \in IF used = script.lengthAt THEN 0..script.length ELSE {Announced} :
                    HeadEnds(Append(request, Made), length)
             \/ used = 1 /\ pc' = "done" /\ UNCHANGED <<request, want>>
          /\ UNCHANGED used
    /\ UNCHANGED <<clientVars, fetched, tried, backendVars, answerVars>>

\* Mutant: read instead of read_exact.
ReadBodyOnce ==
    /\ pc = "body"
    /\ used < fetched \/ Eof
    /\ LET rest == want - Len(request)
       IN  /\ used' = IF fetched < used + rest THEN fetched ELSE used + rest
           /\ request' = request \o
                  [n \in 1..rest |-> IF used + n <= used' THEN used + n ELSE Made]
    /\ pc' = "open"
    /\ UNCHANGED <<clientVars, fetched, want, tried, backendVars, answerVars>>

(* read_exact fills the zeroed body vector, with whatever comes next; if   *)
(* the stream ends first, the error is ignored and the zeros stay.         *)
ReadBody ==
    /\ pc = "body"
    /\ \/ /\ used < fetched
          /\ used' = used + 1
          /\ request' = Append(request, used + 1)
          /\ pc' = IF Len(request) + 1 = want THEN "open" ELSE "body"
       \/ /\ used = fetched /\ Eof
          /\ request' = request \o [n \in 1..(want - Len(request)) |-> Made]
          /\ pc' = "open"
          /\ UNCHANGED used
    /\ UNCHANGED <<clientVars, fetched, want, tried, backendVars, answerVars>>

-----------------------------------------------------------------------------
(* handle_http_request: open the backend, then write head and body to it.  *)

OpenFails ==
    /\ pc \in {"open", "mitm", "tunnel"}
    /\ pc' = "done"
    /\ UNCHANGED <<clientVars, fetched, used, requestVars, backendVars, answerVars>>

\* Mutant: the body is read but not written to the backend.
HttpOpenNoBody ==
    /\ pc = "open"
    /\ backend' = [route |-> IF IsTarget THEN "ech" ELSE "direct", host |-> script.host]
    /\ request' = SelectSeq(request, LAMBDA unit : unit <= script.head)
    /\ pc' = "write"
    /\ UNCHANGED <<clientVars, fetched, used, want, tried, forwarded, lost, answerVars>>

HttpOpen ==
    /\ pc = "open"
    /\ backend' = [route |-> IF IsTarget THEN "ech" ELSE "direct", host |-> script.host]
    /\ pc' = "write"
    /\ UNCHANGED <<clientVars, fetched, used, requestVars, forwarded, lost, answerVars>>

(* What is written reaches the backend, or is lost: a write that fails or  *)
(* reaches its timeout is not noticed.                                     *)
Write(unit) ==
    \/ forwarded' = Append(forwarded, unit) /\ UNCHANGED lost
    \/ lost' = TRUE /\ UNCHANGED forwarded

WriteRequest ==
    /\ pc = "write"
    /\ tried < Len(request)
    /\ tried' = tried + 1
    /\ Write(request[tried + 1])
    /\ UNCHANGED <<clientVars, fetched, used, pc, request, want, backend, answerVars>>

RequestWritten ==
    /\ pc = "write"
    /\ tried = Len(request)
    /\ pc' = "relay"
    /\ UNCHANGED <<clientVars, fetched, used, requestVars, backendVars, answerVars>>

-----------------------------------------------------------------------------
(* handle_mitm and handle_tunnel: open the backend, then answer the client.*)

MitmOpen ==
    /\ pc = "mitm"
    /\ backend' = [route |-> "ech", host |-> script.host]
    /\ replied' = TRUE
    /\ pc' = "accept"
    /\ UNCHANGED <<clientVars, fetched, used, requestVars, forwarded, lost, responses>>

TunnelOpen ==
    /\ pc = "tunnel"
    /\ backend' = [route |-> "tcp", host |-> script.host]
    /\ replied' = TRUE
    /\ pc' = "relay"
    /\ UNCHANGED <<clientVars, fetched, used, requestVars, forwarded, lost, responses>>

(* The acceptor takes the next unit off the socket; what is left in the    *)
(* BufReader is never looked at again.  The backend never sees the hello:  *)
(* it is the proxy's own TLS handshake.                                    *)
Accept ==
    /\ pc = "accept"
    /\ \/ /\ fetched < sent
          /\ fetched' = fetched + 1
          /\ used' = fetched + 1
          /\ pc' \in IF fetched + 1 = Hello THEN {"relay", "done"} ELSE {"done"}
       \/ /\ Eof
          /\ pc' = "done"
          /\ UNCHANGED <<fetched, used>>
    /\ UNCHANGED <<clientVars, requestVars, backendVars, answerVars>>

-----------------------------------------------------------------------------
(* relay_plain and relay_tls, which do not look at the BufReader either.   *)
(* A unit they read is written or lost; Relay and TlsRelay say when.       *)

RelayUp ==
    /\ pc = "relay"
    /\ fetched < sent
    /\ fetched' = fetched + 1
    /\ used' = fetched + 1
    /\ Write(fetched + 1)
    /\ UNCHANGED <<clientVars, pc, requestVars, backend, answerVars>>

(* The backend answers when it likes, a request it has not seen included.  *)
RelayDown ==
    /\ pc = "relay"
    /\ ~IsConnect
    /\ responses < Len(script.ends)
    /\ responses' = responses + 1
    /\ UNCHANGED <<clientVars, fetched, used, pc, requestVars, backendVars, replied>>

RelayEnds ==
    /\ pc = "relay"
    /\ Eof
    /\ pc' = "done"
    /\ UNCHANGED <<clientVars, fetched, used, requestVars, backendVars, answerVars>>

BackendCloses ==
    /\ pc = "relay"
    /\ pc' = "done"
    /\ UNCHANGED <<clientVars, fetched, used, requestVars, backendVars, answerVars>>

-----------------------------------------------------------------------------
(* The client waits for the 200 before it uses a tunnel, and for a         *)
(* response before it makes the next request.                              *)

Answered(n) ==
    IF IsConnect THEN n <= script.head \/ replied
    ELSE responses < Len(script.ends) => n <= script.ends[responses + 1]

Send ==
    /\ ~closed /\ pc # "done"
    /\ sent < Total
    /\ Answered(sent + 1)
    /\ sent' = sent + 1
    /\ UNCHANGED <<script, closed>>

Close ==
    /\ ~closed
    /\ closed' = TRUE
    /\ UNCHANGED <<script, sent>>

ClientStep ==
    /\ Send \/ Close
    /\ UNCHANGED <<fetched, used, pc, requestVars, backendVars, answerVars>>

Step ==
    \/ Fill \/ ReadLine \/ ReadHeaders \/ ReadBody
    \/ OpenFails \/ HttpOpen \/ WriteRequest \/ RequestWritten
    \/ MitmOpen \/ TunnelOpen \/ Accept
    \/ RelayUp \/ RelayEnds

Next == Step \/ RelayDown \/ BackendCloses \/ ClientStep

Spec == Init /\ [][Next]_vars

(* The thread is scheduled, open_backend returns (RequestsEnd of EchCache, *)
(* where no DoH server is mute), and so do writes, which have timeouts     *)
(* (src/backend.rs:77, src/ech.rs:260); the client and the backend may do  *)
(* as they like.                                                           *)
FairSpec == Spec /\ WF_vars(Step)

-----------------------------------------------------------------------------
TypeOK ==
    /\ script \in Scripts
    /\ sent \in Nat /\ fetched \in 0..sent /\ used \in 0..fetched
    /\ closed \in BOOLEAN /\ replied \in BOOLEAN /\ lost \in BOOLEAN
    /\ pc \in {"line", "headers", "body", "open", "write", "mitm", "tunnel",
               "accept", "relay", "done"}
    /\ request \in Seq(Nat) /\ forwarded \in Seq(Nat)
    /\ want \in Nat /\ tried \in 0..Len(request)
    /\ responses \in 0..Len(script.ends)

(* What the backend should see of the client's stream: of an HTTP request  *)
(* everything, of a tunnel what follows the head, of a tunnel to a target, *)
(* where the proxy is the TLS server, what follows the handshake.          *)
Skipped == IF ~IsConnect THEN 0 ELSE IF IsTarget THEN Hello ELSE script.head

(* Of seq, the units up to last are what follows the first skipped ones of *)
(* the client's stream; the others are made up, and the client has left.   *)
Carries(seq, skipped, last) ==
    /\ \A i \in 1..Len(seq) : seq[i] = IF skipped + i <= last THEN skipped + i ELSE Made
    /\ Len(seq) = last - skipped \/ (closed /\ Len(seq) > last - skipped)

CarriesStream ==
    forwarded # <<>> => \E last \in 1..sent : Carries(forwarded, Skipped, last)

(* The client's units in seq are in order and not repeated.                *)
InOrder(seq) ==
    \A i, j \in 1..Len(seq) : i < j /\ seq[i] # Made /\ seq[j] # Made => seq[i] < seq[j]

MadeUpFor(seq) ==
    (\E i \in 1..Len(seq) : seq[i] = Made) => closed \/ script.bad # {}

(* "rebuild the request, and forward it" (README.md:106), or relay the     *)
(* tunnel: the switch from the BufReader to the socket, and the one from   *)
(* the head to the relay, repeat and reorder nothing, whatever is lost on  *)
(* the way and wherever the head breaks off, and make up nothing while the *)
(* client is there and its head is UTF-8; and then they lose nothing but   *)
(* by a failed write.                                                      *)
ForwardsPrefix ==
    /\ InOrder(forwarded) /\ MadeUpFor(forwarded)
    /\ script.bad = {} /\ ~lost => CarriesStream

(* What a client sends reaches the backend unless the connection ends or a *)
(* write fails, once the body it announced is complete: nothing is left    *)
(* behind in the BufReader, if the head is UTF-8.                          *)
NothingStuck ==
    \A n \in 3..6 :
        sent >= n /\ sent >= script.head + script.length /\ script.bad = {}
            ~> (Len(forwarded) >= n - Skipped \/ pc = "done" \/ lost)

(* A client that has left does not keep its thread, whatever stage it was  *)
(* in, whatever its head was and whatever the backend does.                *)
CloseEndsThread == closed ~> pc = "done"

(* A client announces the length of the body of its first request.         *)
AnnouncesLength ==
    \A s \in Scripts : s.method = "GET" =>
        s.ends[1] = s.head + s.length /\ (s.length > 0 => s.lengthAt < s.head)

(* The inductive invariant, for clients that announce the length: a client *)
(* sends what it may send unanswered, so when the thread has read a head   *)
(* of UTF-8 and its body, nothing is left in the BufReader, or the client  *)
(* has left.                                                               *)
AtEnd == used = fetched /\ Eof

Reading == pc \in {"line", "headers", "body", "open", "mitm", "tunnel"}

(* Whatever the head: what was heard of it, and the order of what was and  *)
(* will be written.                                                        *)
StageKnows ==
    /\ pc = "line" => used = 0 /\ request = <<>>
    /\ pc = "headers" =>
          /\ used >= 1 /\ used < script.head
          /\ Len(request) = used /\ \A i \in 1..used : request[i] = i
    /\ pc = "body" => Len(request) < want
    /\ Reading => tried = 0
    /\ pc \in {"body", "open", "write"} => script.method = "GET" /\ used >= 1
    /\ pc \in {"mitm", "tunnel", "accept"} =>
          IsConnect /\ IsTarget = (pc # "tunnel") /\ forwarded = <<>>
    /\ InOrder(request) /\ MadeUpFor(request)
    /\ \A i \in 1..Len(request) : request[i] <= used
    /\ \A i \in 1..Len(forwarded) : forwarded[i] <= fetched
    /\ pc = "write" =>
          \A i \in 1..Len(forwarded), j \in tried + 1..Len(request) :
              forwarded[i] # Made /\ request[j] # Made => forwarded[i] < request[j]

(* A head of UTF-8: where each unit of the stream is.                      *)
StreamKnown ==
    /\ pc \in {"body", "open", "write"} =>
          Carries(request, 0, used) /\ (Len(request) # used => AtEnd)
    /\ pc = "body" => want = script.head + script.length \/ AtEnd
    /\ pc \in {"open", "write"} => used = fetched
    /\ pc = "write" /\ ~lost =>
          Len(forwarded) = tried /\ \A i \in 1..tried : forwarded[i] = request[i]
    /\ pc \in {"mitm", "tunnel", "accept"} =>
          used = fetched /\ used <= script.head /\ (used = script.head \/ Eof)
    /\ pc = "relay" =>
          /\ used = fetched
          /\ ~lost => /\ Carries(forwarded, Skipped, fetched)
                      /\ Len(forwarded) # fetched - Skipped => Eof

IInv ==
    /\ TypeOK
    /\ Reading => ~replied /\ responses = 0 /\ forwarded = <<>> /\ ~lost
    /\ IsConnect /\ ~replied => sent <= script.head
    /\ ~IsConnect /\ responses = 0 => sent <= script.ends[1]
    /\ StageKnows
    /\ script.bad = {} => StreamKnown
    /\ ForwardsPrefix
=============================================================================
