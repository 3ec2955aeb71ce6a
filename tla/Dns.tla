--------------------------------- MODULE Dns ---------------------------------
(***************************************************************************)
(* The bootstrap lookup: cloudflare_doh_ips (src/ech.rs:139-163) asks the  *)
(* --dns servers for the addresses of CF_DOH_HOST, one server after the    *)
(* other (resolve_multi_no_fallback, src/dns.rs:97), and keeps those that  *)
(* are Cloudflare's.                                                       *)
(*                                                                         *)
(* A server is a record of what it is and of what it will answer:          *)
(*   kind   "doh" for a URL, "ip" for an IPv4 address, "port" for a string *)
(*          with a colon that is neither, "name" for anything else         *)
(*   json   its DoH answer as the tokens parse_a_records tells apart       *)
(*   packet its answer over UDP, <<>> if none comes                        *)
(*   names  where the parts of the names in that packet begin (see LaidOut),*)
(*          which the properties use and the lookup does not               *)
(* The packet is read byte by byte, positions counted from 0 as in the     *)
(* code, because the hazard is the arithmetic on lengths it contains.      *)
(* Vectors of addresses are sets, as in EchCache.                          *)
(***************************************************************************)
EXTENDS Targets

CONSTANTS
    ServerLists,    \* the sequences of servers --dns may name
    TxId            \* the identifier of every query, 0x1234 in the code

Octets == [1..4 -> 0..255]

ASSUME DnsAssumption ==
    \A list \in ServerLists :
        /\ Len(list) \in Nat
        /\ \A i \in 1..Len(list) :
              /\ Len(list[i].packet) \in Nat
              /\ \A j \in 1..Len(list[i].packet) : list[i].packet[j] \in 0..255
              /\ \A t \in Range(list[i].json) : t.tag = "ip" => t.ip \in Octets

CF_DOH_IPS ==
    {<<104, 16, 248, 249>>, <<104, 16, 249, 249>>, <<1, 1, 1, 1>>, <<1, 0, 0, 1>>}

VARIABLES
    servers,    \* the servers as given
    asked,      \* how many of them have been tried
    pc,
    pos, left,  \* position in the packet, and answers not yet looked at
    touched,    \* history: how many bytes of this packet, up to the last one
                \* read, the parser takes for granted
    found,      \* what resolve_multi_no_fallback returned; {} for an error
    result      \* what cloudflare_doh_ips returns

vars == <<servers, asked, pc, pos, left, touched, found, result>>

Init ==
    /\ servers \in ServerLists
    /\ asked = 0
    /\ pc = "next"
    /\ pos = 0 /\ left = 0 /\ touched = 0
    /\ found = {} /\ result = {}

Server == servers[asked]
Data == Server.packet
Byte(d, i) == IF i < Len(d) THEN d[i + 1] ELSE 0
U16(d, i) == Byte(d, i) * 256 + Byte(d, i + 1)
Touch(i) == touched' = IF i > touched THEN i ELSE touched

Give(ips) == found' = ips /\ pc' = "retain"

-----------------------------------------------------------------------------
(* resolve_multi_no_fallback: the first server with an answer ends the     *)
(* loop; an error of the last one is the error of the call.                *)

NextServer ==
    /\ pc = "next"
    /\ IF asked = Len(servers)
         THEN Give({}) /\ UNCHANGED asked
         ELSE /\ asked' = asked + 1
              /\ pc' = IF servers[asked + 1].kind \in {"doh", "name"} THEN "doh" ELSE "plain"
              /\ UNCHANGED found
    /\ touched' = 0
    /\ UNCHANGED <<servers, pos, left, result>>

(* parse_a_records: every data string after an "Answer" that is an         *)
(* address; a string without an end stops the search.                      *)
parse_a_records(json) ==
    LET after(i, tag) == \E j \in 1..(i - 1) : json[j].tag = tag
        ended(i) == \E j \in 1..(i - 1) : json[j].tag = "open" /\ after(j, "Answer")
    IN  {json[i].ip : i \in {i \in 1..Len(json) :
            json[i].tag = "ip" /\ after(i, "Answer") /\ ~ended(i)}}

(* resolve_doh_server_multi; an answer that does not come names no address.*)
DohAnswer ==
    LET ips == parse_a_records(Server.json) IN
    /\ pc = "doh"
    /\ IF ips # {}
         THEN Give(ips)
         ELSE /\ pc' = IF Server.kind = "name" THEN "plain" ELSE "next"
              /\ UNCHANGED found
    /\ UNCHANGED <<servers, asked, pos, left, touched, result>>

-----------------------------------------------------------------------------
(* resolve_plain_server and resolve_plain_dns.  A server given with a port *)
(* gets a second one appended and is never reached.                        *)

\* Mutant: a server that failed is asked again.
GiveUpRetries == pc' = "plain" /\ UNCHANGED <<pos, left, found>>

GiveUp == pc' = "next" /\ UNCHANGED <<pos, left, found>>

Receive ==
    /\ pc = "plain"
    /\ IF Server.kind = "port" \/ Len(Data) < 12
         THEN GiveUp /\ UNCHANGED touched
         ELSE /\ Touch(8)
              /\ IF U16(Data, 0) # TxId
                   THEN GiveUp
                   ELSE /\ pos' = 12
                        /\ left' = U16(Data, 6)
                        /\ pc' = "question"
                        /\ UNCHANGED found
    /\ UNCHANGED <<servers, asked, result>>

(* The length of what a name goes on with: its end, a pointer, a label.    *)
NameEnds(d, i) == Byte(d, i) = 0 \/ Byte(d, i) >= 192

\* Mutant: a pointer is taken for one byte.
StepPointer(d, i) == 1 + (IF NameEnds(d, i) THEN 0 ELSE Byte(d, i))

Step(d, i) ==
    IF Byte(d, i) = 0 THEN 1
    ELSE IF Byte(d, i) >= 192 THEN 2
    ELSE 1 + Byte(d, i)

\* Mutant: the end of the packet is noticed one byte late.
PastEndLate == pos > Len(Data)

PastEnd == pos >= Len(Data)

\* Mutant: a pointer is followed, and may lead back.
SkipNameFollows ==
    /\ pc \in {"question", "name"}
    /\ IF PastEnd
         THEN GiveUp /\ UNCHANGED touched
         ELSE /\ Touch(pos + 1)
              /\ pos' = IF Byte(Data, pos) >= 192 THEN Byte(Data, pos + 1)
                        ELSE pos + Step(Data, pos) + (IF NameEnds(Data, pos) /\ pc = "question" THEN 4 ELSE 0)
              /\ pc' = IF Byte(Data, pos) # 0 THEN pc
                       ELSE IF pc = "question" THEN "answers" ELSE "record"
              /\ UNCHANGED <<left, found>>
    /\ UNCHANGED <<servers, asked, result>>

(* One turn of skip_name; after the question come its type and class.      *)
SkipName ==
    /\ pc \in {"question", "name"}
    /\ IF PastEnd
         THEN GiveUp /\ UNCHANGED touched
         ELSE /\ Touch(pos + 1)
              /\ pos' = pos + Step(Data, pos)
                            + (IF NameEnds(Data, pos) /\ pc = "question" THEN 4 ELSE 0)
              /\ pc' = IF ~NameEnds(Data, pos) THEN pc
                       ELSE IF pc = "question" THEN "answers" ELSE "record"
              /\ UNCHANGED <<left, found>>
    /\ UNCHANGED <<servers, asked, result>>

\* Mutant: the count of the header is not believed.
NextAnswerAny ==
    /\ pc = "answers"
    /\ left' = left - 1 /\ pc' = "name" /\ UNCHANGED <<pos, found>>
    /\ UNCHANGED <<servers, asked, touched, result>>

NextAnswer ==
    /\ pc = "answers"
    /\ IF left = 0
         THEN GiveUp
         ELSE left' = left - 1 /\ pc' = "name" /\ UNCHANGED <<pos, found>>
    /\ UNCHANGED <<servers, asked, touched, result>>

(* The fixed part of a record, and its data if it is an address.           *)
Record ==
    /\ pc = "record"
    /\ IF pos + 10 > Len(Data)
         THEN GiveUp /\ UNCHANGED touched
         ELSE LET data == pos + 10
                  size == U16(Data, pos + 8)
              IN  IF U16(Data, pos) = 1 /\ size = 4 /\ data + 4 <= Len(Data)
                    THEN /\ Give({[i \in 1..4 |-> Byte(Data, data + i - 1)]})
                         /\ Touch(data + 4)
                         /\ UNCHANGED <<pos, left>>
                    ELSE /\ pos' = data + size
                         /\ Touch(data)
                         /\ pc' = "answers"
                         /\ UNCHANGED <<left, found>>
    /\ UNCHANGED <<servers, asked, result>>

-----------------------------------------------------------------------------
(* The rest of cloudflare_doh_ips.                                         *)
Retain ==
    LET kept == {ip \in found : is_cloudflare_ip(ip)} IN
    /\ pc = "retain"
    /\ result' = IF kept = {} THEN CF_DOH_IPS ELSE kept
    /\ pc' = "done"
    /\ UNCHANGED <<servers, asked, pos, left, touched, found>>

Next ==
    \/ NextServer \/ DohAnswer \/ Receive
    \/ SkipName \/ NextAnswer \/ Record
    \/ Retain

Spec == Init /\ [][Next]_vars

(* The thread is scheduled, and every read has a timeout of 5 seconds.     *)
FairSpec == Spec /\ WF_vars(Next)

-----------------------------------------------------------------------------
(* No byte is read outside the packet received, wherever it was cut: an    *)
(* index out of bounds would panic and end the connection.                 *)
InBounds == asked > 0 => touched <= Len(Server.packet)

Asking == {"doh", "plain", "question", "name", "answers", "record"}

(* The invariant of the proofs, with the types: a server is being asked    *)
(* whenever its packet is looked at, positions count from 0, and the       *)
(* header's count is never passed.                                         *)
ParserInv ==
    /\ servers \in ServerLists
    /\ asked \in 0..Len(servers)
    /\ pc \in Asking \cup {"next", "retain", "done"}
    /\ pc \in Asking => asked > 0
    /\ pos \in Nat /\ left \in Nat /\ touched \in Nat
    /\ found \in SUBSET Octets
    /\ InBounds

(* Why it ends: a step asks one more server, or leaves this one's DoH      *)
(* answer for its packet or the packet for good; while it reads the packet *)
(* (skip_name and the record loop, src/dns.rs:66-92 and 173-188) it moves  *)
(* on from a position inside it, or takes one of the answers counted in    *)
(* its header.  No length or pointer leads it back.                        *)
Rank == [doh |-> 5, plain |-> 4, question |-> 3, answers |-> 3, name |-> 3, record |-> 3,
         next |-> 2, retain |-> 1, done |-> 0]

Advances ==
    /\ UNCHANGED servers
    /\ \/ asked' = asked + 1 /\ asked' <= Len(servers)
       \/ /\ UNCHANGED asked
          /\ \/ Rank[pc'] < Rank[pc]
             \/ /\ Rank[pc'] = Rank[pc]
                /\ \/ pos < Len(Data) /\ pos < pos'
                   \/ pos' = pos /\ left' < left

LookupAdvances == [][Advances]_vars

(* Every lookup ends, whatever lengths and pointers the packets contain.   *)
LookupEnds == <>(pc = "done")

-----------------------------------------------------------------------------
(* What a packet says, as a grammar: names[1] is the name of the question, *)
(* names[k + 1] that of record k, each the positions of its labels and of  *)
(* its end, a zero or a pointer.  A packet is laid out so as far as it     *)
(* goes; the names go on to its end, or to the count of its header.        *)
LastOfName(n) == n[Len(n)]
Fixed(d, n) == LastOfName(n) + (IF Byte(d, LastOfName(n)) = 0 THEN 1 ELSE 2)
After(d, names, k) ==
    IF k = 1 THEN Fixed(d, names[1]) + 4
    ELSE Fixed(d, names[k]) + 10 + U16(d, Fixed(d, names[k]) + 8)

IsName(d, n) ==
    /\ Len(n) \in Nat \ {0}
    /\ \A j \in 1..Len(n) : n[j] \in Nat
    /\ \A j \in 1..Len(n) : n[j] < Len(d) => (NameEnds(d, n[j]) <=> j = Len(n))
    /\ \A j \in 1..(Len(n) - 1) : n[j] < Len(d) => n[j + 1] = n[j] + 1 + Byte(d, n[j])

(* The parser reads the kth name to its end, and what follows it.          *)
Whole(d, names, k) ==
    /\ \A j \in 1..Len(names[k]) : names[k][j] < Len(d)
    /\ k = 1 \/ Fixed(d, names[k]) + 10 <= Len(d)

LaidOut(d, names) ==
    /\ Len(names) \in Nat \ {0}
    /\ \A k \in 1..Len(names) : IsName(d, names[k])
    /\ names[1][1] = 12
    /\ \A k \in 1..Len(names) :
          Whole(d, names, k) =>
              IF k < Len(names) THEN names[k + 1][1] = After(d, names, k)
              ELSE k > U16(d, 6) \/ After(d, names, k) >= Len(d)

(* The records it has, within the count, that hold a complete IPv4 address.*)
IsAddress(d, f) == U16(d, f) = 1 /\ U16(d, f + 8) = 4 /\ f + 14 <= Len(d)
AddressRecords(d, names) ==
    {k \in 2..Len(names) :
        /\ k - 1 <= U16(d, 6)
        /\ \A i \in 1..k : Whole(d, names, i)
        /\ IsAddress(d, Fixed(d, names[k]))}

(* What a server answers: the addresses of its DoH answer, or the address  *)
(* in the first such record of its packet.                                 *)
FirstAddress(d, names) ==
    {[i \in 1..4 |-> Byte(d, Fixed(d, names[k]) + 9 + i)] :
        k \in {k \in AddressRecords(d, names) : \A j \in AddressRecords(d, names) : k <= j}}

DohSays(s) == IF s.kind \in {"doh", "name"} THEN parse_a_records(s.json) ELSE {}
UdpSays(s) ==
    IF s.kind \in {"doh", "port"} \/ Len(s.packet) < 12 \/ U16(s.packet, 0) # TxId THEN {}
    ELSE FirstAddress(s.packet, s.names)
Says(s) == IF DohSays(s) # {} THEN DohSays(s) ELSE UdpSays(s)

(* The lookup returns what the first server that has an answer says, and   *)
(* fails only if none has one.                                             *)
FirstServerWins ==
    pc \in {"retain", "done"} =>
        \/ /\ found = {}
           /\ \A i \in 1..Len(servers) : Says(servers[i]) = {}
        \/ \E i \in 1..Len(servers) :
              /\ found = Says(servers[i]) /\ found # {}
              /\ \A j \in 1..(i - 1) : Says(servers[j]) = {}

(* An address is in a range by its octets, without masks: the first q are  *)
(* those of the network, and r bits of the next one.                       *)
InRange(ip, network, prefix) ==
    LET q == (prefix - 1) \div 8
        r == prefix - 8 * q
    IN  /\ \A i \in 1..q : ip[i] = network[i]
        /\ ip[q + 1] \div 2^(8 - r) = network[q + 1] \div 2^(8 - r)

Ranged(ips) ==
    {ip \in ips : \E range \in CLOUDFLARE_IPV4_CIDRS : InRange(ip, range[1], range[2])}

(* EchCache is given DoH servers in any case: those the lookup found that  *)
(* lie in Cloudflare's ranges, to the last address of each, or, where it   *)
(* found none, two servers of one of these ranges beside 1.1.1.1 and       *)
(* 1.0.0.1, which lie in none of them and would not pass as found.         *)
BootstrapUsable ==
    pc = "done" =>
        \/ result = Ranged(found) /\ result # {}
        \/ /\ Ranged(found) = {}
           /\ Ranged(result) = {<<104, 16, 248, 249>>, <<104, 16, 249, 249>>}
           /\ result \ Ranged(result) = {<<1, 1, 1, 1>>, <<1, 0, 0, 1>>}

-----------------------------------------------------------------------------
(* Why the first server wins, whatever bytes the packets hold.             *)
AllLaidOut ==
    \A list \in ServerLists : \A i \in 1..Len(list) :
        LaidOut(list[i].packet, list[i].names)

(* The parser at a packet whose names are laid out: it has read the first  *)
(* k - 1 of them, or k of them if it is between two, whole, and found no   *)
(* address yet; it is at a part of the kth, at its end, or after it.       *)
HasRead(d, names, n) ==
    /\ n <= Len(names)
    /\ \A i \in 1..n : Whole(d, names, i)
    /\ \A i \in 2..n : ~IsAddress(d, Fixed(d, names[i]))

AtName(d, names, k, at) ==
    /\ k > Len(names) => at >= Len(d)
    /\ k <= Len(names) =>
          \E j \in 1..Len(names[k]) :
              at = names[k][j] /\ \A i \in 1..(j - 1) : names[k][i] < Len(d)

AtRecord(d, names, k, at) ==
    /\ k <= Len(names)
    /\ \A j \in 1..Len(names[k]) : names[k][j] < Len(d)
    /\ at = Fixed(d, names[k])

AtPacket(d, names, k) ==
    /\ Len(d) >= 12 /\ U16(d, 0) = TxId
    /\ left <= U16(d, 6)
    /\ HasRead(d, names, IF pc = "answers" THEN k ELSE k - 1)
    /\ pc = "question" => left = U16(d, 6)
    /\ pc \in {"question", "name"} => AtName(d, names, k, pos)
    /\ pc = "answers" => pos = After(d, names, k)
    /\ pc \in {"name", "record"} => left < U16(d, 6)
    /\ pc = "record" => AtRecord(d, names, k, pos)

(* The servers before this one have no answer, nor has this one's DoH      *)
(* answer if its packet is looked at.                                      *)
Passed(n) == \A i \in 1..n : Says(servers[i]) = {}

ReaderInv ==
    /\ pc = "next" => Passed(asked)
    /\ pc = "doh" => Passed(asked - 1) /\ Server.kind \in {"doh", "name"}
    /\ pc \in Asking \ {"doh"} =>
          Passed(asked - 1) /\ DohSays(Server) = {} /\ Server.kind # "doh"
    /\ pc \in Asking \ {"doh", "plain"} =>
          Server.kind # "port" /\ AtPacket(Data, Server.names, U16(Data, 6) - left + 1)

LookupInv == ParserInv /\ (AllLaidOut => ReaderInv /\ FirstServerWins)
=============================================================================
