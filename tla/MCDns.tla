-------------------------------- MODULE MCDns --------------------------------
(* Servers that answer with well-formed packets, whole or cut at any byte, *)
(* and what a reader of the records (not of the bytes) expects of them.    *)
EXTENDS Dns, FiniteSets

MCTxId == 4660

Cf == <<104, 16, 0, 9>>
NotCf == <<8, 8, 8, 8>>

-----------------------------------------------------------------------------
(* A record has a name, in full or compressed, a type and data.            *)
Name(full) == IF full THEN <<1, 99, 0>> ELSE <<192, 12>>
Rr(full, type, data) == [name |-> Name(full), type |-> type, data |-> data]

EncodeRr(r) ==
    r.name \o <<0, r.type, 0, 1, 0, 0, 0, 60, 0, Len(r.data)>> \o r.data

Encode(id, count, records) ==
    <<id \div 256, id % 256, 129, 128, 0, 1, 0, count, 0, 0, 0, 0>>
        \o <<2, 99, 102, 0, 0, 1, 0, 1>>
        \o FlattenSeq([i \in 1..Len(records) |-> EncodeRr(records[i])])

(* Where the labels and the end of its names are, the question's first.    *)
Marks(records) ==
    LET begin(k) == Len(Encode(0, 0, SubSeq(records, 1, k - 1))) IN
    [k \in 1..(Len(records) + 1) |->
        IF k = 1 THEN <<12, 15>>
        ELSE IF Len(records[k - 1].name) = 3 THEN <<begin(k - 1), begin(k - 1) + 2>>
        ELSE <<begin(k - 1)>>]

(* The address of the first A record within the count that is complete.    *)
Expected(id, count, records, cut) ==
    LET whole(i) == Len(Encode(id, count, SubSeq(records, 1, i))) <= cut
        as == {i \in 1..Len(records) : i <= count /\ records[i].type = 1 /\ whole(i)}
    IN  IF id # MCTxId \/ as = {} THEN {}
        ELSE {records[CHOOSE i \in as : \A j \in as : i <= j].data}

Udp(kind, id, count, records, cut) ==
    LET packet == Encode(id, count, records) IN
    [kind |-> kind, json |-> <<>>,
     packet |-> [i \in 1..(IF cut < Len(packet) THEN cut ELSE Len(packet)) |-> packet[i]],
     names |-> Marks(records),
     answer |-> Expected(id, count, records, cut)]

Records ==
    {Rr(FALSE, 1, Cf), Rr(TRUE, 1, NotCf), Rr(TRUE, 5, <<192, 12>>),
     Rr(FALSE, 28, <<32, 1, 0, 1, 0, 1, 0, 4, 8, 8, 8, 8, 0, 0, 0, 1>>)}
RecordLists == UNION {[1..n -> Records] : n \in 0..2}
Size(records) == Len(Encode(MCTxId, 0, records))

CutPackets ==
    {<<Udp("ip", MCTxId, Len(rs), rs, cut)>> : rs \in RecordLists, cut \in 0..76}
WrongCounts ==
    {<<Udp("ip", MCTxId, n, rs, Size(rs))>> : rs \in RecordLists, n \in 0..3}

-----------------------------------------------------------------------------
(* A DoH answer, and the addresses its Answer section names.               *)
Answer == [tag |-> "Answer", ip |-> <<>>]
Alias == [tag |-> "name", ip |-> <<>>]
Open == [tag |-> "open", ip |-> <<>>]
Ip(a) == [tag |-> "ip", ip |-> a]

Doh(kind, json, answer) ==
    [kind |-> kind, json |-> json, packet |-> <<>>, names |-> Marks(<<>>), answer |-> answer]

DohServers ==
    {Doh("doh", <<>>, {}),
     Doh("doh", <<Answer, Alias, Ip(NotCf), Ip(Cf), Ip(NotCf)>>, {NotCf, Cf}),
     Doh("doh", <<Ip(NotCf), Answer, Ip(Cf), Open, Ip(NotCf)>>, {Cf}),
     Doh("doh", <<Ip(Cf)>>, {}),
     Doh("name", <<Answer, Ip(Cf)>>, {Cf})}
UdpServers ==
    {Udp("port", MCTxId, 1, <<Rr(FALSE, 1, Cf)>>, 64),
     Udp("ip", MCTxId + 1, 1, <<Rr(FALSE, 1, Cf)>>, 64),
     Udp("ip", MCTxId, 1, <<Rr(FALSE, 1, NotCf)>>, 64),
     Udp("name", MCTxId, 1, <<Rr(TRUE, 1, Cf)>>, 64)}
Lists == UNION {[1..n -> DohServers \cup UdpServers] : n \in 0..3}

-----------------------------------------------------------------------------
(* The addresses at both ends of each range and next to them.              *)
High(ip) == ip[1] * 256 + ip[2]
Low(ip) == ip[3] * 256 + ip[4]
Address(high, low) == <<high \div 256, high % 256, low \div 256, low % 256>>

EndsOf(range) ==
    LET h == High(range[1])
        l == Low(range[1])
        p == range[2]
    IN  IF p <= 16
          THEN LET last == h + 2^(16 - p) - 1
               IN  {Address(h, 0), Address(h - 1, 65535), Address(last, 65535), Address(last + 1, 0)}
          ELSE LET last == l + 2^(32 - p) - 1
               IN  {Address(h, l), IF l = 0 THEN Address(h - 1, 65535) ELSE Address(h, l - 1),
                    Address(h, last),
                    IF last = 65535 THEN Address(h + 1, 0) ELSE Address(h, last + 1)}

Boundaries ==
    {<<Udp("ip", MCTxId, 1, <<Rr(FALSE, 1, ip)>>, 64)>> :
        ip \in UNION {EndsOf(range) : range \in CLOUDFLARE_IPV4_CIDRS}}

MCServerLists == CutPackets \cup WrongCounts \cup Lists \cup Boundaries

-----------------------------------------------------------------------------
(* The packets are laid out as they were built, and what the grammar reads *)
(* in them, cut or whole, is what the records and tokens were meant to say.*)
ASSUME ServerLists = MCServerLists =>
    \A list \in ServerLists : \A i \in 1..Len(list) :
        /\ LaidOut(list[i].packet, list[i].names)
        /\ Says(list[i]) = IF list[i].kind = "port" THEN {} ELSE list[i].answer
=============================================================================
