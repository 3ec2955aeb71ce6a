--------------------------- MODULE ConnectionProofs ---------------------------
(***************************************************************************)
(* Proofs about Connection, for any number of requests and units: when the *)
(* thread goes over to the bare socket nothing is left in the BufReader,   *)
(* because a client that announces the length of its body sends no more of *)
(* it than that before it is answered; and what reaches the backend is in  *)
(* order whatever the head is and whatever writes fail.                    *)
(* And, with no such assumption, that no connection goes on for ever.      *)
(***************************************************************************)
EXTENDS Connection, SequenceTheorems, TLAPS

(* What the assumption says of this client.                                *)
LEMMA ScriptFacts ==
    ASSUME script \in Scripts
    PROVE  /\ script.method \in {"CONNECT", "GET", "none"}
           /\ script.head \in Nat /\ script.head >= 2
           /\ script.lengthAt \in Nat /\ script.length \in Nat
           /\ Len(script.ends) \in Nat /\ Len(script.ends) >= 1
           /\ script.ends[1] \in Nat
           /\ script.ends[1] >= script.head + script.length
<1>1. /\ script.method \in {"CONNECT", "GET", "none"}
      /\ script.head \in Nat /\ script.head >= 2
      /\ script.lengthAt \in Nat /\ script.length \in Nat
      /\ script.ends \in Seq(Nat) \ {<<>>}
      /\ script.ends[1] >= script.head + script.length
  BY ConnectionAssumption
<1>2. Len(script.ends) \in Nat /\ Len(script.ends) >= 1
  BY <1>1
<1> QED
  BY <1>1, <1>2

-----------------------------------------------------------------------------
(* Sequences of units, one unit longer.                                    *)

LEMMA OrderAppend ==
    ASSUME NEW seq \in Seq(Nat), NEW unit \in Nat, InOrder(seq),
           \A i \in 1..Len(seq) : seq[i] # Made /\ unit # Made => seq[i] < unit
    PROVE  InOrder(Append(seq, unit))
<1> DEFINE longer == Append(seq, unit)
<1>1. /\ Len(seq) \in Nat /\ Len(longer) = Len(seq) + 1
      /\ \A i \in 1..Len(seq) : longer[i] = seq[i]
      /\ longer[Len(seq) + 1] = unit
  OBVIOUS
<1> HIDE DEF longer
<1>2. ASSUME NEW i \in 1..Len(longer), NEW j \in 1..Len(longer),
             i < j, longer[i] # Made, longer[j] # Made
      PROVE  longer[i] < longer[j]
  <2>1. i \in 1..Len(seq) /\ (j \in 1..Len(seq) \/ j = Len(seq) + 1)
    BY <1>1, <1>2
  <2> QED
    BY <1>1, <1>2, <2>1 DEF InOrder
<1> QED
  BY <1>2 DEF InOrder, longer

LEMMA MadeAppend ==
    ASSUME NEW seq \in Seq(Nat), NEW unit \in Nat, MadeUpFor(seq),
           unit = Made => closed \/ script.bad # {}
    PROVE  MadeUpFor(Append(seq, unit))
<1> DEFINE longer == Append(seq, unit)
<1>1. /\ Len(seq) \in Nat /\ Len(longer) = Len(seq) + 1
      /\ \A i \in 1..Len(seq) : longer[i] = seq[i]
      /\ longer[Len(seq) + 1] = unit
  OBVIOUS
<1> HIDE DEF longer
<1>2. \A i \in 1..Len(longer) : i \in 1..Len(seq) \/ i = Len(seq) + 1
  BY <1>1
<1>3. MadeUpFor(longer)
  BY <1>1, <1>2 DEF MadeUpFor
<1> QED
  BY <1>3 DEF longer

(* The stream goes on with the next unit of the client.                    *)
LEMMA CarriesNext ==
    ASSUME NEW seq \in Seq(Nat), NEW skipped \in Nat, NEW last \in Nat,
           Carries(seq, skipped, last), Len(seq) = last - skipped,
           NEW next, next = last + 1, NEW longer, longer = Append(seq, next)
    PROVE  Carries(longer, skipped, next) /\ Len(longer) = next - skipped
<1>1. /\ Len(seq) \in Nat /\ Len(longer) = Len(seq) + 1
      /\ \A i \in 1..Len(seq) : longer[i] = seq[i]
      /\ longer[Len(seq) + 1] = next
  <2>1. next \in Nat /\ Len(seq) \in Nat
    OBVIOUS
  <2>2. /\ Len(Append(seq, next)) = Len(seq) + 1
        /\ \A i \in 1..Len(seq) : Append(seq, next)[i] = seq[i]
        /\ Append(seq, next)[Len(seq) + 1] = next
    BY <2>1, AppendProperties
  <2> QED
    BY <2>1, <2>2, Zenon
<1>2. ASSUME NEW i \in 1..Len(longer)
      PROVE  longer[i] = IF skipped + i <= next THEN skipped + i ELSE Made
  <2>1. CASE i \in 1..Len(seq)
    <3>1. seq[i] = IF skipped + i <= last THEN skipped + i ELSE Made
      BY <2>1 DEF Carries
    <3>2. skipped + i <= last
      BY <1>1, <2>1
    <3> QED
      BY <1>1, <2>1, <3>1, <3>2
  <2>2. CASE i = Len(seq) + 1
    BY <1>1, <2>2
  <2> QED
    BY <1>1, <2>1, <2>2
<1>3. Len(longer) = next - skipped
  BY <1>1
<1> QED
  BY <1>2, <1>3 DEF Carries

(* The stream is at its end, and the proxy makes up what is missing.       *)
LEMMA MadeUpRest ==
    ASSUME NEW seq \in Seq(Nat), NEW longer \in Seq(Nat), NEW last \in Nat,
           Len(longer) > Len(seq), closed,
           \A i \in 1..Len(seq) : longer[i] = seq[i],
           \A i \in Len(seq) + 1..Len(longer) : longer[i] = Made
    PROVE  /\ InOrder(seq) => InOrder(longer)
           /\ MadeUpFor(longer)
           /\ Carries(seq, 0, last) => Carries(longer, 0, last) /\ Len(longer) # last
<1>0. Len(seq) \in Nat /\ Len(longer) \in Nat
  OBVIOUS
<1>1. ASSUME InOrder(seq) PROVE InOrder(longer)
  <2>1. ASSUME NEW i \in 1..Len(longer), NEW j \in 1..Len(longer),
               i < j, longer[i] # Made, longer[j] # Made
        PROVE  longer[i] < longer[j]
    <3>1. ASSUME NEW k \in 1..Len(longer), longer[k] # Made
          PROVE  k \in 1..Len(seq)
      <4>1. k \in 1..Len(seq) \/ k \in Len(seq) + 1..Len(longer)
        BY <1>0
      <4> QED
        BY <3>1, <4>1, Zenon
    <3>2. i \in 1..Len(seq) /\ j \in 1..Len(seq)
      BY <2>1, <3>1, Zenon
    <3> QED
      BY <1>1, <2>1, <3>2 DEF InOrder
  <2> QED
    BY <2>1 DEF InOrder
<1>2. MadeUpFor(longer)
  BY DEF MadeUpFor
<1>3. ASSUME Carries(seq, 0, last)
      PROVE  Carries(longer, 0, last) /\ Len(longer) # last
  <2>1. Len(seq) >= last
    BY <1>0, <1>3 DEF Carries
  <2>2. ASSUME NEW i \in 1..Len(longer)
        PROVE  longer[i] = IF 0 + i <= last THEN 0 + i ELSE Made
    <3>1. CASE i \in 1..Len(seq)
      BY <1>3, <3>1 DEF Carries
    <3>2. CASE i \in Len(seq) + 1..Len(longer)
      BY <1>0, <2>1, <3>2
    <3>3. i \in 1..Len(seq) \/ i \in Len(seq) + 1..Len(longer)
      BY <1>0
    <3> QED
      BY <3>1, <3>2, <3>3
  <2>3. Len(longer) > last - 0
    BY <1>0, <2>1
  <2> QED
    BY <1>0, <2>2, <2>3 DEF Carries
<1> QED
  BY <1>1, <1>2, <1>3

(* What was forwarded stays what it is when the client goes on or leaves.  *)
LEMMA ForwardedStays ==
    ASSUME ForwardsPrefix, UNCHANGED <<script, forwarded, lost>>,
           sent \in Nat, sent' \in Nat, sent <= sent', closed => closed'
    PROVE  ForwardsPrefix'
<1>1. InOrder(forwarded)' /\ MadeUpFor(forwarded)'
  BY DEF ForwardsPrefix, InOrder, MadeUpFor
<1>2. CarriesStream => CarriesStream'
  <2>1. \A last \in 1..sent : last \in 1..sent'
    OBVIOUS
  <2> QED
    BY <2>1 DEF CarriesStream, Carries, Skipped, IsConnect, IsTarget, Hello
<1> QED
  BY <1>1, <1>2 DEF ForwardsPrefix

-----------------------------------------------------------------------------
LEMMA InitIInv == Init => IInv
<1> SUFFICES ASSUME Init PROVE IInv
  OBVIOUS
<1>1. /\ script \in Scripts /\ Len(script.ends) \in Nat
      /\ script.ends[1] >= 0 /\ script.head >= 0
  BY ScriptFacts DEF Init
<1>2. TypeOK
  <2>1. <<>> \in Seq(Nat) /\ 0 \in 0..Len(script.ends) /\ 0 \in 0..0 /\ 0 \in 0..Len(<<>>)
    BY <1>1
  <2> QED
    BY <1>1, <2>1 DEF Init, TypeOK
<1>3. InOrder(<<>>) /\ MadeUpFor(<<>>)
  BY DEF InOrder, MadeUpFor
<1>4. StageKnows /\ StreamKnown
  BY <1>3 DEF Init, StageKnows, StreamKnown, Reading
<1>5. ForwardsPrefix
  BY <1>3 DEF Init, ForwardsPrefix, CarriesStream
<1> QED
  BY <1>1, <1>2, <1>4, <1>5 DEF Init, IInv, Reading

(* The parts of the invariant, for a step that leaves the backend alone.   *)
Unanswered ==
    /\ Reading => ~replied /\ responses = 0 /\ forwarded = <<>> /\ ~lost
    /\ IsConnect /\ ~replied => sent <= script.head
    /\ ~IsConnect /\ responses = 0 => sent <= script.ends[1]

LEMMA IInvParts ==
    IInv <=> /\ TypeOK /\ Unanswered /\ StageKnows
             /\ script.bad = {} => StreamKnown
             /\ ForwardsPrefix
BY DEF IInv, Unanswered

-----------------------------------------------------------------------------
(* The thread reads from the BufReader.                                    *)

LEMMA FillKeeps == ASSUME IInv, Fill PROVE IInv'
<1> USE DEF Fill, clientVars, requestVars, backendVars, answerVars
<1>0. TypeOK /\ StageKnows /\ sent \in Nat /\ fetched \in Nat /\ fetched' > fetched
  BY DEF IInv, TypeOK
<1>1. TypeOK'
  BY <1>0 DEF TypeOK
<1>2. Unanswered'
  BY DEF IInv, Unanswered, Reading, IsConnect
<1>3. StageKnows'
  BY <1>0 DEF StageKnows, Reading, InOrder, MadeUpFor, IsConnect, IsTarget, IInv
<1>4. script.bad = {} => StreamKnown'
  BY <1>0 DEF IInv, StreamKnown, Carries, AtEnd, Eof, IsConnect
<1>5. ForwardsPrefix'
  BY <1>0, ForwardedStays DEF IInv
<1> QED
  BY <1>1, <1>2, <1>3, <1>4, <1>5 DEF IInv, Unanswered

LEMMA ReadLineKeeps == ASSUME IInv, ReadLine PROVE IInv'
<1> USE DEF ReadLine, clientVars, requestVars, backendVars, answerVars
<1>0. /\ TypeOK /\ StageKnows /\ used = 0 /\ request = <<>> /\ forwarded = <<>> /\ tried = 0
      /\ script.head \in Nat /\ script.head >= 2 /\ sent \in Nat /\ fetched \in Nat
  BY ScriptFacts DEF IInv, TypeOK, StageKnows, Reading
<1>1. TypeOK'
  <2>1. /\ request' \in Seq(Nat) /\ Len(request') \in Nat /\ used' \in 0..fetched'
        /\ pc' \in {"headers", "done"}
    <3>1. <<>> \in Seq(Nat) /\ <<1>> \in Seq(Nat) /\ Len(<<>>) = 0 /\ Len(<<1>>) = 1
      OBVIOUS
    <3>2. request' = <<>> \/ request' = <<1>>
      BY <1>0
    <3>3. request' \in Seq(Nat) /\ Len(request') \in Nat
      BY <3>1, <3>2
    <3>4. used' \in 0..fetched' /\ pc' \in {"headers", "done"}
      BY <1>0 DEF TypeOK
    <3> QED
      BY <3>3, <3>4
  <2>2. tried' \in 0..Len(request')
    BY <1>0, <2>1
  <2> QED
    BY <1>0, <2>1, <2>2 DEF TypeOK
<1>2. Unanswered'
  BY <1>0 DEF IInv, Unanswered, Reading, IsConnect
<1>3. StageKnows'
  <2>1. CASE pc' = "headers"
    <3>1. used' = 1 /\ request' = <<1>> /\ Len(request') = 1 /\ request'[1] = 1
      BY <1>0, <2>1
    <3>2. InOrder(request)' /\ MadeUpFor(request)'
      BY <3>1 DEF InOrder, MadeUpFor, Made
    <3>3. \A i \in 1..Len(request') : i = 1
      BY <3>1
    <3>4. used' >= 1 /\ used' < script'.head /\ tried' = 0 /\ forwarded' = <<>>
      BY <1>0, <3>1
    <3> HIDE DEF ReadLine
    <3> QED
      BY <2>1, <3>1, <3>2, <3>3, <3>4 DEF StageKnows, Reading
  <2>2. CASE pc' = "done"
    <3>1. request' = <<>>
      BY <1>0, <2>2
    <3>2. InOrder(request)' /\ MadeUpFor(request)'
      BY <3>1 DEF InOrder, MadeUpFor
    <3> QED
      BY <1>0, <2>2, <3>1, <3>2 DEF StageKnows, Reading
  <2> QED
    BY <2>1, <2>2
<1>4. StreamKnown'
  BY DEF StreamKnown
<1>5. ForwardsPrefix'
  BY <1>0, ForwardedStays DEF IInv
<1> QED
  BY <1>1, <1>2, <1>3, <1>4, <1>5 DEF IInv, Unanswered

(* The head ends with a line of the client, or with one made up because    *)
(* the stream ended or a line was not UTF-8.                               *)
LEMMA HeadEndsKeeps ==
    ASSUME IInv, pc = "headers",
           NEW unit \in Nat, NEW length \in Nat, HeadEnds(Append(request, unit), length),
           UNCHANGED <<clientVars, fetched, tried, backendVars, answerVars>>,
           used' \in {used, used + 1}, used' <= fetched,
           unit = Made => closed \/ script.bad # {},
           unit # Made => unit = used + 1 /\ used' = unit
    PROVE  /\ TypeOK' /\ Unanswered' /\ StageKnows' /\ ForwardsPrefix'
           /\ request' = Append(request, unit) /\ want' = used + 1 + length
           /\ pc' \in {"mitm", "tunnel", "body", "open", "done"}
           /\ pc' \in {"mitm", "tunnel"} => IsConnect
           /\ pc' \in {"body", "open"} => script.method = "GET"
           /\ pc' = "open" => length = 0
<1> USE DEF clientVars, backendVars, answerVars, HeadEnds
<1>0. /\ TypeOK /\ StageKnows /\ Unanswered /\ ForwardsPrefix
      /\ tried = 0 /\ forwarded = <<>> /\ ~replied /\ responses = 0 /\ ~lost
      /\ used \in Nat /\ used >= 1 /\ fetched \in Nat /\ sent \in Nat
      /\ request \in Seq(Nat) /\ Len(request) = used
      /\ \A i \in 1..used : request[i] = i
      /\ InOrder(request) /\ MadeUpFor(request)
      /\ script.method \in {"CONNECT", "GET", "none"}
  BY ScriptFacts DEF IInv, TypeOK, StageKnows, Unanswered, Reading
<1>1. /\ request' = Append(request, unit) /\ request' \in Seq(Nat)
      /\ Len(request') = used + 1 /\ want' = used + 1 + length
      /\ \A i \in 1..used : request'[i] = i
      /\ request'[used + 1] = unit
  BY <1>0
<1>2. /\ pc' \in {"mitm", "tunnel", "body", "open", "done"}
      /\ pc' \in {"mitm", "tunnel"} => IsConnect /\ IsTarget = (pc' # "tunnel")
      /\ pc' \in {"body", "open"} => script.method = "GET"
      /\ pc' = "body" => length > 0
      /\ pc' = "open" => length = 0
  BY <1>0 DEF Handler, IsConnect, IsTarget
<1>3. TypeOK'
  BY <1>0, <1>1, <1>2 DEF TypeOK
<1>4. Unanswered'
  BY <1>0, <1>2 DEF Unanswered, Reading, IsConnect
<1>5. InOrder(request)' /\ MadeUpFor(request)'
  <2>1. InOrder(Append(request, unit))
    BY <1>0, OrderAppend
  <2>2. MadeUpFor(Append(request, unit))
    BY <1>0, MadeAppend
  <2> QED
    BY <1>1, <2>1, <2>2 DEF InOrder, MadeUpFor
<1>6. \A i \in 1..Len(request') : request'[i] <= used'
  <2>1. \A i \in 1..used + 1 : i \in 1..used \/ i = used + 1
    BY <1>0
  <2>2. unit <= used' /\ used <= used' /\ used' \in Nat
    BY <1>0 DEF Made
  <2>3. \A i \in 1..used : i <= used'
    BY <1>0, <2>2
  <2> QED
    BY <1>1, <2>1, <2>2, <2>3
<1>7. StageKnows'
  BY <1>0, <1>1, <1>2, <1>5, <1>6 DEF StageKnows, Reading, IsConnect, IsTarget
<1>8. ForwardsPrefix'
  BY <1>0, ForwardedStays
<1> QED
  BY <1>1, <1>2, <1>3, <1>4, <1>7, <1>8

(* A client that opens a tunnel, or that announces no body, has sent its   *)
(* head at most: none of it is left unread.                                *)
LEMMA ReadHeadersKeeps ==
    ASSUME IInv, ReadHeaders, AnnouncesLength
    PROVE  IInv'
<1> DEFINE Kept == UNCHANGED <<clientVars, fetched, tried, backendVars, answerVars>>
<1>0. /\ TypeOK /\ StageKnows /\ Unanswered /\ ForwardsPrefix /\ pc = "headers"
      /\ ~replied /\ responses = 0 /\ forwarded = <<>> /\ tried = 0
      /\ used \in Nat /\ used >= 1 /\ used < script.head
      /\ fetched \in Nat /\ used <= fetched /\ sent \in Nat /\ fetched <= sent
      /\ request \in Seq(Nat) /\ Len(request) = used
      /\ \A i \in 1..used : request[i] = i
      /\ InOrder(request) /\ MadeUpFor(request)
      /\ script.head \in Nat /\ script.length \in Nat /\ script.lengthAt \in Nat
      /\ script \in Scripts
      /\ Kept
  BY ScriptFacts
     DEF IInv, TypeOK, StageKnows, Unanswered, Reading, ReadHeaders
<1>1. CASE used < fetched /\ used' = used + 1 /\ Header
  <2> USE DEF Header, clientVars, backendVars, answerVars
  <2>1. /\ request' = Append(request, used + 1) /\ request' \in Seq(Nat)
        /\ Len(request') = used + 1
        /\ \A i \in 1..used : request'[i] = i
        /\ request'[used + 1] = used + 1
        /\ UNCHANGED <<pc, want>> /\ used' < script.head
    BY <1>0, <1>1
  <2>2. \A i \in 1..used' : request'[i] = i
    <3>1. \A i \in 1..used' : i \in 1..used \/ i = used + 1
      BY <1>0, <1>1
    <3> QED
      BY <2>1, <3>1
  <2>3. InOrder(request)' /\ MadeUpFor(request)'
    <3>1. Len(request') = used' /\ used' \in Nat
      BY <1>0, <1>1, <2>1
    <3> QED
      BY <2>2, <3>1 DEF InOrder, MadeUpFor, Made
  <2>4. TypeOK'
    BY <1>0, <1>1, <2>1 DEF TypeOK
  <2>5. Unanswered'
    BY <1>0, <2>1 DEF Unanswered, Reading, IsConnect
  <2>6. StageKnows'
    BY <1>0, <1>1, <2>1, <2>2, <2>3 DEF StageKnows, Reading
  <2>7. StreamKnown'
    BY <1>0, <2>1 DEF StreamKnown
  <2>8. ForwardsPrefix'
    BY <1>0, ForwardedStays
  <2> QED
    BY <2>4, <2>5, <2>6, <2>7, <2>8 DEF IInv, Unanswered
<1>2. CASE /\ used < fetched /\ used' = used + 1 /\ used + 1 = script.head
           /\ HeadEnds(Append(request, used + 1), Announced)
  <2>1. Announced \in Nat /\ (script.method = "GET" => Announced = script.length)
    BY <1>0, <1>2 DEF Announced, AnnouncesLength
  <2>2. /\ TypeOK' /\ Unanswered' /\ StageKnows' /\ ForwardsPrefix'
        /\ request' = Append(request, used + 1) /\ want' = used + 1 + Announced
        /\ pc' \in {"mitm", "tunnel", "body", "open", "done"}
        /\ pc' \in {"mitm", "tunnel"} => IsConnect
        /\ pc' \in {"body", "open"} => script.method = "GET"
        /\ pc' = "open" => Announced = 0
    BY <1>0, <1>2, <2>1, HeadEndsKeeps DEF Made
  <2>3. pc' \in {"mitm", "tunnel", "open"} => used' = fetched
    <3>1. CASE pc' \in {"mitm", "tunnel"}
      BY <1>0, <1>2, <2>2, <3>1 DEF Unanswered
    <3>2. CASE pc' = "open"
      <4>1. script.ends[1] = script.head /\ sent <= script.ends[1]
        BY <1>0, <2>1, <2>2, <3>2 DEF AnnouncesLength, Unanswered, IsConnect
      <4> QED
        BY <1>0, <1>2, <4>1
    <3> QED
      BY <3>1, <3>2
  <2>4. Carries(request, 0, used)' /\ Len(request') = used'
    <3>1. Len(request) = used - 0
      BY <1>0
    <3>2. Carries(request, 0, used)
      BY <1>0 DEF Carries
    <3>3. Carries(Append(request, used + 1), 0, used + 1)
      BY <1>0, <3>1, <3>2, CarriesNext
    <3>4. Len(request') = used + 1
      BY <1>0, <2>2
    <3> QED
      BY <1>0, <1>2, <2>2, <3>3, <3>4 DEF Carries, clientVars
  <2>5. pc' = "body" => want' = script'.head + script'.length
    BY <1>0, <1>2, <2>1, <2>2 DEF clientVars
  <2>6. used' = script'.head /\ used' <= script'.head /\ fetched' = fetched
    BY <1>0, <1>2 DEF clientVars
  <2>7. StreamKnown'
    <3>1. pc' \notin {"write", "accept", "relay"}
      BY <2>2
    <3> QED
      BY <2>3, <2>4, <2>5, <2>6, <3>1 DEF StreamKnown
  <2> QED
    BY <2>2, <2>7 DEF IInv, Unanswered
<1>3. CASE /\ used < fetched /\ used' = used + 1 /\ used + 1 \in script.bad
           /\ HeadEnds(Append(request, Made), Announced)
  <2>1. Announced \in Nat /\ Made \in Nat /\ script.bad # {}
    BY <1>0, <1>3 DEF Announced, Made
  <2>2. TypeOK' /\ Unanswered' /\ StageKnows' /\ ForwardsPrefix'
    BY <1>0, <1>3, <2>1, HeadEndsKeeps
  <2> QED
    BY <1>0, <2>1, <2>2 DEF IInv, Unanswered, clientVars
<1>4. ASSUME used = fetched, Eof, UNCHANGED used,
             NEW length \in Nat, HeadEnds(Append(request, Made), length)
      PROVE  IInv'
  <2>1. Made \in Nat /\ closed
    BY <1>4 DEF Made, Eof
  <2>2. /\ TypeOK' /\ Unanswered' /\ StageKnows' /\ ForwardsPrefix'
        /\ request' = Append(request, Made)
        /\ pc' \in {"mitm", "tunnel", "body", "open", "done"}
    BY <1>0, <1>4, <2>1, HeadEndsKeeps
  <2>3. AtEnd' /\ closed' /\ Eof'
    BY <1>0, <1>4, <2>1 DEF AtEnd, Eof, clientVars
  <2>4. Carries(request, 0, used)'
    <3>1. /\ Len(request') = used + 1 /\ used' = used
          /\ \A i \in 1..used : request'[i] = i
          /\ request'[used + 1] = Made
      BY <1>0, <1>4, <2>1, <2>2
    <3>2. ASSUME NEW i \in 1..Len(request')
          PROVE  request'[i] = IF 0 + i <= used' THEN 0 + i ELSE Made
      <4>1. i \in 1..used \/ i = used + 1
        BY <1>0, <3>1
      <4> QED
        BY <1>0, <3>1, <4>1
    <3>3. Len(request') > used' - 0
      BY <1>0, <3>1
    <3> QED
      BY <2>3, <3>2, <3>3 DEF Carries
  <2>5. StreamKnown'
    BY <1>0, <1>4, <2>2, <2>3, <2>4 DEF StreamKnown, AtEnd, clientVars
  <2> QED
    BY <2>2, <2>5 DEF IInv, Unanswered
<1>5. CASE /\ used = fetched /\ Eof /\ UNCHANGED used
           /\ pc' = "done" /\ UNCHANGED <<request, want>>
  <2> USE DEF clientVars, backendVars, answerVars
  <2>1. TypeOK' /\ Unanswered'
    BY <1>0, <1>5 DEF TypeOK, Unanswered, Reading, IsConnect
  <2>2. StageKnows' /\ StreamKnown'
    BY <1>0, <1>5 DEF StageKnows, StreamKnown, Reading, InOrder, MadeUpFor
  <2>3. ForwardsPrefix'
    BY <1>0, ForwardedStays
  <2> QED
    BY <2>1, <2>2, <2>3 DEF IInv, Unanswered
<1>6. CASE /\ used = fetched /\ Eof /\ UNCHANGED used
           /\ \E length \in IF used = script.lengthAt THEN 0..script.length
                                                      ELSE {Announced} :
                 HeadEnds(Append(request, Made), length)
  <2>1. PICK length \in Nat : HeadEnds(Append(request, Made), length)
    <3>1. Announced \in Nat /\ 0..script.length \subseteq Nat
      BY <1>0 DEF Announced
    <3> QED
      BY <1>6, <3>1
  <2> QED
    BY <1>4, <1>6, <2>1
<1> QED
  BY <1>1, <1>2, <1>3, <1>5, <1>6 DEF ReadHeaders

(* With the body complete the client has sent all it may before it is      *)
(* answered, and the thread has used all of it.                            *)
LEMMA ReadBodyKeeps ==
    ASSUME IInv, ReadBody, AnnouncesLength
    PROVE  IInv'
<1> DEFINE Kept == UNCHANGED <<clientVars, fetched, want, tried, backendVars, answerVars>>
<1>0. /\ TypeOK /\ StageKnows /\ Unanswered /\ ForwardsPrefix /\ pc = "body"
      /\ ~replied /\ responses = 0 /\ forwarded = <<>> /\ tried = 0 /\ ~lost
      /\ script.method = "GET" /\ ~IsConnect
      /\ used \in Nat /\ used >= 1 /\ fetched \in Nat /\ used <= fetched
      /\ sent \in Nat /\ fetched <= sent
      /\ request \in Seq(Nat) /\ Len(request) \in Nat /\ want \in Nat /\ Len(request) < want
      /\ \A i \in 1..Len(request) : request[i] \in Nat /\ request[i] <= used
      /\ InOrder(request) /\ MadeUpFor(request)
      /\ script.bad = {} => StreamKnown
      /\ script.head \in Nat /\ script.length \in Nat
      /\ script.ends[1] = script.head + script.length
      /\ script \in Scripts
      /\ Kept
  <2>1. /\ TypeOK /\ StageKnows /\ Unanswered /\ ForwardsPrefix /\ pc = "body"
        /\ script.bad = {} => StreamKnown
        /\ Kept
    BY DEF IInv, Unanswered, ReadBody
  <2>2. /\ used \in Nat /\ fetched \in Nat /\ used <= fetched /\ script \in Scripts
        /\ sent \in Nat /\ fetched <= sent
        /\ request \in Seq(Nat) /\ Len(request) \in Nat /\ want \in Nat
    BY <2>1 DEF TypeOK
  <2>3. \A i \in 1..Len(request) : request[i] \in Nat
    BY <2>2
  <2>4. /\ ~replied /\ responses = 0 /\ forwarded = <<>> /\ tried = 0 /\ ~lost
        /\ script.method = "GET" /\ used >= 1 /\ Len(request) < want
        /\ InOrder(request) /\ MadeUpFor(request)
        /\ \A i \in 1..Len(request) : request[i] <= used
    BY <2>1 DEF StageKnows, Unanswered, Reading
  <2>5. /\ script.head \in Nat /\ script.length \in Nat /\ ~IsConnect
        /\ script.ends[1] = script.head + script.length
    BY <2>2, <2>4, ScriptFacts DEF IsConnect, AnnouncesLength
  <2> HIDE DEF Kept
  <2> QED
    BY <2>1, <2>2, <2>3, <2>4, <2>5
<1>1. Unanswered' /\ ForwardsPrefix' /\ pc' \in {"body", "open"}
  <2>1. ForwardsPrefix'
    BY <1>0, ForwardedStays DEF clientVars, backendVars
  <2>2. pc' \in {"body", "open"}
    BY <1>0 DEF ReadBody
  <2> QED
    BY <1>0, <2>1, <2>2
       DEF Unanswered, Reading, IsConnect, clientVars, backendVars, answerVars
<1>2. CASE /\ used < fetched /\ used' = used + 1
           /\ request' = Append(request, used + 1)
           /\ pc' = IF Len(request) + 1 = want THEN "open" ELSE "body"
  <2>1. /\ request' \in Seq(Nat) /\ Len(request') = Len(request) + 1
        /\ \A i \in 1..Len(request) : request'[i] = request[i]
        /\ request'[Len(request) + 1] = used + 1
        /\ pc' = "body" => Len(request') < want
        /\ pc' = "open" => Len(request') = want
    BY <1>0, <1>2
  <2>2. InOrder(request)' /\ MadeUpFor(request)'
    <3>1. used + 1 \in Nat /\ used + 1 # Made /\ \A i \in 1..Len(request) : request[i] < used + 1
      BY <1>0 DEF Made
    <3>2. InOrder(Append(request, used + 1)) /\ MadeUpFor(Append(request, used + 1))
      BY <1>0, <3>1, OrderAppend, MadeAppend
    <3> QED
      BY <1>0, <1>2, <3>2 DEF InOrder, MadeUpFor, clientVars
  <2>3. \A i \in 1..Len(request') : request'[i] <= used'
    <3>1. \A i \in 1..Len(request') : i \in 1..Len(request) \/ i = Len(request) + 1
      BY <1>0, <2>1
    <3>2. \A i \in 1..Len(request) : request[i] <= used + 1
      BY <1>0
    <3> QED
      BY <1>0, <1>2, <2>1, <3>1, <3>2
  <2>4. TypeOK'
    BY <1>0, <1>1, <1>2, <2>1 DEF TypeOK, clientVars, backendVars, answerVars
  <2>5. StageKnows'
    BY <1>0, <1>1, <1>2, <2>1, <2>2, <2>3
       DEF StageKnows, Reading, clientVars, backendVars, answerVars
  <2>6. ASSUME script.bad = {} PROVE StreamKnown'
    <3>1. /\ Carries(request, 0, used) /\ Len(request) = used
          /\ want = script.head + script.length
      BY <1>0, <1>2, <2>6 DEF StreamKnown, AtEnd
    <3>2. Carries(request, 0, used)' /\ Len(request') = used'
      <4>1. Len(request) = used - 0
        BY <1>0, <3>1
      <4>2. Carries(Append(request, used + 1), 0, used + 1)
        BY <1>0, <3>1, <4>1, CarriesNext
      <4> QED
        BY <1>0, <1>2, <2>1, <3>1, <4>2 DEF Carries, clientVars
    <3>3. pc' = "open" => used' = fetched'
      BY <1>0, <1>2, <2>1, <3>1, <3>2 DEF Unanswered, clientVars
    <3> QED
      BY <1>0, <1>1, <3>1, <3>2, <3>3 DEF StreamKnown, clientVars
  <2> QED
    BY <1>0, <1>1, <2>4, <2>5, <2>6 DEF IInv, Unanswered, clientVars
<1>3. CASE /\ used = fetched /\ Eof
           /\ request' = request \o [n \in 1..(want - Len(request)) |-> Made]
           /\ pc' = "open" /\ UNCHANGED used
  <2> DEFINE made == [n \in 1..(want - Len(request)) |-> Made]
  <2>1. made \in Seq(Nat) /\ Len(made) = want - Len(request) /\ \A i \in 1..Len(made) : made[i] = Made
    BY <1>0 DEF Made
  <2> HIDE DEF made
  <2>2. /\ request' \in Seq(Nat) /\ Len(request') = want
        /\ \A i \in 1..Len(request) : request'[i] = request[i]
        /\ \A i \in Len(request) + 1..Len(request') : request'[i] = Made
    <3>1. /\ request \o made \in Seq(Nat) /\ Len(request \o made) = Len(request) + Len(made)
          /\ \A i \in 1..Len(request) + Len(made) :
                (request \o made)[i] = IF i <= Len(request) THEN request[i]
                                       ELSE made[i - Len(request)]
      BY <1>0, <2>1, ConcatProperties
    <3>2. request' = request \o made /\ Len(request') = want
      BY <1>0, <1>3, <2>1, <3>1 DEF made
    <3>3. \A i \in 1..Len(request) : i \in 1..Len(request) + Len(made) /\ i <= Len(request)
      BY <1>0, <2>1
    <3>4. ASSUME NEW i \in Len(request) + 1..Len(request')
          PROVE  request'[i] = Made
      <4>1. /\ i \in 1..Len(request) + Len(made) /\ ~(i <= Len(request))
            /\ i - Len(request) \in 1..Len(made)
        BY <1>0, <2>1, <3>2
      <4> QED
        BY <2>1, <3>1, <3>2, <4>1
    <3> QED
      BY <3>1, <3>2, <3>3, <3>4
  <2>3. closed /\ AtEnd' /\ Len(request') > Len(request)
    BY <1>0, <1>3, <2>2 DEF AtEnd, Eof, clientVars
  <2>4. /\ InOrder(request') /\ MadeUpFor(request')
        /\ Carries(request, 0, used) => Carries(request', 0, used) /\ Len(request') # used
    BY <1>0, <2>2, <2>3, MadeUpRest
  <2>5. \A i \in 1..Len(request') : request'[i] <= used'
    <3>1. \A i \in 1..Len(request') : i \in 1..Len(request) \/ i \in Len(request) + 1..Len(request')
      BY <1>0, <2>2
    <3> QED
      BY <1>0, <1>3, <2>2, <3>1 DEF Made
  <2>6. TypeOK'
    BY <1>0, <1>1, <1>3, <2>2 DEF TypeOK, clientVars, backendVars, answerVars
  <2>7. StageKnows'
    <3>1. InOrder(request)' /\ MadeUpFor(request)'
      BY <1>0, <2>4 DEF InOrder, MadeUpFor, clientVars
    <3> QED
      BY <1>0, <1>3, <2>5, <3>1 DEF StageKnows, Reading, clientVars, backendVars, answerVars
  <2>8. ASSUME script.bad = {} PROVE StreamKnown'
    <3>1. Carries(request, 0, used)'
      BY <1>0, <1>3, <2>4, <2>8 DEF StreamKnown, Carries, clientVars
    <3> QED
      BY <1>0, <1>3, <2>3, <3>1 DEF StreamKnown, AtEnd, clientVars
  <2> QED
    BY <1>0, <1>1, <2>6, <2>7, <2>8 DEF IInv, Unanswered, clientVars
<1> QED
  BY <1>2, <1>3 DEF ReadBody

-----------------------------------------------------------------------------
(* The thread goes over from the BufReader to the bare socket.             *)

LEMMA HttpOpenKeeps == ASSUME IInv, HttpOpen PROVE IInv'
<1> USE DEF HttpOpen, clientVars, requestVars, answerVars
<1>0. /\ TypeOK /\ StageKnows /\ Unanswered /\ ForwardsPrefix
      /\ forwarded = <<>> /\ tried = 0 /\ ~IsConnect /\ sent \in Nat
      /\ script.bad = {} => StreamKnown
  BY DEF IInv, Unanswered, StageKnows, Reading, TypeOK, IsConnect
<1>1. TypeOK' /\ Unanswered'
  BY <1>0 DEF TypeOK, Unanswered, Reading, IsConnect
<1>2. StageKnows'
  BY <1>0 DEF StageKnows, Reading, InOrder, MadeUpFor
<1>3. script.bad = {} => StreamKnown'
  BY <1>0 DEF StreamKnown, Carries, AtEnd, Eof
<1>4. ForwardsPrefix'
  BY <1>0, ForwardedStays
<1> QED
  BY <1>1, <1>2, <1>3, <1>4 DEF IInv, Unanswered

(* What was and what will be written are the request, in its order.        *)
LEMMA WriteRequestKeeps == ASSUME IInv, WriteRequest PROVE IInv'
<1> DEFINE unit == request[tried + 1]
<1>0. /\ TypeOK /\ StageKnows /\ Unanswered /\ ForwardsPrefix /\ pc = "write"
      /\ script.method = "GET" /\ ~IsConnect /\ Skipped = 0
      /\ request \in Seq(Nat) /\ forwarded \in Seq(Nat)
      /\ Len(request) \in Nat /\ Len(forwarded) \in Nat
      /\ tried \in Nat /\ tried < Len(request) /\ tried + 1 \in 1..Len(request)
      /\ used \in Nat /\ used >= 1 /\ fetched \in Nat /\ used <= fetched
      /\ sent \in Nat /\ fetched <= sent
      /\ unit \in Nat /\ unit <= used
      /\ InOrder(request) /\ MadeUpFor(request)
      /\ InOrder(forwarded) /\ MadeUpFor(forwarded)
      /\ \A i \in 1..Len(forwarded) : forwarded[i] \in Nat /\ forwarded[i] <= fetched
      /\ \A i \in 1..Len(forwarded), j \in tried + 1..Len(request) :
            forwarded[i] # Made /\ request[j] # Made => forwarded[i] < request[j]
      /\ script.bad = {} => StreamKnown
  <2>1. /\ TypeOK /\ StageKnows /\ Unanswered /\ ForwardsPrefix
        /\ pc = "write" /\ tried < Len(request)
        /\ script.bad = {} => StreamKnown
    BY DEF IInv, Unanswered, WriteRequest
  <2>2. /\ request \in Seq(Nat) /\ forwarded \in Seq(Nat)
        /\ Len(request) \in Nat /\ Len(forwarded) \in Nat
        /\ used \in Nat /\ fetched \in Nat /\ used <= fetched
        /\ sent \in Nat /\ fetched <= sent
    BY <2>1 DEF TypeOK
  <2>3. tried \in Nat /\ tried + 1 \in 1..Len(request)
    BY <2>1, <2>2 DEF TypeOK
  <2>4. /\ script.method = "GET" /\ used >= 1
        /\ InOrder(request) /\ MadeUpFor(request)
        /\ \A i \in 1..Len(request) : request[i] <= used
        /\ \A i \in 1..Len(forwarded) : forwarded[i] <= fetched
        /\ \A i \in 1..Len(forwarded), j \in tried + 1..Len(request) :
              forwarded[i] # Made /\ request[j] # Made => forwarded[i] < request[j]
    BY <2>1 DEF StageKnows
  <2>5. unit \in Nat /\ unit <= used /\ \A i \in 1..Len(forwarded) : forwarded[i] \in Nat
    BY <2>2, <2>3, <2>4
  <2>6. InOrder(forwarded) /\ MadeUpFor(forwarded)
    BY <2>1 DEF ForwardsPrefix
  <2>7. ~IsConnect /\ Skipped = 0
    BY <2>4 DEF IsConnect, Skipped
  <2> HIDE DEF unit
  <2> QED
    BY <2>1, <2>2, <2>3, <2>4, <2>5, <2>6, <2>7
<1>1. /\ tried' = tried + 1 /\ Write(unit)
      /\ UNCHANGED <<clientVars, fetched, used, pc, request, want, backend, answerVars>>
  BY DEF WriteRequest
<1>2. tried' \in 0..Len(request')
  BY <1>0, <1>1
<1>3. Unanswered'
  BY <1>0, <1>1 DEF Unanswered, Reading, IsConnect, clientVars, answerVars
<1>4. CASE lost' = TRUE /\ UNCHANGED forwarded
  <2>1. TypeOK'
    BY <1>0, <1>1, <1>2, <1>4 DEF TypeOK, clientVars, answerVars
  <2>2. StageKnows'
    <3>1. \A j \in tried' + 1..Len(request) : j \in tried + 1..Len(request)
      BY <1>0, <1>1
    <3>2. \A i \in 1..Len(forwarded), j \in tried' + 1..Len(request) :
              forwarded[i] # Made /\ request[j] # Made => forwarded[i] < request[j]
      BY <1>0, <3>1
    <3> QED
      BY <1>0, <1>1, <1>4, <3>2
         DEF StageKnows, Reading, InOrder, MadeUpFor, clientVars, answerVars
  <2>3. script.bad = {} => StreamKnown'
    BY <1>0, <1>1, <1>4 DEF StreamKnown, Carries, AtEnd, Eof, clientVars
  <2>4. ForwardsPrefix'
    BY <1>0, <1>1, <1>4 DEF ForwardsPrefix, InOrder, MadeUpFor, clientVars
  <2> QED
    BY <1>1, <1>3, <2>1, <2>2, <2>3, <2>4 DEF IInv, Unanswered, clientVars
<1>5. CASE forwarded' = Append(forwarded, unit) /\ UNCHANGED lost
  <2> HIDE DEF unit
  <2>1. /\ forwarded' \in Seq(Nat) /\ Len(forwarded') = Len(forwarded) + 1
        /\ \A i \in 1..Len(forwarded) : forwarded'[i] = forwarded[i]
        /\ forwarded'[Len(forwarded) + 1] = unit
    BY <1>0, <1>5
  <2>2. \A i \in 1..Len(forwarded') : i \in 1..Len(forwarded) \/ i = Len(forwarded) + 1
    BY <1>0, <2>1
  <2>3. InOrder(forwarded') /\ MadeUpFor(forwarded')
    <3>1. \A i \in 1..Len(forwarded) :
              forwarded[i] # Made /\ unit # Made => forwarded[i] < unit
      <4>1. tried + 1 \in tried + 1..Len(request)
        BY <1>0
      <4> QED
        BY <1>0, <4>1 DEF unit
    <3>2. unit = Made => closed \/ script.bad # {}
      BY <1>0 DEF MadeUpFor, unit
    <3> QED
      BY <1>0, <1>5, <3>1, <3>2, OrderAppend, MadeAppend
  <2>4. TypeOK'
    BY <1>0, <1>1, <1>2, <1>5, <2>1 DEF TypeOK, clientVars, answerVars
  <2>5. StageKnows'
    <3>1. \A i \in 1..Len(forwarded') : forwarded'[i] <= fetched'
      <4>1. unit <= fetched
        BY <1>0 DEF unit
      <4>2. fetched' = fetched
        BY <1>1
      <4> QED
        BY <1>0, <2>1, <2>2, <4>1, <4>2
    <3>2. \A i \in 1..Len(forwarded'), j \in tried' + 1..Len(request) :
              forwarded'[i] # Made /\ request[j] # Made => forwarded'[i] < request[j]
      <4>1. ASSUME NEW i \in 1..Len(forwarded'), NEW j \in tried' + 1..Len(request),
                   forwarded'[i] # Made, request[j] # Made
            PROVE  forwarded'[i] < request[j]
        <5>1. j \in tried + 1..Len(request) /\ j \in 1..Len(request) /\ tried + 1 < j
          BY <1>0, <1>1
        <5>2. CASE i \in 1..Len(forwarded)
          BY <1>0, <2>1, <4>1, <5>1, <5>2
        <5>3. CASE i = Len(forwarded) + 1
          BY <1>0, <2>1, <4>1, <5>1, <5>3 DEF InOrder, unit
        <5> QED
          BY <2>2, <5>2, <5>3
      <4> QED
        BY <4>1
    <3> QED
      BY <1>0, <1>1, <1>5, <3>1, <3>2
         DEF StageKnows, Reading, InOrder, MadeUpFor, clientVars, answerVars
  <2>6. ASSUME script.bad = {}, ~lost
        PROVE  /\ Len(forwarded') = tried' /\ \A i \in 1..tried' : forwarded'[i] = request[i]
               /\ CarriesStream'
    <3>1. /\ Carries(request, 0, used) /\ Len(forwarded) = tried
          /\ \A i \in 1..tried : forwarded[i] = request[i]
      BY <1>0, <2>6 DEF StreamKnown
    <3>2. /\ Len(forwarded') = tried' /\ \A i \in 1..tried' : forwarded'[i] = request[i]
      <4>1. Len(forwarded') = tried + 1 /\ tried' = tried + 1
        BY <1>1, <2>1, <3>1
      <4>2. \A i \in 1..tried' : i \in 1..tried \/ i = tried + 1
        BY <1>0, <4>1
      <4> QED
        BY <2>1, <3>1, <4>1, <4>2 DEF unit
    <3> DEFINE last == IF tried + 1 <= used THEN tried + 1 ELSE used
    <3>3. last \in 1..sent
      BY <1>0
    <3>4. \A i \in 1..tried' : forwarded'[i] = IF 0 + i <= last THEN 0 + i ELSE Made
      <4>1. ASSUME NEW i \in 1..tried'
            PROVE  forwarded'[i] = IF 0 + i <= last THEN 0 + i ELSE Made
        <5>1. i \in 1..Len(request) /\ i <= tried + 1
          BY <1>0, <1>1
        <5>2. request[i] = IF 0 + i <= used THEN 0 + i ELSE Made
          BY <3>1, <5>1 DEF Carries
        <5>3. 0 + i <= last <=> 0 + i <= used
          BY <1>0, <5>1
        <5> QED
          BY <3>2, <5>2, <5>3
      <4> QED
        BY <4>1
    <3>5. Len(forwarded') = last - 0 \/ (closed /\ Len(forwarded') > last - 0)
      <4>1. CASE tried + 1 <= used
        BY <1>0, <1>1, <3>2, <4>1
      <4>2. CASE ~(tried + 1 <= used)
        <5>1. closed
          BY <1>0, <3>1, <4>2 DEF Carries
        <5> QED
          BY <1>0, <1>1, <3>2, <4>2, <5>1
      <4> QED
        BY <4>1, <4>2
    <3> HIDE DEF last
    <3>6. CarriesStream'
      <4>1. Skipped' = 0 /\ closed' = closed /\ sent' = sent
        BY <1>0, <1>1 DEF Skipped, IsConnect, IsTarget, Hello, clientVars
      <4> QED
        BY <3>2, <3>3, <3>4, <3>5, <4>1 DEF Carries, CarriesStream
    <3> QED
      BY <3>2, <3>6
  <2>7. script.bad = {} => StreamKnown'
    BY <1>0, <1>1, <1>5, <2>6 DEF StreamKnown, Carries, AtEnd, Eof, clientVars
  <2>8. ForwardsPrefix'
    BY <1>1, <1>5, <2>3, <2>6 DEF ForwardsPrefix, InOrder, MadeUpFor, clientVars
  <2> QED
    BY <1>1, <1>3, <2>4, <2>5, <2>7, <2>8 DEF IInv, Unanswered, clientVars
<1> QED
  BY <1>1, <1>4, <1>5 DEF Write

(* The request is written: the units of the client that were used are with *)
(* the backend, and the relay goes on with the next.                       *)
LEMMA RequestWrittenKeeps == ASSUME IInv, RequestWritten PROVE IInv'
<1> USE DEF RequestWritten, clientVars, requestVars, backendVars, answerVars
<1>0. /\ TypeOK /\ StageKnows /\ Unanswered /\ ForwardsPrefix
      /\ pc = "write" /\ ~IsConnect /\ Skipped = 0 /\ sent \in Nat /\ fetched \in Nat
      /\ tried = Len(request)
      /\ script.bad = {} => StreamKnown
  BY DEF IInv, Unanswered, StageKnows, TypeOK, IsConnect, Skipped
<1>1. TypeOK' /\ Unanswered'
  BY <1>0 DEF TypeOK, Unanswered, Reading, IsConnect
<1>2. StageKnows'
  BY <1>0 DEF StageKnows, Reading, InOrder, MadeUpFor
<1>3. ASSUME script.bad = {} PROVE StreamKnown'
  <2>1. /\ used = fetched /\ Carries(request, 0, fetched)
        /\ Len(request) # fetched => Eof
        /\ ~lost => Len(forwarded) = Len(request)
                    /\ \A i \in 1..Len(request) : forwarded[i] = request[i]
    BY <1>0, <1>3 DEF StreamKnown, AtEnd
  <2>2. ~lost => Carries(forwarded, 0, fetched)
    BY <2>1 DEF Carries
  <2>3. Skipped' = 0 /\ fetched - 0 = fetched
    BY <1>0 DEF Skipped, IsConnect
  <2>4. /\ ~lost' => Carries(forwarded, Skipped, fetched)'
        /\ ~lost' /\ Len(forwarded') # fetched' - Skipped' => Eof'
    BY <2>1, <2>2, <2>3 DEF Carries, Eof
  <2> QED
    BY <2>1, <2>4 DEF StreamKnown
<1>4. ForwardsPrefix'
  BY <1>0, ForwardedStays
<1> QED
  BY <1>1, <1>2, <1>3, <1>4 DEF IInv, Unanswered

LEMMA MitmOpenKeeps == ASSUME IInv, MitmOpen PROVE IInv'
<1> USE DEF MitmOpen, clientVars, requestVars
<1>0. /\ TypeOK /\ StageKnows /\ Unanswered /\ ForwardsPrefix /\ sent \in Nat
      /\ IsConnect /\ IsTarget /\ forwarded = <<>>
      /\ script.bad = {} => StreamKnown
  BY DEF IInv, Unanswered, StageKnows, TypeOK, IsTarget
<1>1. TypeOK' /\ Unanswered'
  BY <1>0 DEF TypeOK, Unanswered, Reading, IsConnect
<1>2. StageKnows'
  BY <1>0 DEF StageKnows, Reading, InOrder, MadeUpFor, IsConnect, IsTarget
<1>3. script.bad = {} => StreamKnown'
  BY <1>0 DEF StreamKnown, Eof
<1>4. ForwardsPrefix'
  BY <1>0, ForwardedStays
<1> QED
  BY <1>1, <1>2, <1>3, <1>4 DEF IInv, Unanswered

(* What follows the head, and nothing has yet, is the tunnel.              *)
LEMMA TunnelOpenKeeps == ASSUME IInv, TunnelOpen PROVE IInv'
<1> USE DEF TunnelOpen, clientVars, requestVars
<1>0. /\ TypeOK /\ StageKnows /\ Unanswered /\ ForwardsPrefix
      /\ sent \in Nat /\ fetched \in Nat /\ script.head \in Nat
      /\ IsConnect /\ ~IsTarget /\ forwarded = <<>>
      /\ script.bad = {} => StreamKnown
  BY ScriptFacts DEF IInv, Unanswered, StageKnows, TypeOK, IsTarget
<1>1. TypeOK' /\ Unanswered'
  BY <1>0 DEF TypeOK, Unanswered, Reading, IsConnect
<1>2. StageKnows'
  BY <1>0 DEF StageKnows, Reading, InOrder, MadeUpFor, IsConnect, IsTarget
<1>3. ASSUME script.bad = {} PROVE StreamKnown'
  <2>1. used = fetched /\ used <= script.head /\ (used = script.head \/ Eof)
    BY <1>0, <1>3 DEF StreamKnown
  <2>2. /\ Skipped' = script.head /\ forwarded' = <<>> /\ Len(<<>>) = 0
        /\ fetched' = fetched /\ used' = fetched /\ (Eof => Eof' /\ closed')
    BY <1>0, <2>1 DEF Skipped, IsConnect, IsTarget, Eof
  <2>3. Carries(forwarded, Skipped, fetched)' /\ (Len(forwarded') # fetched' - Skipped' => Eof')
    BY <1>0, <2>1, <2>2 DEF Carries
  <2> QED
    BY <2>2, <2>3 DEF StreamKnown
<1>4. ForwardsPrefix'
  BY <1>0, ForwardedStays
<1> QED
  BY <1>1, <1>2, <1>3, <1>4 DEF IInv, Unanswered

(* The relay begins after the hello, which is where it should.             *)
LEMMA AcceptKeeps == ASSUME IInv, Accept PROVE IInv'
<1> USE DEF Accept, clientVars, requestVars, backendVars, answerVars
<1>0. /\ TypeOK /\ StageKnows /\ Unanswered /\ ForwardsPrefix /\ sent \in Nat
      /\ IsConnect /\ IsTarget /\ forwarded = <<>> /\ Len(<<>>) = 0
      /\ fetched \in Nat /\ used \in Nat /\ used <= fetched /\ script.head \in Nat
      /\ request \in Seq(Nat) /\ \A i \in 1..Len(request) : request[i] \in Nat
  <2>1. TypeOK /\ StageKnows /\ Unanswered /\ ForwardsPrefix /\ pc = "accept"
    BY DEF IInv, Unanswered
  <2>2. /\ sent \in Nat /\ fetched \in Nat /\ used \in Nat /\ used <= fetched
        /\ request \in Seq(Nat) /\ script.head \in Nat
    BY <2>1, ScriptFacts DEF TypeOK
  <2>3. IsConnect /\ IsTarget /\ forwarded = <<>>
    BY <2>1 DEF StageKnows, IsTarget
  <2>4. \A i \in 1..Len(request) : request[i] \in Nat
    BY <2>2
  <2> QED
    BY <2>1, <2>2, <2>3, <2>4
<1>1. TypeOK' /\ Unanswered'
  BY <1>0 DEF TypeOK, Unanswered, Reading, IsConnect
<1>2. StageKnows'
  <2>1. used' \in Nat /\ used <= used' /\ \A i \in 1..Len(request) : request[i] <= used'
    BY <1>0 DEF StageKnows
  <2> QED
    BY <1>0, <2>1 DEF StageKnows, Reading, InOrder, MadeUpFor, IsConnect, IsTarget
<1>3. StreamKnown'
  <2>1. CASE pc' = "relay"
    <3>1. fetched' = Hello /\ used' = Hello /\ Skipped' = Hello /\ Hello \in Nat
      BY <1>0, <2>1 DEF Skipped, IsConnect, IsTarget, Hello
    <3>2. forwarded' = <<>> /\ fetched' - Skipped' = 0
      BY <1>0, <3>1
    <3>3. Carries(forwarded, Skipped, fetched)'
      BY <1>0, <3>2 DEF Carries
    <3> QED
      BY <1>0, <2>1, <3>1, <3>2, <3>3 DEF StreamKnown
  <2>2. CASE pc' = "done"
    BY <2>2 DEF StreamKnown
  <2> QED
    BY <2>1, <2>2
<1>4. ForwardsPrefix'
  BY <1>0, ForwardedStays
<1> QED
  BY <1>1, <1>2, <1>3, <1>4 DEF IInv, Unanswered

-----------------------------------------------------------------------------
(* The relay, and the end.                                                 *)

LEMMA RelayUpKeeps == ASSUME IInv, RelayUp PROVE IInv'
<1>0. /\ TypeOK /\ StageKnows /\ Unanswered /\ ForwardsPrefix /\ pc = "relay"
      /\ sent \in Nat /\ fetched \in Nat /\ fetched < sent
      /\ used \in Nat /\ used <= fetched
      /\ forwarded \in Seq(Nat) /\ Len(forwarded) \in Nat
      /\ \A i \in 1..Len(forwarded) : forwarded[i] \in Nat /\ forwarded[i] <= fetched
      /\ request \in Seq(Nat) /\ \A i \in 1..Len(request) : request[i] \in Nat
      /\ InOrder(forwarded) /\ MadeUpFor(forwarded)
      /\ Skipped \in Nat /\ Skipped' = Skipped
      /\ script.bad = {} => StreamKnown
  <2>1. /\ TypeOK /\ StageKnows /\ Unanswered /\ ForwardsPrefix
        /\ pc = "relay" /\ fetched < sent
        /\ script.bad = {} => StreamKnown
    BY DEF IInv, Unanswered, RelayUp
  <2>2. Skipped \in Nat /\ Skipped' = Skipped
    BY <2>1, ScriptFacts
       DEF TypeOK, Skipped, IsConnect, IsTarget, Hello, RelayUp, clientVars
  <2>3. /\ sent \in Nat /\ fetched \in Nat /\ used \in Nat /\ used <= fetched
        /\ forwarded \in Seq(Nat) /\ request \in Seq(Nat)
    BY <2>1 DEF TypeOK
  <2>4. /\ \A i \in 1..Len(forwarded) : forwarded[i] <= fetched
        /\ InOrder(forwarded) /\ MadeUpFor(forwarded)
    BY <2>1 DEF StageKnows, ForwardsPrefix
  <2> QED
    BY <2>1, <2>2, <2>3, <2>4
<1>1. /\ fetched' = fetched + 1 /\ used' = fetched + 1 /\ Write(fetched + 1)
      /\ UNCHANGED <<clientVars, pc, requestVars, backend, answerVars>>
  BY DEF RelayUp
<1> USE DEF clientVars, requestVars, answerVars
<1>2. Unanswered'
  BY <1>0, <1>1 DEF Unanswered, Reading, IsConnect
<1>3. \A i \in 1..Len(request') : request'[i] <= used'
  <2>1. \A i \in 1..Len(request) : request[i] <= used
    BY <1>0 DEF StageKnows
  <2> QED
    BY <1>0, <1>1, <2>1
<1>4. CASE lost' = TRUE /\ UNCHANGED forwarded
  <2>1. TypeOK'
    BY <1>0, <1>1, <1>4 DEF TypeOK
  <2>2. StageKnows'
    <3>1. \A i \in 1..Len(forwarded') : forwarded'[i] <= fetched'
      BY <1>0, <1>1, <1>4
    <3> QED
      BY <1>0, <1>1, <1>3, <1>4, <3>1 DEF StageKnows, Reading, InOrder, MadeUpFor
  <2>3. script.bad = {} => StreamKnown'
    BY <1>0, <1>1, <1>4 DEF StreamKnown
  <2>4. ForwardsPrefix'
    BY <1>0, <1>1, <1>4 DEF ForwardsPrefix, InOrder, MadeUpFor
  <2> QED
    BY <1>1, <1>2, <2>1, <2>2, <2>3, <2>4 DEF IInv, Unanswered
<1>5. CASE forwarded' = Append(forwarded, fetched + 1) /\ UNCHANGED lost
  <2>1. /\ forwarded' \in Seq(Nat) /\ Len(forwarded') = Len(forwarded) + 1
        /\ \A i \in 1..Len(forwarded) : forwarded'[i] = forwarded[i]
        /\ forwarded'[Len(forwarded) + 1] = fetched + 1
    BY <1>0, <1>5
  <2>2. InOrder(forwarded') /\ MadeUpFor(forwarded')
    <3>1. fetched + 1 \in Nat /\ fetched + 1 # Made
      BY <1>0 DEF Made
    <3>2. ASSUME NEW i \in 1..Len(forwarded) PROVE forwarded[i] < fetched + 1
      <4>1. forwarded[i] \in Nat /\ forwarded[i] <= fetched /\ fetched \in Nat
        BY <1>0, Zenon
      <4> QED
        BY <4>1
    <3> QED
      BY <1>0, <1>5, <3>1, <3>2, OrderAppend, MadeAppend
  <2>3. TypeOK'
    BY <1>0, <1>1, <1>5, <2>1 DEF TypeOK
  <2>4. StageKnows'
    <3>1. ASSUME NEW i \in 1..Len(forwarded') PROVE forwarded'[i] <= fetched'
      <4>1. i \in 1..Len(forwarded) \/ i = Len(forwarded) + 1
        BY <1>0, <2>1
      <4>2. CASE i = Len(forwarded) + 1
        BY <1>0, <1>1, <2>1, <4>2
      <4>3. CASE i \in 1..Len(forwarded)
        <5>1. forwarded'[i] = forwarded[i] /\ forwarded[i] \in Nat /\ forwarded[i] <= fetched
          BY <1>0, <2>1, <4>3, Zenon
        <5> QED
          BY <1>0, <1>1, <5>1
      <4> QED
        BY <4>1, <4>2, <4>3
    <3> QED
      BY <1>0, <1>1, <1>3, <3>1 DEF StageKnows, Reading, InOrder, MadeUpFor
  <2>5. ASSUME script.bad = {}, ~lost
        PROVE  /\ Carries(forwarded, Skipped, fetched)' /\ Len(forwarded') = fetched' - Skipped'
               /\ CarriesStream'
    <3>1. Carries(forwarded, Skipped, fetched) /\ Len(forwarded) = fetched - Skipped
      BY <1>0, <2>5 DEF StreamKnown, Eof
    <3>2. /\ Carries(forwarded', Skipped, fetched')
          /\ Len(forwarded') = fetched' - Skipped
      <4>1. /\ forwarded \in Seq(Nat) /\ Skipped \in Nat /\ fetched \in Nat
            /\ forwarded' = Append(forwarded, fetched + 1) /\ fetched' = fetched + 1
        BY <1>0, <1>1, <1>5, Zenon
      <4> QED
        BY <3>1, <4>1, CarriesNext
    <3>3. Carries(forwarded, Skipped, fetched)'
      BY <1>0, <1>1, <3>2 DEF Carries
    <3>4. fetched' \in 1..sent'
      BY <1>0, <1>1
    <3> QED
      BY <1>0, <3>2, <3>3, <3>4 DEF CarriesStream
  <2>6. script.bad = {} => StreamKnown'
    BY <1>0, <1>1, <1>5, <2>5 DEF StreamKnown
  <2>7. ForwardsPrefix'
    BY <1>1, <1>5, <2>2, <2>5 DEF ForwardsPrefix, InOrder, MadeUpFor
  <2> QED
    BY <1>1, <1>2, <2>3, <2>4, <2>6, <2>7 DEF IInv, Unanswered
<1> QED
  BY <1>1, <1>4, <1>5 DEF Write

LEMMA RelayDownKeeps == ASSUME IInv, RelayDown PROVE IInv'
<1> USE DEF RelayDown, clientVars, requestVars, backendVars
<1>0. /\ TypeOK /\ StageKnows /\ Unanswered /\ ForwardsPrefix /\ sent \in Nat
      /\ responses \in Nat
      /\ script.bad = {} => StreamKnown
  BY DEF IInv, Unanswered, TypeOK
<1>1. TypeOK'
  <2>1. Len(script.ends) \in Nat
    BY <1>0, ScriptFacts DEF TypeOK
  <2>2. responses' \in 0..Len(script.ends)
    BY <1>0, <2>1
  <2> QED
    BY <1>0, <2>2 DEF TypeOK
<1>2. Unanswered'
  BY <1>0 DEF Unanswered, Reading, IsConnect
<1>3. StageKnows'
  BY <1>0 DEF StageKnows, Reading, InOrder, MadeUpFor
<1>4. script.bad = {} => StreamKnown'
  BY <1>0 DEF StreamKnown, Carries, Skipped, IsConnect, IsTarget, Hello, Eof
<1>5. ForwardsPrefix'
  BY <1>0, ForwardedStays
<1> QED
  BY <1>1, <1>2, <1>3, <1>4, <1>5 DEF IInv, Unanswered

LEMMA EndKeeps ==
    ASSUME IInv, OpenFails \/ RelayEnds \/ BackendCloses
    PROVE  IInv'
<1>0. /\ TypeOK /\ StageKnows /\ Unanswered /\ ForwardsPrefix /\ sent \in Nat
      /\ pc' = "done" /\ pc # "line"
      /\ UNCHANGED <<clientVars, fetched, used, requestVars, backendVars, answerVars>>
  BY DEF IInv, Unanswered, TypeOK, OpenFails, RelayEnds, BackendCloses
<1> USE DEF clientVars, requestVars, backendVars, answerVars
<1>1. TypeOK' /\ Unanswered'
  BY <1>0 DEF TypeOK, Unanswered, Reading, IsConnect
<1>2. StageKnows' /\ StreamKnown'
  BY <1>0 DEF StageKnows, StreamKnown, Reading, InOrder, MadeUpFor
<1>3. ForwardsPrefix'
  BY <1>0, ForwardedStays
<1> QED
  BY <1>1, <1>2, <1>3 DEF IInv, Unanswered

(* A client that has not left has had none of its units made up, and one   *)
(* that waits for its answers sends no more than it may.                   *)
LEMMA ClientStepKeeps == ASSUME IInv, ClientStep PROVE IInv'
<1>0. /\ TypeOK /\ StageKnows /\ Unanswered /\ ForwardsPrefix /\ ~closed
      /\ script.bad = {} => StreamKnown
  BY DEF IInv, Unanswered, ClientStep, Send, Close
<1>1. /\ UNCHANGED <<script, fetched, used, pc, requestVars, backendVars, answerVars>>
      /\ sent \in Nat /\ sent' \in Nat /\ sent' >= sent /\ closed' \in BOOLEAN
      /\ fetched \in Nat /\ fetched <= sent
  <2>1. CASE Send
    BY <1>0, <2>1 DEF ClientStep, Send, TypeOK
  <2>2. CASE Close
    BY <1>0, <2>2 DEF ClientStep, Close, TypeOK
  <2> QED
    BY <2>1, <2>2 DEF ClientStep
<1> USE DEF requestVars, backendVars, answerVars
<1>2. TypeOK'
  BY <1>0, <1>1 DEF TypeOK
<1>3. StageKnows'
  BY <1>0, <1>1 DEF StageKnows, Reading, InOrder, MadeUpFor, IsConnect, IsTarget
<1>4. script.bad = {} => StreamKnown'
  BY <1>0, <1>1 DEF StreamKnown, Carries, AtEnd, Eof, Skipped, IsConnect, IsTarget, Hello
<1>5. ForwardsPrefix'
  BY <1>0, <1>1, ForwardedStays
<1>6. Unanswered'
  <2>1. CASE Send
    <3>1. /\ script.head \in Nat /\ script.ends[1] \in Nat /\ Len(script.ends) >= 1
          /\ responses \in 0..Len(script.ends) /\ sent' = sent + 1
          /\ Len(script.ends) \in Nat /\ script' = script
      BY <1>0, <1>1, <2>1, ScriptFacts DEF TypeOK, Send
    <3>2. /\ IsConnect /\ ~replied => sent' <= script.head
          /\ ~IsConnect /\ responses = 0 => sent' <= script.ends[1]
      BY <2>1, <3>1 DEF Send, Answered
    <3> QED
      BY <1>0, <1>1, <3>2 DEF Unanswered, Reading, IsConnect
  <2>2. CASE Close
    BY <1>0, <1>1, <2>2 DEF Unanswered, Reading, Close, IsConnect
  <2> QED
    BY <2>1, <2>2 DEF ClientStep
<1> QED
  BY <1>1, <1>2, <1>3, <1>4, <1>5, <1>6 DEF IInv, Unanswered

LEMMA StutterKeeps == ASSUME IInv, UNCHANGED vars PROVE IInv'
<1> USE DEF vars, clientVars, requestVars, backendVars, answerVars
<1>0. sent \in Nat
  BY DEF IInv, TypeOK
<1>1. TypeOK' /\ Unanswered'
  BY DEF IInv, TypeOK, Unanswered, Reading, IsConnect
<1>2. StageKnows'
  BY DEF IInv, StageKnows, Reading, InOrder, MadeUpFor, IsConnect, IsTarget
<1>3. script.bad = {} => StreamKnown'
  BY DEF IInv, StreamKnown, Carries, AtEnd, Eof, Skipped, IsConnect, IsTarget, Hello
<1>4. ForwardsPrefix'
  BY <1>0, ForwardedStays DEF IInv
<1> QED
  BY <1>1, <1>2, <1>3, <1>4 DEF IInv, Unanswered

-----------------------------------------------------------------------------
(* For every client that announces the length of its body, however many    *)
(* requests it makes, wherever it leaves, whichever lines of its head are  *)
(* not UTF-8 and whichever writes fail: what the thread knows at each      *)
(* stage (src/proxy.rs:16-206).  If the head is UTF-8, nothing is left in  *)
(* the BufReader when handle_client goes over to the socket, and the relay *)
(* goes on where the head and body ended.                                  *)
THEOREM Invariance ==
    ASSUME AnnouncesLength
    PROVE  Spec => []IInv
<1>1. ASSUME IInv, [Next]_vars PROVE IInv'
  BY <1>1, FillKeeps, ReadLineKeeps, ReadHeadersKeeps, ReadBodyKeeps, HttpOpenKeeps,
     WriteRequestKeeps, RequestWrittenKeeps, MitmOpenKeeps, TunnelOpenKeeps, AcceptKeeps,
     RelayUpKeeps, RelayDownKeeps, EndKeeps, ClientStepKeeps, StutterKeeps
     DEF Next, Step
<1> QED
  BY <1>1, InitIInv, PTL DEF Spec

(* The backend never sees a unit of the client twice or out of order, nor  *)
(* one that is made up while a client with a head of UTF-8 is there; and   *)
(* unless a line of the head is not UTF-8 or a write fails it sees the     *)
(* client's stream, from where it should and without a gap                 *)
(* (src/proxy.rs:23-206).                                                  *)
THEOREM BackendSeesTheStream ==
    ASSUME AnnouncesLength
    PROVE  Spec => []ForwardsPrefix
<1>1. IInv => ForwardsPrefix
  BY DEF IInv
<1> QED
  BY <1>1, Invariance, PTL

-----------------------------------------------------------------------------
(* A connection is finite, for any scripts, with or without an announced   *)
(* length.                                                                 *)

(* Why it ends: nothing a connection does repeats.  The thread's step goes *)
(* on to a later stage, takes something off the socket or out of the       *)
(* BufReader, writes more of the request or relays a response; the client  *)
(* sends one more unit or leaves.  None of what is left of these ever      *)
(* grows, and each step lowers a part.                                     *)
Stage == [line |-> 0, headers |-> 1, body |-> 2, open |-> 3, mitm |-> 3, tunnel |-> 3,
          write |-> 4, accept |-> 4, relay |-> 5, done |-> 6]

Left == <<6 - Stage[pc], Total - fetched, Total - used,
          (script.head + script.length) - tried, Len(script.ends) - responses,
          Total - sent, IF closed THEN 0 ELSE 1>>

Shrinks ==
    /\ \A i \in 1..7 : Left'[i] \in 0..Left[i]
    /\ \E i \in 1..7 : Left'[i] < Left[i]

NothingRepeats == [][Shrinks]_vars

(* What is left is never negative: nothing passes its end.                 *)
Within ==
    /\ script \in Scripts
    /\ pc \in DOMAIN Stage
    /\ closed \in BOOLEAN
    /\ sent \in 0..Total /\ fetched \in 0..sent /\ used \in 0..fetched
    /\ request \in Seq(Nat) /\ want \in Nat
    /\ Len(request) <= script.head + script.length
    /\ tried \in 0..Len(request)
    /\ responses \in 0..Len(script.ends)
    /\ pc = "line" => used = 0 /\ request = <<>>
    /\ pc = "headers" => used < script.head /\ Len(request) = used
    /\ pc = "body" => Len(request) < want /\ want <= script.head + script.length

LEMMA TotalType ==
    ASSUME script \in Scripts
    PROVE  Total \in Nat
<1>1. script.ends \in Seq(Nat) /\ Len(script.ends) \in 1..Len(script.ends)
  BY ScriptFacts, ConnectionAssumption
<1> QED BY <1>1 DEF Total

LEMMA PartTypes ==
    ASSUME Within
    PROVE  /\ Stage[pc] \in 0..6
           /\ Total \in Nat /\ sent \in 0..Total /\ fetched \in 0..sent /\ used \in 0..fetched
           /\ script.head \in Nat /\ script.head >= 2 /\ script.length \in Nat
           /\ script.lengthAt \in Nat
           /\ Len(request) \in Nat /\ tried \in Nat
           /\ tried \in 0..script.head + script.length
           /\ Len(script.ends) \in Nat /\ responses \in 0..Len(script.ends)
<1>1. Stage[pc] \in 0..6
  BY DEF Within, Stage
<1>2. /\ script.head \in Nat /\ script.head >= 2 /\ script.length \in Nat
      /\ script.lengthAt \in Nat /\ Len(script.ends) \in Nat /\ Total \in Nat
  BY ScriptFacts, TotalType DEF Within
<1>3. /\ sent \in 0..Total /\ fetched \in 0..sent /\ used \in 0..fetched
      /\ Len(request) \in Nat /\ Len(request) <= script.head + script.length
      /\ tried \in 0..Len(request) /\ responses \in 0..Len(script.ends)
  BY DEF Within
<1>4. tried \in Nat /\ tried \in 0..script.head + script.length
  BY <1>2, <1>3
<1> QED BY <1>1, <1>2, <1>3, <1>4

(* Where a connection is never goes back, and a step moves it somewhere.   *)
Forward ==
    /\ script' = script
    /\ Stage[pc] <= Stage[pc'] /\ fetched <= fetched' /\ used <= used' /\ tried <= tried'
    /\ responses <= responses' /\ sent <= sent' /\ (closed => closed')
    /\ \/ Stage[pc] < Stage[pc'] \/ fetched < fetched' \/ used < used' \/ tried < tried'
       \/ responses < responses' \/ sent < sent' \/ (~closed /\ closed')

LEMMA Remains ==
    ASSUME NEW whole \in Nat, NEW a \in 0..whole, NEW b \in 0..whole, a <= b
    PROVE  whole - b \in 0..whole - a /\ (a < b => whole - b < whole - a)
  OBVIOUS

LEMMA ForwardShrinks ==
    ASSUME Within, Within', Forward
    PROVE  Shrinks
<1> DEFINE L == Left
           M == Left'
           total == Total
           units == script.head + script.length
           ends == Len(script.ends)
           open == IF closed THEN 0 ELSE 1
           open1 == IF closed' THEN 0 ELSE 1
<1>1. /\ Stage[pc] \in 0..6 /\ total \in Nat /\ units \in Nat /\ ends \in Nat
      /\ sent \in 0..total /\ fetched \in 0..total /\ used \in 0..total
      /\ tried \in 0..units /\ responses \in 0..ends
  <2>1. fetched \in Nat /\ used \in Nat /\ total \in Nat /\ used <= fetched /\ fetched <= total
    BY PartTypes
  <2>2. fetched \in 0..total /\ used \in 0..total
    BY <2>1
  <2> QED BY <2>2, PartTypes
<1>2. /\ Stage[pc'] \in 0..6
      /\ sent' \in 0..total /\ fetched' \in 0..total /\ used' \in 0..total
      /\ tried' \in 0..units /\ responses' \in 0..ends
  <2>1. Stage[pc'] \in 0..6
    <3>1. \A p \in DOMAIN Stage : Stage[p] \in 0..6
      BY DEF Stage
    <3>2. pc' \in DOMAIN Stage
      BY DEF Within, Stage
    <3> QED BY <3>1, <3>2
  <2>2. Total' = total /\ Len(request') \in Nat /\ script' = script
    BY DEF Forward, Total, Within
  <2>3. /\ sent' \in 0..total /\ fetched' \in 0..sent' /\ used' \in 0..fetched'
        /\ Len(request') <= units /\ tried' \in 0..Len(request') /\ responses' \in 0..ends
    BY <2>2 DEF Within
  <2> HIDE DEF total, units, ends
  <2> QED BY <1>1, <2>1, <2>2, <2>3
<1>3. /\ L[1] = 6 - Stage[pc] /\ L[2] = total - fetched /\ L[3] = total - used
      /\ L[4] = units - tried /\ L[5] = ends - responses /\ L[6] = total - sent
      /\ L[7] = open
  <2>1. L[1] = 6 - Stage[pc] /\ L[2] = total - fetched /\ L[3] = total - used
    BY DEF Left
  <2>2. L[4] = units - tried
    BY DEF Left
  <2>3. L[5] = ends - responses
    BY DEF Left
  <2>4. L[6] = total - sent
    BY DEF Left
  <2>5. L[7] = open
    BY DEF Left
  <2> QED BY <2>1, <2>2, <2>3, <2>4, <2>5
<1>4. /\ M[1] = 6 - Stage[pc'] /\ M[2] = total - fetched' /\ M[3] = total - used'
      /\ M[4] = units - tried' /\ M[5] = ends - responses' /\ M[6] = total - sent'
      /\ M[7] = open1
  <2>1. script' = script /\ Total' = total
    BY DEF Forward, Total
  <2>2. M[1] = 6 - Stage[pc'] /\ M[2] = total - fetched' /\ M[3] = total - used'
    BY <2>1 DEF Left
  <2>3. M[4] = units - tried'
    BY <2>1 DEF Left
  <2>4. M[5] = ends - responses'
    BY <2>1 DEF Left
  <2>5. M[6] = total - sent'
    BY <2>1 DEF Left
  <2>6. M[7] = open1
    BY <2>1 DEF Left
  <2> QED BY <2>2, <2>3, <2>4, <2>5, <2>6
<1>5. open \in 0..1 /\ open1 \in 0..open /\ (~closed /\ closed' => open1 < open)
  BY DEF Forward
<1>6. /\ Stage[pc] <= Stage[pc'] /\ fetched <= fetched' /\ used <= used'
      /\ tried <= tried' /\ responses <= responses' /\ sent <= sent'
  BY DEF Forward
<1> HIDE DEF L, M, total, units, ends, open, open1
<1>7. M[1] \in 0..L[1] /\ (Stage[pc] < Stage[pc'] => M[1] < L[1])
  BY <1>1, <1>2, <1>3, <1>4, <1>6, Remains
<1>8. M[2] \in 0..L[2] /\ (fetched < fetched' => M[2] < L[2])
  BY <1>1, <1>2, <1>3, <1>4, <1>6, Remains
<1>9. M[3] \in 0..L[3] /\ (used < used' => M[3] < L[3])
  BY <1>1, <1>2, <1>3, <1>4, <1>6, Remains
<1>10. M[4] \in 0..L[4] /\ (tried < tried' => M[4] < L[4])
  BY <1>1, <1>2, <1>3, <1>4, <1>6, Remains
<1>11. M[5] \in 0..L[5] /\ (responses < responses' => M[5] < L[5])
  BY <1>1, <1>2, <1>3, <1>4, <1>6, Remains
<1>12. M[6] \in 0..L[6] /\ (sent < sent' => M[6] < L[6])
  BY <1>1, <1>2, <1>3, <1>4, <1>6, Remains
<1>13. M[7] \in 0..L[7] /\ (~closed /\ closed' => M[7] < L[7])
  BY <1>3, <1>4, <1>5
<1>14. \/ M[1] < L[1] \/ M[2] < L[2] \/ M[3] < L[3] \/ M[4] < L[4] \/ M[5] < L[5]
       \/ M[6] < L[6] \/ M[7] < L[7]
  BY <1>7, <1>8, <1>9, <1>10, <1>11, <1>12, <1>13, Zenon DEF Forward
<1>15. \A i \in 1..7 : i \in {1, 2, 3, 4, 5, 6, 7}
  OBVIOUS
<1>16. (\A i \in 1..7 : M[i] \in 0..L[i]) /\ \E i \in 1..7 : M[i] < L[i]
  BY <1>7, <1>8, <1>9, <1>10, <1>11, <1>12, <1>13, <1>14, <1>15
<1> QED BY <1>16 DEF Shrinks, L, M

LEMMA InitWithin == Init => Within
<1> SUFFICES ASSUME Init PROVE Within
  OBVIOUS
<1>1. script \in Scripts
  BY DEF Init
<1>2. /\ script.head \in Nat /\ script.length \in Nat
      /\ Len(script.ends) \in Nat /\ Total \in Nat
  BY <1>1, ScriptFacts, TotalType
<1>3. pc = "line" /\ pc \in DOMAIN Stage
  BY DEF Init, Stage
<1>4. /\ request = <<>> /\ request \in Seq(Nat) /\ want \in Nat
      /\ Len(request) = 0 /\ Len(request) <= script.head + script.length
  <2>1. request = <<>> /\ want = 0
    BY DEF Init
  <2> QED BY <1>2, <2>1
<1>5. /\ closed \in BOOLEAN /\ used \in 0..fetched /\ tried \in 0..Len(request)
      /\ sent \in 0..Total /\ fetched \in 0..sent /\ responses \in 0..Len(script.ends)
  <2>1. /\ closed = FALSE /\ used = 0 /\ sent = 0 /\ fetched = 0 /\ responses = 0
        /\ tried = 0
    BY DEF Init
  <2>2. 0 \in 0..Total /\ 0 \in 0..0 /\ 0 \in 0..Len(script.ends) /\ 0 \in 0..Len(request)
    BY <1>2, <1>4
  <2> QED BY <2>1, <2>2, Zenon
<1>6. used = 0
  BY DEF Init
<1> QED BY <1>1, <1>3, <1>4, <1>5, <1>6 DEF Within

(* The thread reads more of the head and body, or goes on to a later stage.*)
LEMMA ReadsOn ==
    ASSUME Within, UNCHANGED <<script, sent, closed, fetched, tried, responses>>,
           used' \in Nat, used <= used', Stage[pc'] \in Nat, Stage[pc] <= Stage[pc'],
           used < used' \/ Stage[pc] < Stage[pc']
    PROVE  Forward
<1>1. sent \in Nat /\ fetched \in Nat /\ tried \in Nat /\ responses \in Nat
  BY PartTypes
<1> QED BY <1>1 DEF Forward

(* Reading the head moves the connection on, and the request stays within  *)
(* the client's own head and body.                                         *)
LEMMA HeadersForward ==
    ASSUME Within, ReadHeaders
    PROVE  Within' /\ Forward
<1>0. /\ Total \in Nat /\ sent \in Nat /\ fetched \in Nat /\ used \in Nat /\ used <= fetched
      /\ script.head \in Nat /\ script.length \in Nat /\ script.lengthAt \in Nat
      /\ pc = "headers" /\ used < script.head /\ Len(request) = used
      /\ request \in Seq(Nat) /\ Announced \in 0..script.length
      /\ tried \in Nat /\ tried <= used
      /\ UNCHANGED <<clientVars, fetched, tried, backendVars, answerVars>>
  <2>1. /\ pc = "headers" /\ UNCHANGED <<clientVars, fetched, tried, backendVars, answerVars>>
    BY DEF ReadHeaders
  <2>2. /\ used < script.head /\ Len(request) = used /\ request \in Seq(Nat)
        /\ tried \in 0..Len(request)
    BY <2>1 DEF Within
  <2>3. /\ Total \in Nat /\ sent \in Nat /\ fetched \in Nat /\ used \in Nat /\ used <= fetched
        /\ script.head \in Nat /\ script.length \in Nat /\ script.lengthAt \in Nat
    BY PartTypes
  <2>4. tried \in Nat /\ tried <= used /\ Announced \in 0..script.length
    BY <2>2, <2>3 DEF Announced
  <2> QED BY <2>1, <2>2, <2>3, <2>4
<1>1. CASE used < fetched /\ used' = used + 1 /\ Header
  <2>1. /\ request' \in Seq(Nat) /\ Len(request') = used' /\ used' < script.head
        /\ UNCHANGED <<pc, want>> /\ used' \in 0..fetched'
    BY <1>0, <1>1 DEF Header
  <2>2. tried' \in 0..Len(request') /\ Len(request') <= script.head + script.length
    BY <1>0, <1>1, <2>1
  <2>3. Within'
    BY <1>0, <2>1, <2>2 DEF Within, Total, clientVars, answerVars
  <2>4. /\ Stage[pc] \in Nat /\ Stage[pc'] \in Nat /\ Stage[pc] <= Stage[pc']
        /\ used' \in Nat /\ used < used' /\ used <= used'
    <3>1. Stage[pc'] = Stage[pc] /\ Stage[pc] \in 0..6
      BY <2>1, PartTypes
    <3> QED BY <1>0, <1>1, <3>1
  <2> QED
    BY <1>0, <2>3, <2>4, ReadsOn DEF clientVars, answerVars
<1>2. ASSUME NEW unit \in Nat, NEW length \in 0..script.length,
             HeadEnds(Append(request, unit), length),
             used' \in used..fetched
      PROVE  Within' /\ Forward
  <2>1. /\ request' \in Seq(Nat) /\ Len(request') = used + 1
        /\ want' \in Nat /\ want' = used + 1 + length
        /\ pc' \in {"mitm", "tunnel", "body", "open", "done"}
        /\ pc' = "body" => length > 0
    <3>1. /\ Append(request, unit) \in Seq(Nat)
          /\ Len(Append(request, unit)) = used + 1
      BY <1>0, <1>2
    <3>2. /\ request' = Append(request, unit) /\ want' = used + 1 + length
          /\ pc' = Handler(length)
      BY <3>1, <1>2 DEF HeadEnds
    <3>3. /\ pc' \in {"mitm", "tunnel", "body", "open", "done"}
          /\ pc' = "body" => length > 0
      BY <3>2 DEF Handler
    <3>4. want' \in Nat
      BY <1>0, <1>2, <3>2
    <3> QED BY <3>1, <3>2, <3>3, <3>4
  <2>2. /\ tried' \in 0..Len(request') /\ Len(request') <= script.head + script.length
        /\ want' <= script.head + script.length /\ used' \in 0..fetched'
        /\ pc' = "body" => Len(request') < want'
    <3>1. tried' \in 0..Len(request')
      BY <1>0, <2>1
    <3>2. /\ used + 1 <= script.head + script.length
          /\ used + 1 + length <= script.head + script.length
      BY <1>0
    <3>3. used' \in 0..fetched'
      BY <1>0, <1>2
    <3>4. pc' = "body" => Len(request') < want'
      BY <1>0, <2>1
    <3> QED
      BY <2>1, <3>1, <3>2, <3>3, <3>4
  <2>3. pc' \in DOMAIN Stage
    BY <2>1 DEF Stage
  <2>4. Within'
    BY <1>0, <2>1, <2>2, <2>3 DEF Within, Total, Stage, clientVars, answerVars
  <2>5. /\ Stage[pc'] \in Nat /\ Stage[pc] <= Stage[pc'] /\ Stage[pc] < Stage[pc']
        /\ used' \in Nat /\ used <= used'
    <3>1. Stage[pc] = 1 /\ Stage[pc'] \in 2..6
      BY <1>0, <2>1 DEF Stage
    <3>2. used' \in Nat /\ used <= used'
      BY <1>0, <1>2
    <3> QED
      BY <3>1, <3>2
  <2> QED
    BY <1>0, <2>4, <2>5, ReadsOn DEF clientVars, answerVars
<1>3. CASE used < fetched /\ used' = used + 1 /\ HeadEnds(Append(request, used + 1), Announced)
  BY <1>0, <1>2, <1>3
<1>4. CASE used < fetched /\ used' = used + 1 /\ HeadEnds(Append(request, Made), Announced)
  BY <1>0, <1>2, <1>4 DEF Made
<1>5. CASE /\ UNCHANGED used
           /\ \E length \in IF used = script.lengthAt THEN 0..script.length
                                                      ELSE {Announced} :
                 HeadEnds(Append(request, Made), length)
  <2>1. PICK length \in 0..script.length : HeadEnds(Append(request, Made), length)
    BY <1>0, <1>5
  <2>2. used' \in used..fetched /\ Made \in Nat
    BY <1>0, <1>5 DEF Made
  <2> QED
    BY <1>2, <2>1, <2>2
<1>6. CASE UNCHANGED used /\ pc' = "done" /\ UNCHANGED <<request, want>>
  <2>1. pc' \in DOMAIN Stage /\ Stage[pc] = 1 /\ Stage[pc'] = 6
    BY <1>0, <1>6 DEF Stage
  <2>2. Within'
    BY <1>0, <1>6, <2>1 DEF Within, Total, Stage, clientVars, answerVars
  <2> QED
    BY <1>0, <1>6, <2>1, <2>2, ReadsOn DEF clientVars, answerVars
<1> QED
  BY <1>1, <1>3, <1>4, <1>5, <1>6 DEF ReadHeaders

LEMMA BodyForward ==
    ASSUME Within, ReadBody
    PROVE  Within' /\ Forward
<1>0. /\ Total \in Nat /\ sent \in Nat /\ fetched \in Nat /\ used \in Nat /\ used <= fetched
      /\ script.head \in Nat /\ script.length \in Nat
      /\ pc = "body" /\ request \in Seq(Nat) /\ Len(request) \in Nat /\ want \in Nat
      /\ Len(request) < want /\ want <= script.head + script.length
      /\ tried \in Nat /\ tried <= Len(request)
      /\ UNCHANGED <<clientVars, fetched, want, tried, backendVars, answerVars>>
  <2>1. pc = "body" /\ UNCHANGED <<clientVars, fetched, want, tried, backendVars, answerVars>>
    BY DEF ReadBody
  <2>2. /\ request \in Seq(Nat) /\ Len(request) \in Nat /\ want \in Nat
        /\ Len(request) < want /\ want <= script.head + script.length
        /\ tried \in 0..Len(request)
    BY <2>1 DEF Within
  <2>3. /\ Total \in Nat /\ sent \in Nat /\ fetched \in Nat /\ used \in Nat /\ used <= fetched
        /\ script.head \in Nat /\ script.length \in Nat
    BY PartTypes
  <2> QED BY <2>1, <2>2, <2>3
<1>1. ASSUME request' \in Seq(Nat), Len(request') <= want, Len(request) <= Len(request'),
             pc' \in {"body", "open"}, pc' = "body" => Len(request') < want,
             used' \in used..fetched, pc' = "open" \/ used < used'
      PROVE  Within' /\ Forward
  <2>1. pc' \in DOMAIN Stage /\ Stage[pc] = 2 /\ Stage[pc'] \in 2..3
        /\ (pc' = "open" => Stage[pc'] = 3)
    BY <1>0, <1>1 DEF Stage
  <2>2. /\ Len(request') \in Nat /\ tried' \in 0..Len(request') /\ used' \in 0..fetched'
        /\ Len(request') <= script.head + script.length
    BY <1>0, <1>1
  <2>3. Within'
    BY <1>0, <1>1, <2>1, <2>2 DEF Within, Total, Stage, clientVars, answerVars
  <2> QED
    BY <1>0, <1>1, <2>1, <2>3, PartTypes DEF Forward, clientVars, answerVars
<1>2. CASE /\ used < fetched /\ used' = used + 1
           /\ request' = Append(request, used + 1)
           /\ pc' = IF Len(request) + 1 = want THEN "open" ELSE "body"
  <2>1. request' \in Seq(Nat) /\ Len(request') = Len(request) + 1
    BY <1>0, <1>2
  <2>2. /\ Len(request') <= want /\ Len(request) <= Len(request')
        /\ pc' = "body" => Len(request') < want
        /\ used' \in used..fetched /\ used < used'
    BY <1>0, <1>2, <2>1
  <2> QED
    BY <1>1, <1>2, <2>1, <2>2
<1>3. CASE /\ request' = request \o [n \in 1..(want - Len(request)) |-> Made]
           /\ pc' = "open" /\ UNCHANGED used
  <2> DEFINE made == [n \in 1..(want - Len(request)) |-> Made]
  <2>1. made \in Seq(Nat) /\ Len(made) = want - Len(request)
    BY <1>0 DEF Made
  <2> HIDE DEF made
  <2>2. request \o made \in Seq(Nat) /\ Len(request \o made) = Len(request) + Len(made)
    BY <1>0, <2>1, ConcatProperties
  <2>3. request' \in Seq(Nat) /\ Len(request') = want
    BY <1>0, <1>3, <2>1, <2>2 DEF made
  <2>4. Len(request') <= want /\ Len(request) <= Len(request') /\ used' \in used..fetched
    BY <1>0, <1>3, <2>3
  <2> QED
    BY <1>1, <1>3, <2>3, <2>4
<1> QED
  BY <1>2, <1>3 DEF ReadBody

(* Each step keeps within the bounds and moves the connection on.          *)
LEMMA StepForward ==
    ASSUME Within, Next
    PROVE  Within' /\ Forward
<1>0. /\ Stage[pc] \in 0..6
      /\ Total \in Nat /\ sent \in Nat /\ fetched \in Nat /\ fetched <= sent
      /\ used \in Nat /\ used <= fetched
      /\ script.head \in Nat /\ script.head >= 2 /\ script.length \in Nat
      /\ Len(request) \in Nat /\ tried \in Nat
      /\ Len(script.ends) \in Nat /\ responses \in Nat /\ responses <= Len(script.ends)
  BY PartTypes
<1> USE DEF clientVars, requestVars, backendVars, answerVars
<1>1. CASE Fill
  <2>1. /\ fetched' \in fetched + 1..sent
        /\ UNCHANGED <<script, sent, closed, pc, request, want, tried, responses, used>>
    BY <1>1 DEF Fill
  <2>2. Within'
    BY <1>0, <2>1 DEF Within, Total
  <2> QED BY <1>0, <2>1, <2>2 DEF Forward
<1>2. CASE ReadLine
  <2>1. /\ pc = "line" /\ request = <<>> /\ used' \in 0..fetched /\ used <= used'
        /\ UNCHANGED <<script, sent, closed, fetched, want, tried, responses>>
        /\ pc' \in {"headers", "done"}
        /\ pc' = "headers" => used' = used + 1 /\ request' = <<1>>
        /\ pc' = "done" => request' = <<>>
    BY <1>0, <1>2 DEF ReadLine, Within
  <2>2. used = 0 /\ tried = 0
    BY <1>0, <2>1 DEF Within
  <2>3. /\ request' \in Seq(Nat) /\ Len(request') \in Nat
        /\ Len(request') <= script.head + script.length
        /\ tried' \in 0..Len(request')
        /\ pc' = "headers" => Len(request') = 1 /\ used' = 1
    <3>1. <<1>> \in Seq(Nat) /\ Len(<<1>>) = 1 /\ <<>> \in Seq(Nat) /\ Len(<<>>) = 0
      OBVIOUS
    <3>2. CASE pc' = "headers"
      <4>1. /\ request' \in Seq(Nat) /\ Len(request') = 1 /\ tried' = 0
            /\ used' = 1
        <5>1. request' = <<1>> /\ used' = used + 1 /\ tried' = tried
          BY <2>1, <3>2
        <5>2. request' \in Seq(Nat) /\ Len(request') = 1
          BY <3>1, <5>1
        <5> QED BY <2>2, <5>1, <5>2
      <4>2. 1 <= script.head + script.length /\ 0 \in 0..1 /\ 1 \in Nat
        BY <1>0
      <4> HIDE DEF clientVars, requestVars, backendVars, answerVars
      <4> QED BY <4>1, <4>2
    <3>3. CASE pc' = "done"
      BY <1>0, <2>1, <2>2, <3>1, <3>3
    <3> QED BY <2>1, <3>2, <3>3
  <2>4. pc' \in DOMAIN Stage /\ Stage[pc] = 0 /\ Stage[pc'] \in 1..6
    BY <2>1 DEF Stage
  <2>5. Within'
    <3>1. Total' = Total
      BY <2>1 DEF Total
    <3>2. /\ script' \in Scripts /\ closed' \in BOOLEAN
          /\ sent' \in 0..Total' /\ fetched' \in 0..sent' /\ used' \in 0..fetched'
          /\ want' \in Nat /\ responses' \in 0..Len(script'.ends)
      BY <2>1, <3>1 DEF Within
    <3>3. pc' = "headers" => used' < script'.head /\ Len(request') = used'
      BY <1>0, <2>1, <2>3
    <3>4. Len(request') <= script'.head + script'.length /\ pc' \notin {"line", "body"}
      BY <2>1, <2>3
    <3> QED BY <2>3, <2>4, <3>2, <3>3, <3>4 DEF Within, Stage
  <2> QED BY <1>0, <2>1, <2>4, <2>5 DEF Forward
<1>3. CASE ReadHeaders
  BY <1>3, HeadersForward
<1>4. CASE ReadBody
  BY <1>4, BodyForward
<1>5. CASE OpenFails \/ HttpOpen \/ RequestWritten \/ MitmOpen \/ TunnelOpen
             \/ RelayEnds \/ BackendCloses
  <2>1. /\ pc' \in DOMAIN Stage /\ Stage[pc] < Stage[pc'] /\ Stage[pc'] \in 0..6
        /\ pc' \notin {"line", "headers", "body"}
        /\ UNCHANGED <<script, sent, closed, fetched, used, request, want, tried, responses>>
    <3> USE DEF Stage
    <3>1. CASE HttpOpen \/ RequestWritten \/ MitmOpen \/ TunnelOpen
      BY <3>1 DEF HttpOpen, RequestWritten, MitmOpen, TunnelOpen
    <3>2. CASE OpenFails \/ RelayEnds \/ BackendCloses
      BY <3>2 DEF OpenFails, RelayEnds, BackendCloses
    <3> QED BY <1>5, <3>1, <3>2
  <2>2. Within'
    BY <2>1 DEF Within, Total
  <2> QED BY <1>0, <2>1, <2>2 DEF Forward
<1>6. CASE WriteRequest
  <2>1. /\ tried < Len(request) /\ tried' = tried + 1
        /\ UNCHANGED <<script, sent, closed, fetched, used, pc, request, want, responses>>
    BY <1>6 DEF WriteRequest
  <2>2. Within'
    BY <1>0, <2>1 DEF Within, Total
  <2> QED BY <1>0, <2>1, <2>2 DEF Forward
<1>7. CASE Accept
  <2>1. /\ pc' \in {"relay", "done"} /\ pc = "accept"
        /\ UNCHANGED <<script, sent, closed, request, want, tried, responses>>
        /\ fetched' \in fetched..sent /\ used' \in used..fetched'
    BY <1>0, <1>7 DEF Accept
  <2>2. pc' \in DOMAIN Stage /\ Stage[pc] = 4 /\ Stage[pc'] \in 5..6
    BY <2>1 DEF Stage
  <2>3. Within'
    BY <1>0, <2>1, <2>2 DEF Within, Total, Stage
  <2> QED BY <1>0, <2>1, <2>2, <2>3 DEF Forward
<1>8. CASE RelayUp
  <2>1. /\ fetched < sent /\ fetched' = fetched + 1 /\ used' = fetched + 1 /\ pc = "relay"
        /\ UNCHANGED <<script, sent, closed, pc, request, want, tried, responses>>
    BY <1>8 DEF RelayUp
  <2>2. Within'
    BY <1>0, <2>1 DEF Within, Total
  <2> QED BY <1>0, <2>1, <2>2 DEF Forward
<1>9. CASE RelayDown
  <2>1. /\ responses < Len(script.ends) /\ responses' = responses + 1
        /\ UNCHANGED <<script, sent, closed, pc, request, want, tried, fetched, used>>
    BY <1>9 DEF RelayDown
  <2>2. Within'
    BY <1>0, <2>1 DEF Within, Total
  <2> QED BY <1>0, <2>1, <2>2 DEF Forward
<1>10. CASE ClientStep
  <2>1. UNCHANGED <<script, pc, request, want, tried, fetched, used, responses>>
    BY <1>10 DEF ClientStep, Send, Close
  <2>2. Total' = Total
    BY <2>1 DEF Total
  <2>3. CASE Send
    <3>1. sent < Total /\ sent' = sent + 1 /\ UNCHANGED closed
      BY <2>3 DEF Send
    <3>2. Within'
      BY <1>0, <2>1, <2>2, <3>1 DEF Within
    <3> QED BY <1>0, <2>1, <3>1, <3>2 DEF Forward
  <2>4. CASE Close
    <3>1. ~closed /\ closed' = TRUE /\ UNCHANGED sent
      BY <2>4 DEF Close
    <3>2. Within'
      BY <1>0, <2>1, <2>2, <3>1 DEF Within
    <3> QED BY <1>0, <2>1, <3>1, <3>2 DEF Forward
  <2> QED BY <1>10, <2>3, <2>4 DEF ClientStep
<1> QED
  BY <1>1, <1>2, <1>3, <1>4, <1>5, <1>6, <1>7, <1>8, <1>9, <1>10 DEF Next, Step

(* A connection is finite, whatever the client and the backend do: no step *)
(* of handle_client's thread (src/proxy.rs:11-206) goes back.              *)
THEOREM Finite == Spec => NothingRepeats
<1>1. Within /\ [Next]_vars => Within'
  <2>1. ASSUME Within, UNCHANGED vars
        PROVE  Within'
    BY <2>1 DEF vars, clientVars, requestVars, backendVars, answerVars, Within, Total
  <2> QED BY <2>1, StepForward
<1>2. Within /\ [Next]_vars => [Shrinks]_vars
  BY StepForward, ForwardShrinks
<1> QED BY <1>1, <1>2, InitWithin, PTL DEF Spec, NothingRepeats
====
