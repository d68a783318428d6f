------------------------ MODULE PieceTransferProofs ------------------------
(***************************************************************************)
(* OrdersCover of PieceTransfer, for any sizes, buffer, steps and limits.  *)
(*                                                                         *)
(* That little is ordered ahead is a fact about the client alone           *)
(* (ClientInv).  That an honest node is never met without an order is one  *)
(* about the queues in between: Covered says that every chunk on its way   *)
(* is preceded by the order that pays for it, Placed that what the         *)
(* client has received and what is on its way add up to what the node has  *)
(* sent, so that the end of its stream is not taken for a short answer.    *)
(***************************************************************************)
EXTENDS PieceTransfer, TLAPS

PutMsg == [stream : Nat, kind : {"put"}, size : Nat, limit : Nat, order : Nat, end : Nat, last : BOOLEAN]
GetMsg == [stream : Nat, kind : {"get"}, size : Nat, limit : Nat, order : Nat]
OrderMsg == [stream : Nat, kind : {"order"}, order : Nat]
CloseMsg == [stream : Nat, kind : {"close"}]
ToNode == PutMsg \cup GetMsg \cup OrderMsg \cup CloseMsg

Plain == [stream : Nat, kind : {"hash", "badHash", "error", "close", "closeSend"}]
Data == [stream : Nat, kind : {"data"}, units : Nat]
ToClient == Plain \cup Data

Node == [stream : Nat, kind : {"none", "put", "get"}, size : Nat, limit : Nat,
         ordered : Nat, moved : Nat, open : BOOLEAN]

TypeOK ==
    /\ honest \in BOOLEAN /\ reliable \in BOOLEAN
    /\ pc \in Busy \cup {"idle", "dead"}
    /\ transfers \in Nat /\ stream \in Nat /\ size \in Nat /\ limit \in Nat
    /\ done \in Nat /\ ordered \in Nat /\ step \in Nat
    /\ outcome \in {"none", "ok", "err", "refused"}
    /\ toNode \in Seq(ToNode)
    /\ toClient \in Seq(ToClient)
    /\ node \in Node

\* The client's own accounts, whatever node and network do.
Accounts ==
    /\ pc \in Busy => step \in InitialStep..MaximumStep /\ size <= limit
    /\ pc \in {"put", "putWait"} => done <= size
    /\ pc \in {"get", "getWait"} => ordered <= size
    /\ pc \in {"getFirst", "get", "getWait"} => size > 0
    /\ pc = "getFirst" => ordered = 0 /\ done = 0
    /\ pc = "getWait" => done < size
    /\ node.kind = "get" => node.moved <= node.size

ClientInv == TypeOK /\ Accounts /\ OrderedAhead

\* Messages and packets belong to the stream the client opened last or to an
\* earlier one, in order; the node serves none that is later than what it is
\* still to read.
Streams ==
    /\ node.stream <= stream
    /\ \A i \in 1..Len(toNode) : node.stream <= toNode[i].stream /\ toNode[i].stream <= stream
    /\ \A i, j \in 1..Len(toNode) : i < j => toNode[i].stream <= toNode[j].stream
    /\ \A i \in 1..Len(toClient) : toClient[i].stream <= node.stream
    /\ node.open => node.stream = stream /\ pc \in {"put", "putWait", "get", "getWait"}
    /\ pc = "getFirst" => node.stream < stream /\ \A i \in 1..Len(toNode) : toNode[i].stream < stream

\* An amount x of stream s is ordered within the first i messages to the node.
Paid(s, x, i) ==
    \/ x = 0
    \/ node.stream = s /\ x <= node.ordered
    \/ \E j \in 1..i : toNode[j].kind = "put" /\ toNode[j].stream = s /\ x <= toNode[j].order

\* Chunks on their way to the node.
Covered ==
    /\ \A i \in 1..Len(toNode) : toNode[i].kind = "put" =>
          /\ toNode[i].stream = stream
          /\ pc \in {"put", "putWait"}
          /\ toNode[i].order <= toNode[i].limit
          /\ Paid(stream, toNode[i].end, i)
          /\ toNode[i].last => pc = "putWait"
          /\ node.stream = stream => node.open
    /\ \A i, j \in 1..Len(toNode) : i < j /\ toNode[i].kind = "put" /\ toNode[i].last => toNode[j].kind # "put"
    /\ pc \in {"put", "putWait"} => Paid(stream, ordered, Len(toNode))
    /\ pc = "put" /\ node.stream = stream => node.open
    /\ pc \in {"put", "putWait"} /\ node.stream = stream => node.kind = "put"

\* A request and the orders that follow it.
Requested ==
    /\ \A i \in 1..Len(toNode) : toNode[i].kind = "get" =>
          /\ toNode[i].stream = stream
          /\ pc \in {"get", "getWait"}
          /\ node.stream < stream
          /\ toNode[i].size = size /\ toNode[i].limit = limit
    /\ \A i, j \in 1..Len(toNode) : toNode[i].kind = "get" /\ toNode[j].kind = "get" => i = j
    /\ \A i \in 1..Len(toNode) : toNode[i].kind = "order" /\ toNode[i].stream = stream =>
          /\ pc \notin {"put", "putWait"}
          /\ toNode[i].order <= limit
    /\ \A i \in 1..Len(toNode) : toNode[i].kind = "close" /\ toNode[i].stream = stream => pc \in {"idle", "dead"}
    /\ pc \in {"get", "getWait"} /\ node.stream = stream =>
          /\ node.kind = "get" /\ node.size = size /\ node.limit = limit
          /\ node.open <=> node.moved < size
    /\ pc \in {"get", "getWait"} /\ node.stream < stream => done = 0

\* What has been sent and not yet received, as the positions after each packet
\* of the client's stream.
IsPosition(f) ==
    /\ f \in [0..Len(toClient) -> Nat]
    /\ f[0] = done
    /\ \A i \in 1..Len(toClient) :
          f[i] = f[i - 1] + (IF toClient[i].kind = "data" /\ toClient[i].stream = stream
                             THEN toClient[i].units ELSE 0)
    /\ \A i \in 1..Len(toClient) :
          toClient[i].kind = "closeSend" /\ toClient[i].stream = stream => f[i] = size
    /\ \A i, j \in 0..Len(toClient) : i <= j => f[i] <= f[j]
    /\ f[Len(toClient)] = node.moved

\* Packets on their way to the client.
Answered ==
    /\ \A i \in 1..Len(toClient) : toClient[i].kind \in {"hash", "close", "data", "closeSend"}
    /\ pc \in {"put", "putWait"} =>
          \A i \in 1..Len(toClient) : toClient[i].stream = stream =>
             /\ ~node.open
             /\ \/ toClient[i].kind = "hash"
                \/ toClient[i].kind = "close" /\ \E j \in 1..(i - 1) :
                      toClient[j].stream = stream /\ toClient[j].kind = "hash"
    /\ pc \in {"get", "getWait"} =>
          /\ \A i \in 1..Len(toClient) : toClient[i].stream = stream => toClient[i].kind \in {"data", "closeSend"}

\* While a download is under way, they have positions.
Placed ==
    pc \in {"get", "getWait"} /\ node.stream = stream =>
        \E f \in [0..Len(toClient) -> Nat] : IsPosition(f)

Good == outcome # "err" /\ Streams /\ Covered /\ Requested /\ Answered /\ Placed

HonestInv == honest /\ reliable => Good

-----------------------------------------------------------------------------
(* Sequences, messages and amounts *)

LEMMA MinOfTwo ==
    ASSUME NEW a \in Int, NEW b \in Int
    PROVE  Min({a, b}) = IF a <= b THEN a ELSE b
  BY DEF Min

LEMMA MaxOfTwo ==
    ASSUME NEW a \in Int, NEW b \in Int
    PROVE  Max({a, b}) = IF a >= b THEN a ELSE b
  BY DEF Max

LEMMA AppendFacts ==
    ASSUME NEW S, NEW q \in Seq(S), NEW x \in S
    PROVE  /\ Append(q, x) \in Seq(S)
           /\ Len(q) \in Nat /\ Len(Append(q, x)) = Len(q) + 1
           /\ \A i \in 1..Len(q) : Append(q, x)[i] = q[i]
           /\ Append(q, x)[Len(q) + 1] = x
  OBVIOUS

LEMMA TailFacts ==
    ASSUME NEW S, NEW q \in Seq(S), q # <<>>
    PROVE  /\ Len(q) \in Nat /\ Len(q) > 0 /\ Head(q) = q[1] /\ q[1] \in S
           /\ Tail(q) \in Seq(S) /\ Len(Tail(q)) = Len(q) - 1
           /\ \A i \in 1..(Len(q) - 1) : Tail(q)[i] = q[i + 1]
  OBVIOUS

LEMMA ConcatFacts ==
    ASSUME NEW S, NEW q \in Seq(S), NEW r \in Seq(S)
    PROVE  /\ q \o r \in Seq(S)
           /\ Len(q) \in Nat /\ Len(r) \in Nat /\ Len(q \o r) = Len(q) + Len(r)
           /\ \A i \in 1..Len(q) : (q \o r)[i] = q[i]
           /\ \A i \in 1..Len(r) : (q \o r)[Len(q) + i] = r[i]
  OBVIOUS

LEMMA ShortSeqs ==
    ASSUME NEW S, NEW a \in S, NEW b \in S
    PROVE  /\ <<a>> \in Seq(S) /\ Len(<<a>>) = 1 /\ <<a>>[1] = a
           /\ <<a, b>> \in Seq(S) /\ Len(<<a, b>>) = 2 /\ <<a, b>>[1] = a /\ <<a, b>>[2] = b
  OBVIOUS

\* What the kind of a message says of its fields.
LEMMA MsgFacts ==
    ASSUME NEW m \in ToNode
    PROVE  /\ m.stream \in Nat /\ m.kind \in {"put", "get", "order", "close"}
           /\ m.kind = "put" => m \in PutMsg
           /\ m.kind = "get" => m \in GetMsg
           /\ m.kind = "order" => m \in OrderMsg
  BY DEF ToNode, PutMsg, GetMsg, OrderMsg, CloseMsg

LEMMA PacketFacts ==
    ASSUME NEW p \in ToClient
    PROVE  /\ p.stream \in Nat
           /\ p.kind \in {"hash", "badHash", "error", "close", "closeSend", "data"}
           /\ p.kind = "data" => p.units \in Nat
  BY DEF ToClient, Plain, Data

\* The next order is not smaller than the last, nor larger than the maximum.
LEMMA StepFacts ==
    ASSUME NEW s \in InitialStep..MaximumStep
    PROVE  /\ s \in Nat /\ s >= UploadBuffer /\ s > 0
           /\ NextOrderStep(s) \in InitialStep..MaximumStep
  <1>1. /\ InitialStep \in Nat /\ MaximumStep \in Nat /\ UploadBuffer \in Nat /\ UploadBuffer > 0
        /\ UploadBuffer <= InitialStep
    BY PieceTransferAssumption
  <1>2. s \in Nat /\ s >= InitialStep /\ s <= MaximumStep
    BY <1>1
  <1>3. (s * 3) \div 2 \in Nat /\ (s * 3) \div 2 >= s
    BY <1>2
  <1>4. NextOrderStep(s) = IF (s * 3) \div 2 <= MaximumStep THEN (s * 3) \div 2 ELSE MaximumStep
    BY <1>1, <1>3, MinOfTwo DEF NextOrderStep
  <1> QED BY <1>1, <1>2, <1>3, <1>4

-----------------------------------------------------------------------------
(* The client's accounts *)

LEMMA ClientInit == PieceInit => ClientInv
  <1> SUFFICES ASSUME PieceInit PROVE ClientInv
    OBVIOUS
  <1>1. NoStream \in Node /\ NoStream.kind = "none"
    BY DEF NoStream, Node
  <1> QED BY <1>1 DEF PieceInit, ClientInv, TypeOK, Accounts, OrderedAhead, Busy

\* The bound of OrderedAhead leaves room for a step, and for half of one more.
LEMMA BoundFacts ==
    /\ Max({InitialStep, MaximumStep + MaximumStep \div 2}) \in Nat
    /\ MaximumStep + MaximumStep \div 2 <= Max({InitialStep, MaximumStep + MaximumStep \div 2})
    /\ MaximumStep \div 2 \in Nat /\ MaximumStep \in Nat
  <1>1. InitialStep \in Nat /\ MaximumStep \in Nat
    BY PieceTransferAssumption
  <1>2. MaximumStep \div 2 \in Nat
    BY <1>1
  <1>3. PICK b \in Nat : b = MaximumStep + MaximumStep \div 2
    BY <1>1, <1>2
  <1> QED BY <1>1, <1>2, <1>3, MaxOfTwo

\* Steps that end the transfer, or leave the client's accounts alone.
LEMMA ClientStill ==
    ASSUME ClientInv,
           UNCHANGED <<honest, reliable, stream, size, limit, done, ordered, step>>,
           transfers' \in Nat, toNode' \in Seq(ToNode), toClient' \in Seq(ToClient), node' \in Node,
           outcome' \in {"none", "ok", "err", "refused"},
           node'.kind = "get" => node'.moved <= node'.size,
           pc' = pc \/ pc' \in {"idle", "dead"}
    PROVE  ClientInv'
  BY DEF ClientInv, TypeOK, Accounts, OrderedAhead, Busy

LEMMA ClientBegin ==
    ASSUME ClientInv, NEW kind \in {"put", "get"}, NEW n \in Sizes, NEW l \in n..(n + Slack), Begin(kind, n, l)
    PROVE  ClientInv'
  <1>1. n \in Nat /\ l \in Nat /\ n <= l
    BY PieceTransferAssumption
  <1>2. /\ transfers' = transfers + 1 /\ UNCHANGED <<honest, reliable, toNode, toClient, node>>
        /\ \/ /\ pc' = "dead" /\ outcome' = "refused"
              /\ UNCHANGED <<stream, size, limit, done, ordered, step>>
           \/ /\ outcome' = "ok"
              /\ UNCHANGED <<pc, stream, size, limit, done, ordered, step>>
           \/ /\ ~(kind = "get" /\ n = 0)
              /\ pc' = (IF kind = "get" THEN "getFirst" ELSE "put")
              /\ stream' = stream + 1 /\ size' = n /\ limit' = l
              /\ done' = 0 /\ ordered' = 0 /\ step' = InitialStep /\ outcome' = "none"
    BY Zenon DEF Begin, nodeEnv, call, orders
  <1>3. transfers' \in Nat
    BY <1>2 DEF ClientInv, TypeOK
  <1>4. CASE UNCHANGED <<stream, size, limit, done, ordered, step>> /\ outcome' \in {"ok", "refused"}
             /\ (pc' = pc \/ pc' = "dead")
    BY <1>2, <1>3, <1>4, ClientStill DEF ClientInv, TypeOK, Accounts
  <1>5. CASE /\ ~(kind = "get" /\ n = 0)
             /\ pc' = (IF kind = "get" THEN "getFirst" ELSE "put")
             /\ stream' = stream + 1 /\ size' = n /\ limit' = l
             /\ done' = 0 /\ ordered' = 0 /\ step' = InitialStep /\ outcome' = "none"
    <2>1. TypeOK'
      BY <1>1, <1>2, <1>3, <1>5, PieceTransferAssumption DEF ClientInv, TypeOK, Busy
    <2>2. Accounts'
      BY <1>1, <1>2, <1>5, PieceTransferAssumption DEF ClientInv, Accounts, Busy
    <2>3. OrderedAhead'
      BY <1>5, BoundFacts DEF OrderedAhead
    <2> QED BY <2>1, <2>2, <2>3 DEF ClientInv
  <1> QED BY <1>2, <1>4, <1>5

\* The end of the next chunk, and the order it needs.
LEMMA ChunkFacts ==
    ASSUME ClientInv, pc = "put", NEW end, end = done + Min({UploadBuffer, size - done})
    PROVE  /\ end \in Nat /\ done <= end /\ end <= size
           /\ PutAmount \in Nat /\ end <= PutAmount /\ PutAmount <= limit /\ PutAmount <= done + step
           /\ NextOrderStep(step) \in InitialStep..MaximumStep
  <1>1. /\ done \in Nat /\ size \in Nat /\ limit \in Nat /\ done <= size /\ size <= limit
        /\ step \in InitialStep..MaximumStep /\ UploadBuffer \in Nat
    BY PieceTransferAssumption DEF ClientInv, TypeOK, Accounts, Busy
  <1>2. step \in Nat /\ step >= UploadBuffer /\ NextOrderStep(step) \in InitialStep..MaximumStep
    BY <1>1, StepFacts
  <1>3. Min({UploadBuffer, size - done}) = IF UploadBuffer <= size - done THEN UploadBuffer ELSE size - done
    BY <1>1, MinOfTwo
  <1>4. PutAmount = IF done + step <= limit THEN done + step ELSE limit
    BY <1>1, <1>2, MinOfTwo DEF PutAmount
  <1> QED BY <1>1, <1>2, <1>3, <1>4

LEMMA ClientPutChunk ==
    ASSUME ClientInv, PutChunk
    PROVE  ClientInv'
  <1>1. PICK end : end = done + Min({UploadBuffer, size - done})
    OBVIOUS
  <1>3. PICK m : m = [stream |-> stream, kind |-> "put", size |-> size, limit |-> limit,
                      order |-> IF NeedsOrder(end) THEN PutAmount ELSE 0, end |-> end, last |-> end = size]
    OBVIOUS
  <1>4. /\ pc = "put" /\ toNode' = Append(toNode, m) /\ done' = end
        /\ ordered' = (IF NeedsOrder(end) THEN PutAmount ELSE ordered)
        /\ step' = (IF NeedsOrder(end) THEN NextOrderStep(step) ELSE step)
        /\ pc' = (IF end = size THEN "putWait" ELSE "put")
        /\ UNCHANGED <<honest, reliable, transfers, stream, size, limit, outcome, toClient, node>>
    BY <1>1, <1>3 DEF PutChunk, SendMsg, nodeEnv, call
  <1>5. /\ end \in Nat /\ done <= end /\ end <= size
        /\ PutAmount \in Nat /\ end <= PutAmount /\ PutAmount <= limit /\ PutAmount <= done + step
        /\ NextOrderStep(step) \in InitialStep..MaximumStep
    BY <1>1, <1>4, ChunkFacts
  <1>6. /\ stream \in Nat /\ size \in Nat /\ limit \in Nat /\ done \in Nat /\ ordered \in Nat
        /\ step \in InitialStep..MaximumStep /\ step \in Nat /\ step' \in Nat /\ MaximumStep \in Nat
        /\ InitialStep \in Nat
    BY <1>4, <1>5, PieceTransferAssumption DEF ClientInv, TypeOK, Accounts, Busy
  <1>7. m \in ToNode
    <2>1. m \in PutMsg
      BY <1>3, <1>5, <1>6 DEF PutMsg
    <2> QED BY <2>1 DEF ToNode
  <1>8. TypeOK'
    BY <1>4, <1>5, <1>6, <1>7, AppendFacts DEF ClientInv, TypeOK, Busy
  <1>9. Accounts'
    BY <1>4, <1>5, <1>6 DEF ClientInv, Accounts, Busy
  <1>10. OrderedAhead'
    <2>1. ordered - done <= Max({InitialStep, MaximumStep + MaximumStep \div 2})
      BY <1>4 DEF ClientInv, OrderedAhead, Busy
    <2>2. PICK b \in Nat : /\ b = Max({InitialStep, MaximumStep + MaximumStep \div 2})
                           /\ MaximumStep <= b
      BY BoundFacts
    <2>3. ordered' - done' <= b
      BY ONLY <1>4, <1>5, <1>6, <2>1, <2>2
    <2> QED BY <2>2, <2>3 DEF OrderedAhead
  <1> QED BY <1>8, <1>9, <1>10 DEF ClientInv

LEMMA ClientGetRequest ==
    ASSUME ClientInv, GetRequest
    PROVE  ClientInv'
  <1>1. PICK m : m = [stream |-> stream, kind |-> "get", size |-> size, limit |-> limit,
                      order |-> Min({size, step})]
    OBVIOUS
  <1>2. /\ pc = "getFirst" /\ pc' = "get" /\ ordered' = Min({size, step}) /\ toNode' = Append(toNode, m)
        /\ UNCHANGED <<honest, reliable, transfers, stream, size, limit, done, step, outcome, toClient, node>>
    BY <1>1 DEF GetRequest, SendMsg, nodeEnv, call
  <1>3. /\ stream \in Nat /\ size \in Nat /\ limit \in Nat /\ done = 0 /\ step \in Nat /\ step <= MaximumStep
        /\ MaximumStep \in Nat
    BY <1>2, PieceTransferAssumption DEF ClientInv, TypeOK, Accounts, Busy
  <1>4. ordered' = IF size <= step THEN size ELSE step
    BY <1>2, <1>3, MinOfTwo
  <1>5. m \in ToNode
    <2>1. m \in GetMsg
      BY <1>1, <1>2, <1>3, <1>4 DEF GetMsg
    <2> QED BY <2>1 DEF ToNode
  <1>6. TypeOK'
    BY <1>2, <1>3, <1>4, <1>5, AppendFacts DEF ClientInv, TypeOK, Busy
  <1>7. Accounts'
    BY <1>2, <1>3, <1>4 DEF ClientInv, Accounts, Busy
  <1>8. OrderedAhead'
    BY <1>2, <1>3, <1>4, BoundFacts DEF OrderedAhead
  <1> QED BY <1>6, <1>7, <1>8 DEF ClientInv

\* What is ordered when little is left.
LEMMA MoreFacts ==
    ASSUME ClientInv, pc = "get", Low
    PROVE  LET s == NextOrderStep(step)
               x == Min({ordered + s, size})
           IN  /\ s \in InitialStep..MaximumStep
               /\ x \in Nat /\ x > ordered /\ x <= size
               /\ x - done <= MaximumStep + MaximumStep \div 2
  <1>1. /\ done \in Nat /\ size \in Nat /\ ordered \in Nat /\ ordered < size /\ step \in InitialStep..MaximumStep
        /\ ordered - done <= step \div 2
    BY DEF ClientInv, TypeOK, Accounts, Busy, Low
  <1>2. step \in Nat /\ step <= MaximumStep /\ NextOrderStep(step) \in InitialStep..MaximumStep
    BY <1>1, StepFacts
  <1>3. InitialStep \in Nat /\ InitialStep > 0 /\ MaximumStep \in Nat
    BY PieceTransferAssumption
  <1>4. PICK s \in Nat : s = NextOrderStep(step) /\ s > 0 /\ s <= MaximumStep
    BY <1>2, <1>3
  <1>5. Min({ordered + s, size}) = IF ordered + s <= size THEN ordered + s ELSE size
    BY <1>1, <1>4, MinOfTwo
  <1>6. step \div 2 <= MaximumStep \div 2 /\ step \div 2 \in Nat /\ MaximumStep \div 2 \in Nat
    BY <1>2, <1>3
  <1>7. PICK x \in Nat : x = Min({ordered + s, size}) /\ x > ordered /\ x <= size /\ x <= ordered + s
    BY <1>1, <1>4, <1>5
  <1>8. x - done <= MaximumStep + MaximumStep \div 2
    BY ONLY <1>1, <1>2, <1>3, <1>4, <1>6, <1>7
  <1> QED BY <1>2, <1>4, <1>7, <1>8

LEMMA ClientGetHead ==
    ASSUME ClientInv, GetHead
    PROVE  ClientInv'
  <1>1. /\ pc = "get" /\ done < size /\ pc' = "getWait"
        /\ UNCHANGED <<honest, reliable, transfers, stream, size, limit, done, outcome, toClient, node>>
    BY DEF GetHead, nodeEnv, call
  <1>2. CASE ~Low
    <2>1. UNCHANGED <<step, ordered, toNode>>
      BY <1>2 DEF GetHead
    <2> QED BY <1>1, <2>1 DEF ClientInv, TypeOK, Accounts, OrderedAhead, Busy
  <1>3. CASE Low
    <2>1. /\ step' = NextOrderStep(step) /\ ordered' = Min({ordered + NextOrderStep(step), size})
          /\ toNode' = Append(toNode, [stream |-> stream, kind |-> "order", order |-> ordered'])
      BY <1>3 DEF GetHead, SendMsg
    <2>2. /\ step' \in InitialStep..MaximumStep /\ ordered' \in Nat /\ ordered' <= size
          /\ ordered' - done <= MaximumStep + MaximumStep \div 2
      BY <1>1, <1>3, <2>1, MoreFacts
    <2>3. InitialStep \in Nat /\ MaximumStep \in Nat /\ stream \in Nat
      BY PieceTransferAssumption DEF ClientInv, TypeOK
    <2>4. [stream |-> stream, kind |-> "order", order |-> ordered'] \in ToNode
      <3>1. [stream |-> stream, kind |-> "order", order |-> ordered'] \in OrderMsg
        BY <2>2, <2>3 DEF OrderMsg
      <3> QED BY <3>1 DEF ToNode
    <2>5. toNode' \in Seq(ToNode)
      BY <2>1, <2>4, AppendFacts DEF ClientInv, TypeOK
    <2>6. TypeOK'
      BY <1>1, <2>2, <2>3, <2>5 DEF ClientInv, TypeOK, Busy
    <2>7. Accounts'
      BY <1>1, <2>2 DEF ClientInv, Accounts, Busy
    <2>8. OrderedAhead'
      <3>1. done \in Nat /\ done' = done
        BY <1>1 DEF ClientInv, TypeOK
      <3>2. PICK h \in Nat : h = MaximumStep + MaximumStep \div 2
        BY <2>3
      <3>3. PICK b \in Nat : b = Max({InitialStep, h}) /\ h <= b
        BY <3>2, BoundFacts
      <3>4. ordered' - done' <= b
        <4>1. ordered' - done' <= h
          BY <2>2, <3>1, <3>2
        <4>2. ordered' \in Nat /\ done' \in Nat
          BY <2>2, <3>1
        <4> QED BY ONLY <3>2, <3>3, <4>1, <4>2
      <3> QED BY <3>2, <3>3, <3>4 DEF OrderedAhead
    <2> QED BY <2>6, <2>7, <2>8 DEF ClientInv
  <1> QED BY <1>2, <1>3

\* A packet is read.
LEMMA Reads ==
    ASSUME ClientInv, NEW kinds, Arrived(kinds)
    PROVE  /\ toClient # <<>> /\ Head(toClient) = toClient[1] /\ toClient[1] \in ToClient
           /\ Len(toClient) \in Nat /\ Len(toClient) > 0
           /\ toClient[1].kind \in kinds /\ ~(toClient[1].stream < stream)
           /\ toClient' \in Seq(ToClient) /\ Len(toClient') = Len(toClient) - 1
           /\ \A i \in 1..(Len(toClient) - 1) : toClient'[i] = toClient[i + 1]
  BY TailFacts DEF Arrived, Stale, ClientInv, TypeOK

LEMMA ClientGetData ==
    ASSUME ClientInv, GetData
    PROVE  ClientInv'
  <1>1. /\ pc = "getWait" /\ pc' = "get" /\ Arrived({"data"}) /\ done' = done + Head(toClient).units
        /\ UNCHANGED <<honest, reliable, transfers, stream, size, limit, ordered, step, outcome, toNode, node>>
    BY DEF GetData, nodeEnv, call
  <1>2. toClient' \in Seq(ToClient) /\ Head(toClient).units \in Nat
    BY <1>1, Reads, PacketFacts
  <1>3. done' \in Nat /\ done' >= done /\ done \in Nat /\ ordered \in Nat
    BY <1>1, <1>2 DEF ClientInv, TypeOK
  <1>4. TypeOK' /\ Accounts'
    BY <1>1, <1>2, <1>3 DEF ClientInv, TypeOK, Accounts, Busy
  <1>5. OrderedAhead'
    <2>1. ordered - done <= Max({InitialStep, MaximumStep + MaximumStep \div 2})
      BY <1>1 DEF ClientInv, OrderedAhead, Busy
    <2> QED BY <1>1, <1>3, <2>1, BoundFacts DEF OrderedAhead
  <1> QED BY <1>4, <1>5 DEF ClientInv

LEMMA CloseIn ==
    ASSUME ClientInv, CloseStream
    PROVE  toNode' \in Seq(ToNode)
  <1>1. [stream |-> stream, kind |-> "close"] \in ToNode
    BY DEF ToNode, CloseMsg, ClientInv, TypeOK
  <1> QED BY <1>1, AppendFacts DEF CloseStream, ClientInv, TypeOK

LEMMA ClientGetDone ==
    ASSUME ClientInv, GetDone
    PROVE  ClientInv'
  <1>1. /\ pc = "get" /\ done' = size /\ outcome' = "ok" /\ pc' \in {"idle", "dead"}
        /\ UNCHANGED <<honest, reliable, transfers, stream, size, limit, ordered, step, toClient, node>>
    BY DEF GetDone, nodeEnv, call
  <1>2. toNode' \in Seq(ToNode)
    BY CloseIn DEF GetDone, ClientInv, TypeOK
  <1> QED BY <1>1, <1>2 DEF ClientInv, TypeOK, Accounts, OrderedAhead, Busy

\* What the node does with the message it reads.
ReadsPut(m) ==
    /\ m.kind = "put"
    /\ m.stream # node.stream \/ node.open
    /\ NodePut(m, IF m.stream # node.stream THEN 0 ELSE node.ordered,
                  IF m.stream # node.stream THEN 0 ELSE node.moved)

ReadsGet(m) ==
    /\ m.kind = "get"
    /\ node' = [stream |-> m.stream, kind |-> "get", size |-> m.size,
                limit |-> m.limit, ordered |-> m.order, moved |-> 0, open |-> TRUE]
    /\ toClient' = toClient

ReadsOrder(m) ==
    /\ m.kind = "order"
    /\ node.open
    /\ m.order <= node.limit
    /\ node' = [node EXCEPT !.ordered = Max({node.ordered, m.order})]
    /\ toClient' = toClient

\* An order above the limit, or the end of the stream: one packet is sent.
ReadsEnd(m) ==
    /\ node.open
    /\ (m.kind = "order" /\ m.order > node.limit) \/ m.kind = "close"
    /\ node' = [node EXCEPT !.open = FALSE]
    /\ toClient' = toClient \o <<[stream |-> node.stream,
                                  kind |-> IF m.kind = "order" THEN "error" ELSE "closeSend"]>>

ReadsNothing(m) ==
    /\ m.kind \in {"put", "order", "close"}
    /\ ~node.open
    /\ m.kind = "put" => m.stream = node.stream
    /\ node' = node /\ toClient' = toClient

LEMMA NodeReadsFacts ==
    ASSUME ClientInv, NodeReads
    PROVE  /\ Len(toNode) \in Nat /\ Len(toNode) > 0 /\ toNode[1] \in ToNode
           /\ toNode' \in Seq(ToNode) /\ Len(toNode') = Len(toNode) - 1
           /\ \A i \in 1..(Len(toNode) - 1) : toNode'[i] = toNode[i + 1]
           /\ UNCHANGED <<honest, reliable, pc, transfers, stream, size, limit, done, ordered, step, outcome>>
           /\ \/ ReadsPut(toNode[1]) \/ ReadsGet(toNode[1]) \/ ReadsOrder(toNode[1])
              \/ ReadsEnd(toNode[1]) \/ ReadsNothing(toNode[1])
  <1>1. /\ toNode # <<>> /\ toNode' = Tail(toNode) /\ toNode \in Seq(ToNode)
        /\ UNCHANGED <<honest, reliable, pc, transfers, stream, size, limit, done, ordered, step, outcome>>
    BY DEF NodeReads, ClientInv, TypeOK, nodeEnv, call, orders
  <1>2. /\ Len(toNode) \in Nat /\ Len(toNode) > 0 /\ toNode[1] \in ToNode /\ Head(toNode) = toNode[1]
        /\ toNode' \in Seq(ToNode) /\ Len(toNode') = Len(toNode) - 1
        /\ \A i \in 1..(Len(toNode) - 1) : toNode'[i] = toNode[i + 1]
    BY <1>1, TailFacts
  <1>3. PICK m \in ToNode : m = Head(toNode)
    BY <1>2
  <1>4. m.kind \in {"put", "get", "order", "close"} /\ node.open \in BOOLEAN /\ node \in Node
        /\ (m.kind = "order" => m.order \in Nat) /\ node.limit \in Nat
    BY MsgFacts DEF ClientInv, TypeOK, Node, OrderMsg
  <1>5. CASE m.kind = "put" /\ (m.stream # node.stream \/ node.open)
    <2>1. ReadsPut(m)
      BY <1>3, <1>5 DEF NodeReads, ReadsPut
    <2> QED BY <1>1, <1>2, <1>3, <2>1
  <1>6. CASE m.kind = "get"
    <2>1. ReadsGet(m)
      BY <1>3, <1>6 DEF NodeReads, ReadsGet
    <2> QED BY <1>1, <1>2, <1>3, <2>1
  <1>7. CASE m.kind = "order" /\ node.open
    <2>1. CASE m.order <= node.limit
      <3>1. ReadsOrder(m)
        BY <1>3, <1>7, <2>1 DEF NodeReads, ReadsOrder
      <3> QED BY <1>1, <1>2, <1>3, <3>1
    <2>2. CASE ~(m.order <= node.limit)
      <3>1. node' = [node EXCEPT !.open = FALSE] /\ toClient' = toClient \o <<[stream |-> node'.stream, kind |-> "error"]>>
        BY <1>3, <1>7, <2>2 DEF NodeReads, Reply, Packet
      <3>2. node'.stream = node.stream
        BY <1>4, <3>1 DEF Node
      <3>3. ReadsEnd(m)
        BY <1>4, <1>7, <2>2, <3>1, <3>2 DEF ReadsEnd
      <3> QED BY <1>1, <1>2, <1>3, <3>3
    <2> QED BY <2>1, <2>2
  <1>8. CASE m.kind = "close" /\ node.open
    <2>1. node' = [node EXCEPT !.open = FALSE] /\ toClient' = toClient \o <<[stream |-> node'.stream, kind |-> "closeSend"]>>
      BY <1>3, <1>8 DEF NodeReads, Reply, Packet
    <2>2. node'.stream = node.stream
      BY <1>4, <2>1 DEF Node
    <2>3. ReadsEnd(m)
      BY <1>4, <1>8, <2>1, <2>2 DEF ReadsEnd
    <2> QED BY <1>1, <1>2, <1>3, <2>3
  <1>9. CASE ~node.open /\ m.kind # "get" /\ ~(m.kind = "put" /\ m.stream # node.stream)
    <2>1. node' = node /\ toClient' = toClient
      BY <1>3, <1>9 DEF NodeReads
    <2>2. ReadsNothing(m)
      BY <1>4, <1>9, <2>1 DEF ReadsNothing
    <2> QED BY <1>1, <1>2, <1>3, <2>2
  <1> QED BY <1>4, <1>5, <1>6, <1>7, <1>8, <1>9

\* Packets of the node.
LEMMA ReplyIn ==
    ASSUME ClientInv, NEW s \in Nat,
           NEW k \in {"hash", "badHash", "error", "close", "closeSend"}
    PROVE  [stream |-> s, kind |-> k] \in ToClient
  BY DEF ToClient, Plain

\* A chunk is accepted or refused.
PutOk(m) == Acceptable(m, IF m.stream # node.stream THEN 0 ELSE node.ordered)

LEMMA ReadsPutFacts ==
    ASSUME ClientInv, NEW m \in ToNode, ReadsPut(m)
    PROVE  /\ node' \in Node /\ node'.stream = m.stream /\ node'.kind = "put"
           /\ m.stream = node.stream => node.ordered <= node'.ordered
           /\ m.order <= node'.ordered
           /\ node'.open = (PutOk(m) /\ ~m.last)
           /\ toClient' \in Seq(ToClient)
           /\ PutOk(m) /\ ~m.last => toClient' = toClient
           /\ PutOk(m) /\ m.last /\ honest =>
                 toClient' = toClient \o <<[stream |-> m.stream, kind |-> "hash"],
                                           [stream |-> m.stream, kind |-> "close"]>>
  <1>1. m \in PutMsg /\ node \in Node /\ toClient \in Seq(ToClient)
    BY MsgFacts DEF ReadsPut, ClientInv, TypeOK
  <1>2. PICK had \in Nat : had = IF m.stream # node.stream THEN 0 ELSE node.ordered
    BY <1>1 DEF Node
  <1>3. PICK moved \in Nat : moved = IF m.stream # node.stream THEN 0 ELSE node.moved
    BY <1>1 DEF Node
  <1>4. NodePut(m, had, moved)
    BY <1>2, <1>3 DEF ReadsPut
  <1>5. PICK top \in Nat : top = Max({had, m.order}) /\ had <= top /\ m.order <= top
    BY <1>1, <1>2, MaxOfTwo DEF PutMsg
  <1>6. PICK ok \in BOOLEAN : ok = Acceptable(m, had)
    BY DEF Acceptable
  <1>7. node' = [stream |-> m.stream, kind |-> "put", size |-> m.size, limit |-> m.limit,
                 ordered |-> top, moved |-> IF ok THEN m.end ELSE moved, open |-> ok /\ ~m.last]
    BY <1>4, <1>5, <1>6 DEF NodePut
  <1>8. node' \in Node /\ node'.stream = m.stream /\ node'.kind = "put" /\ node'.ordered = top
        /\ node'.open = (ok /\ ~m.last)
    BY <1>1, <1>3, <1>7 DEF PutMsg, Node
  <1>9. m.stream \in Nat /\ m.last \in BOOLEAN
    BY <1>1 DEF PutMsg
  <1>10. CASE ~ok
    <2>1. toClient' = toClient \o <<[stream |-> m.stream, kind |-> "error"], [stream |-> m.stream, kind |-> "close"]>>
      BY <1>4, <1>6, <1>8, <1>10 DEF NodePut, Reply, Packet
    <2>2. <<[stream |-> m.stream, kind |-> "error"], [stream |-> m.stream, kind |-> "close"]>> \in Seq(ToClient)
      BY <1>9, ReplyIn, ShortSeqs
    <2>3. toClient' \in Seq(ToClient)
      BY <1>1, <2>1, <2>2, ConcatFacts
    <2> QED BY <1>2, <1>5, <1>6, <1>8, <1>10, <2>3 DEF PutOk
  <1>11. CASE ok /\ m.last
    <2>1. PICK k \in {"hash", "badHash"} :
             /\ toClient' = toClient \o <<[stream |-> m.stream, kind |-> k], [stream |-> m.stream, kind |-> "close"]>>
             /\ honest => k = "hash"
      BY <1>4, <1>6, <1>8, <1>11 DEF NodePut, Reply, Packet
    <2>2. <<[stream |-> m.stream, kind |-> k], [stream |-> m.stream, kind |-> "close"]>> \in Seq(ToClient)
      BY <1>9, ReplyIn, ShortSeqs
    <2>3. toClient' \in Seq(ToClient)
      BY <1>1, <2>1, <2>2, ConcatFacts
    <2> QED BY <1>2, <1>5, <1>6, <1>8, <1>11, <2>1, <2>3 DEF PutOk
  <1>12. CASE ok /\ ~m.last
    <2>1. toClient' = toClient
      BY <1>4, <1>6, <1>12 DEF NodePut
    <2> QED BY <1>1, <1>2, <1>5, <1>6, <1>8, <1>12, <2>1 DEF PutOk
  <1> QED BY <1>9, <1>10, <1>11, <1>12

LEMMA ClientNodeReads ==
    ASSUME ClientInv, NodeReads
    PROVE  ClientInv'
  <1>1. PICK m \in ToNode : m = toNode[1]
    BY NodeReadsFacts
  <1>2. node \in Node /\ toClient \in Seq(ToClient) /\ (node.kind = "get" => node.moved <= node.size)
    BY DEF ClientInv, TypeOK, Accounts
  <1>3. /\ node' \in Node /\ toClient' \in Seq(ToClient)
        /\ node'.kind = "get" => node'.moved <= node'.size
    <2>1. CASE ReadsPut(m)
      BY <2>1, ReadsPutFacts
    <2>2. CASE ReadsGet(m)
      <3>1. m \in GetMsg
        BY <2>2, MsgFacts DEF ReadsGet
      <3> QED BY <1>2, <2>2, <3>1 DEF ReadsGet, GetMsg, Node
    <2>3. CASE ReadsOrder(m)
      <3>1. m.order \in Nat /\ node.ordered \in Nat
        BY <1>2, <2>3, MsgFacts DEF ReadsOrder, OrderMsg, Node
      <3>2. PICK x \in Nat : x = Max({node.ordered, m.order})
        BY <3>1, MaxOfTwo
      <3> QED BY <1>2, <2>3, <3>2 DEF ReadsOrder, Node
    <2>4. CASE ReadsEnd(m)
      <3>1. node' \in Node /\ node'.moved = node.moved /\ node'.size = node.size /\ node'.kind = node.kind
        BY <1>2, <2>4 DEF ReadsEnd, Node
      <3>2. node.stream \in Nat
        BY <1>2 DEF Node
      <3>3. PICK k \in {"error", "closeSend"} : toClient' = toClient \o <<[stream |-> node.stream, kind |-> k]>>
        BY <2>4 DEF ReadsEnd
      <3>4. <<[stream |-> node.stream, kind |-> k]>> \in Seq(ToClient)
        BY <3>2, ReplyIn, ShortSeqs
      <3>5. toClient' \in Seq(ToClient)
        BY <1>2, <3>3, <3>4, ConcatFacts
      <3> QED BY <1>2, <3>1, <3>5
    <2>5. CASE ReadsNothing(m)
      BY <1>2, <2>5 DEF ReadsNothing
    <2> QED BY <1>1, <2>1, <2>2, <2>3, <2>4, <2>5, NodeReadsFacts
  <1>4. transfers' \in Nat /\ outcome' \in {"none", "ok", "err", "refused"}
    BY NodeReadsFacts DEF ClientInv, TypeOK
  <1> QED BY <1>3, <1>4, NodeReadsFacts, ClientStill

LEMMA NodeSendsFacts ==
    ASSUME ClientInv, NodeSends
    PROVE  \E n \in Nat, d \in ToClient :
             /\ n > 0 /\ node.open /\ node.kind = "get" /\ node.moved + n <= node.size
             /\ node' = [node EXCEPT !.moved = node.moved + n, !.open = node.moved + n < node.size]
             /\ d = [stream |-> node.stream, kind |-> "data", units |-> n]
             /\ toClient' = toClient \o
                   (IF node.moved + n < node.size THEN <<d>>
                    ELSE <<d, [stream |-> node.stream, kind |-> "closeSend"]>>)
             /\ UNCHANGED <<honest, reliable, pc, transfers, stream, size, limit, done, ordered, step, outcome, toNode>>
  <1>1. /\ node \in Node /\ node.stream \in Nat /\ node.moved \in Nat /\ node.size \in Nat /\ node.ordered \in Nat
        /\ NodeChunk \in Nat
    BY PieceTransferAssumption DEF ClientInv, TypeOK, Node
  <1>2. PICK room \in Int : room = Min({node.ordered, node.size}) - node.moved /\ room <= node.size - node.moved
    BY <1>1, MinOfTwo
  <1>3. PICK n \in 1..Min({NodeChunk, room}) :
           /\ node' = [node EXCEPT !.moved = @ + n, !.open = node.moved + n < node.size]
           /\ LET data == [stream |-> node.stream, kind |-> "data", units |-> n] IN
              Reply(IF node'.open THEN <<data>> ELSE <<data, Packet("closeSend")>>)
    BY <1>2 DEF NodeSends
  <1>4. n \in Nat /\ n > 0 /\ n <= room
    <2>1. Min({NodeChunk, room}) = IF NodeChunk <= room THEN NodeChunk ELSE room
      BY <1>1, <1>2, MinOfTwo
    <2> QED BY <1>1, <1>2, <1>3, <2>1
  <1>5. node.moved + n <= node.size
    BY ONLY <1>1, <1>2, <1>4
  <1>6. node'.stream = node.stream /\ node'.open = (node.moved + n < node.size)
    BY <1>1, <1>3 DEF Node
  <1>7. PICK d : d = [stream |-> node.stream, kind |-> "data", units |-> n]
    OBVIOUS
  <1>8. d \in ToClient
    BY <1>1, <1>4, <1>7 DEF ToClient, Data
  <1>9. toClient' = toClient \o (IF node.moved + n < node.size THEN <<d>>
                                ELSE <<d, [stream |-> node.stream, kind |-> "closeSend"]>>)
    <2>1. CASE node.moved + n < node.size
      <3>1. toClient' = toClient \o <<d>>
        BY <1>3, <1>6, <1>7, <2>1 DEF Reply
      <3> QED BY <2>1, <3>1
    <2>2. CASE ~(node.moved + n < node.size)
      <3>1. toClient' = toClient \o <<d, [stream |-> node.stream, kind |-> "closeSend"]>>
        BY <1>3, <1>6, <1>7, <2>2 DEF Reply, Packet
      <3> QED BY <2>2, <3>1
    <2> QED BY <2>1, <2>2
  <1>10. /\ node.open /\ node.kind = "get"
         /\ UNCHANGED <<honest, reliable, pc, transfers, stream, size, limit, done, ordered, step, outcome, toNode>>
    BY DEF NodeSends, nodeEnv, call, orders
  <1>11. node' = [node EXCEPT !.moved = node.moved + n, !.open = node.moved + n < node.size]
    BY <1>3
  <1> QED BY <1>4, <1>5, <1>7, <1>8, <1>9, <1>10, <1>11

LEMMA ClientNodeSends ==
    ASSUME ClientInv, NodeSends
    PROVE  ClientInv'
  <1>1. PICK n \in Nat, d \in ToClient :
             /\ n > 0 /\ node.open /\ node.kind = "get" /\ node.moved + n <= node.size
             /\ node' = [node EXCEPT !.moved = node.moved + n, !.open = node.moved + n < node.size]
             /\ d = [stream |-> node.stream, kind |-> "data", units |-> n]
             /\ toClient' = toClient \o
                   (IF node.moved + n < node.size THEN <<d>>
                    ELSE <<d, [stream |-> node.stream, kind |-> "closeSend"]>>)
             /\ UNCHANGED <<honest, reliable, pc, transfers, stream, size, limit, done, ordered, step, outcome, toNode>>
    BY NodeSendsFacts
  <1>2. node \in Node /\ toClient \in Seq(ToClient) /\ node.stream \in Nat
    BY DEF ClientInv, TypeOK, Node
  <1>3. node' \in Node /\ node'.moved <= node'.size
    <2>1. PICK x \in Nat : x = node.moved + n /\ x <= node.size
      BY <1>1, <1>2 DEF Node
    <2>2. PICK o \in BOOLEAN : o = (node.moved + n < node.size)
      <3>1. node.moved \in Nat /\ node.size \in Nat
        BY <1>2 DEF Node
      <3>2. (node.moved + n < node.size) \in BOOLEAN
        BY ONLY <3>1, n \in Nat
      <3> QED BY <3>2
    <2>3. node' = [node EXCEPT !.moved = x, !.open = o]
      BY <1>1, <2>1, <2>2
    <2> QED BY <1>2, <2>1, <2>3 DEF Node
  <1>4. PICK e \in ToClient : e = [stream |-> node.stream, kind |-> "closeSend"]
    BY <1>2, ReplyIn
  <1>5. toClient' \in Seq(ToClient)
    BY <1>1, <1>2, <1>4, ShortSeqs, ConcatFacts
  <1>6. transfers' \in Nat /\ toNode' \in Seq(ToNode) /\ outcome' \in {"none", "ok", "err", "refused"}
    BY <1>1 DEF ClientInv, TypeOK
  <1> QED BY <1>1, <1>3, <1>5, <1>6, ClientStill

LEMMA ClientMisbehaves ==
    ASSUME ClientInv, NodeMisbehaves
    PROVE  ClientInv'
  <1>1. /\ node \in Node /\ toClient \in Seq(ToClient) /\ node.stream \in Nat
        /\ node.moved \in Nat /\ node.size \in Nat
        /\ node.kind = "get" => node.moved <= node.size
    BY DEF ClientInv, TypeOK, Accounts, Node
  <1>2. /\ node' = [node EXCEPT !.open = FALSE]
        /\ UNCHANGED <<honest, reliable, pc, transfers, stream, size, limit, done, ordered, step, outcome, toNode>>
    BY DEF NodeMisbehaves, nodeEnv, call, orders
  <1>3. node' \in Node /\ node'.stream = node.stream /\ (node'.kind = "get" => node'.moved <= node'.size)
    BY <1>1, <1>2 DEF Node
  <1>4. PICK p \in ToClient : toClient' = toClient \o <<p>>
    <2>1. CASE \E kind \in {"error", "close"} : Reply(<<Packet(kind)>>)
      <3>1. PICK kind \in {"error", "close"} : toClient' = toClient \o <<[stream |-> node.stream, kind |-> kind]>>
        BY <1>3, <2>1 DEF Reply, Packet
      <3> QED BY <1>1, <3>1, ReplyIn
    <2>2. CASE node.kind = "get" /\ Reply(<<[stream |-> node.stream, kind |-> "data",
                                             units |-> node.size - node.moved + 1]>>)
      <3>1. node.size - node.moved + 1 \in Nat
        BY <1>1, <2>2
      <3>2. [stream |-> node.stream, kind |-> "data", units |-> node.size - node.moved + 1] \in ToClient
        BY <1>1, <3>1 DEF ToClient, Data
      <3> QED BY <2>2, <3>2 DEF Reply
    <2> QED BY <2>1, <2>2 DEF NodeMisbehaves
  <1>5. toClient' \in Seq(ToClient)
    BY <1>1, <1>4, ShortSeqs, ConcatFacts
  <1>6. transfers' \in Nat /\ toNode' \in Seq(ToNode) /\ outcome' \in {"none", "ok", "err", "refused"}
    BY <1>2 DEF ClientInv, TypeOK
  <1> QED BY <1>2, <1>3, <1>5, <1>6, ClientStill

LEMMA ClientStalls ==
    ASSUME ClientInv, NodeStalls
    PROVE  ClientInv'
  <1>1. /\ node \in Node /\ toClient \in Seq(ToClient) /\ node.stream \in Nat
        /\ node.kind = "get" => node.moved <= node.size
    BY DEF ClientInv, TypeOK, Accounts, Node
  <1>2. /\ UNCHANGED <<honest, reliable, pc, transfers, stream, size, limit, done, ordered, step, outcome, toNode, node>>
        /\ toClient' = Append(toClient, [stream |-> node.stream, kind |-> "data", units |-> 0])
    BY DEF NodeStalls, nodeEnv, call, orders
  <1>3. [stream |-> node.stream, kind |-> "data", units |-> 0] \in ToClient
    BY <1>1 DEF ToClient, Data
  <1>4. toClient' \in Seq(ToClient)
    BY <1>1, <1>2, <1>3
  <1>5. /\ transfers' \in Nat /\ toNode' \in Seq(ToNode) /\ outcome' \in {"none", "ok", "err", "refused"}
        /\ node' \in Node /\ (node'.kind = "get" => node'.moved <= node'.size)
    BY <1>1, <1>2 DEF ClientInv, TypeOK
  <1> QED BY <1>2, <1>4, <1>5, ClientStill

\* The transfer ends: an answer, a failure, or a packet of an earlier stream.
LEMMA ClientEnds ==
    ASSUME ClientInv,
           NetworkFails \/ ReadTimesOut \/ SendStops \/ SkipStale \/ PutAnswered \/ PutFails \/ GetFails \/ Rest
    PROVE  ClientInv'
  <1>1. /\ UNCHANGED <<honest, reliable, stream, size, limit, done, ordered, step, transfers, node>>
        /\ pc' = pc \/ pc' \in {"idle", "dead"}
        /\ outcome' = outcome \/ outcome' \in {"ok", "err"}
    BY DEF NetworkFails, ReadTimesOut, SendStops, SkipStale, PutAnswered, PutFails, GetFails, Rest, TransferFails,
           pieceVars, nodeEnv, call, orders
  <1>2. toNode' \in Seq(ToNode)
    <2>1. CASE PutAnswered
      BY <2>1, CloseIn DEF PutAnswered
    <2>2. CASE ~PutAnswered
      BY <2>2 DEF NetworkFails, ReadTimesOut, SendStops, SkipStale, PutFails, GetFails, Rest, ClientInv, TypeOK, pieceVars
    <2> QED BY <2>1, <2>2
  <1>3. toClient' \in Seq(ToClient)
    <2>1. CASE PutAnswered \/ PutFails \/ GetFails
      BY <2>1, Reads DEF PutAnswered, PutFails, GetFails
    <2>2. CASE SkipStale
      BY <2>2, TailFacts DEF SkipStale, ClientInv, TypeOK
    <2>3. CASE NetworkFails \/ ReadTimesOut \/ SendStops \/ Rest
      BY <2>3 DEF NetworkFails, ReadTimesOut, SendStops, Rest, ClientInv, TypeOK, pieceVars
    <2> QED BY <2>1, <2>2, <2>3
  <1>4. /\ transfers' \in Nat /\ node' \in Node /\ outcome' \in {"none", "ok", "err", "refused"}
        /\ node'.kind = "get" => node'.moved <= node'.size
    BY <1>1 DEF ClientInv, TypeOK, Accounts
  <1> QED BY <1>1, <1>2, <1>3, <1>4, ClientStill

LEMMA ClientNext == ClientInv /\ [PieceNext]_pieceVars => ClientInv'
  <1> SUFFICES ASSUME ClientInv, [PieceNext]_pieceVars PROVE ClientInv'
    OBVIOUS
  <1>1. CASE UNCHANGED pieceVars
    BY <1>1 DEF ClientInv, TypeOK, Accounts, OrderedAhead, pieceVars, nodeEnv, call, orders
  <1>2. CASE ClientStep
    BY <1>2, ClientEnds, ClientPutChunk, ClientGetRequest, ClientGetHead, ClientGetData, ClientGetDone DEF ClientStep
  <1>3. CASE \E kind \in {"put", "get"}, n \in Sizes : \E l \in n..(n + Slack) : Begin(kind, n, l)
    BY <1>3, ClientBegin
  <1>4. CASE NetworkFails \/ ReadTimesOut \/ Rest
    BY <1>4, ClientEnds
  <1>5. CASE NodeReads \/ NodeSends \/ NodeMisbehaves \/ NodeStalls
    BY <1>5, ClientNodeReads, ClientNodeSends, ClientMisbehaves, ClientStalls
  <1> QED BY <1>1, <1>2, <1>3, <1>4, <1>5 DEF PieceNext

\* Whatever the node and the network do, the client's accounts are in order:
\* upload_once and download_once order within the step, the limit and the size.
THEOREM ClientInvHolds == PieceSpec => []ClientInv
  BY ClientInit, ClientNext, PTL DEF PieceSpec

-----------------------------------------------------------------------------
(* An honest node over a reliable network *)

LEMMA GoodInit == PieceInit => HonestInv
  <1> SUFFICES ASSUME PieceInit PROVE Good
    BY DEF HonestInv
  <1>1. Len(toNode) = 0 /\ Len(toClient) = 0 /\ node.stream = 0 /\ node.open = FALSE /\ stream = 0
    BY DEF PieceInit, NoStream
  <1> QED BY <1>1 DEF PieceInit, Good, Streams, Covered, Requested, Answered, Placed

\* The types of what the queues hold.
LEMMA QueueTypes ==
    ASSUME ClientInv
    PROVE  /\ Len(toNode) \in Nat /\ Len(toClient) \in Nat /\ stream \in Nat
           /\ node.stream \in Nat /\ node.moved \in Nat /\ node.ordered \in Nat /\ node.size \in Nat
           /\ node.open \in BOOLEAN
           /\ \A i \in 1..Len(toNode) :
                 /\ toNode[i] \in ToNode /\ toNode[i].stream \in Nat
                 /\ toNode[i].kind \in {"put", "get", "order", "close"}
                 /\ toNode[i].kind \in {"put", "get", "order"} => toNode[i].order \in Nat
                 /\ toNode[i].kind = "put" => toNode[i].end \in Nat
           /\ \A i \in 1..Len(toClient) : toClient[i] \in ToClient /\ toClient[i].stream \in Nat
  <1>1. toNode \in Seq(ToNode) /\ toClient \in Seq(ToClient) /\ stream \in Nat /\ node \in Node
    BY DEF ClientInv, TypeOK
  <1>2. \A i \in 1..Len(toNode) : toNode[i] \in ToNode
    BY <1>1
  <1>3. \A i \in 1..Len(toClient) : toClient[i] \in ToClient
    BY <1>1
  <1>4. Len(toNode) \in Nat /\ Len(toClient) \in Nat
    BY <1>1
  <1> QED BY <1>1, <1>2, <1>3, <1>4, MsgFacts, PacketFacts DEF Node, PutMsg, GetMsg, OrderMsg

\* A packet that is not stale is one of the stream the node serves now.
LEMMA Current ==
    ASSUME ClientInv, Good, NEW i \in 1..Len(toClient), ~(toClient[i].stream < stream)
    PROVE  toClient[i].stream = stream /\ node.stream = stream
  BY QueueTypes DEF Good, Streams

LEMMA GoodBegin ==
    ASSUME ClientInv, Good, NEW kind \in {"put", "get"}, NEW n \in Sizes, NEW l \in n..(n + Slack), Begin(kind, n, l)
    PROVE  Good'
  <1>1. /\ pc = "idle" /\ UNCHANGED <<toNode, toClient, node>>
        /\ \/ /\ pc' = "dead" /\ outcome' = "refused"
              /\ UNCHANGED <<stream, size, limit, done, ordered, step>>
           \/ /\ pc' = "idle" /\ outcome' = "ok"
              /\ UNCHANGED <<stream, size, limit, done, ordered, step>>
           \/ /\ pc' \in {"put", "getFirst"} /\ stream' = stream + 1
              /\ ordered' = 0 /\ outcome' = "none"
    BY DEF Begin, call, orders
  <1>2. CASE UNCHANGED <<stream, size, limit, done, ordered, step>> /\ pc' \in {"idle", "dead"} /\ outcome' # "err"
    BY <1>1, <1>2 DEF Good, Streams, Covered, Requested, Answered, Placed, Paid
  <1>3. CASE pc' \in {"put", "getFirst"} /\ stream' = stream + 1 /\ ordered' = 0 /\ outcome' = "none"
    <2>1. /\ node.stream < stream' /\ ~node.open
          /\ \A i \in 1..Len(toNode) : toNode[i].stream < stream' /\ toNode[i].kind \notin {"put", "get"}
          /\ \A i \in 1..Len(toClient) : toClient[i].stream < stream'
      <3>1. \A i \in 1..Len(toNode) : toNode[i].kind \notin {"put", "get"}
        BY <1>1 DEF Good, Covered, Requested
      <3>2. /\ node.stream <= stream /\ ~node.open
            /\ \A i \in 1..Len(toNode) : toNode[i].stream <= stream
            /\ \A i \in 1..Len(toClient) : toClient[i].stream <= node.stream
        BY <1>1 DEF Good, Streams
      <3> QED BY <1>3, <3>1, <3>2, QueueTypes
    <2>2. Streams'
      BY <1>1, <1>3, <2>1, QueueTypes DEF Good, Streams
    <2>3. Covered'
      BY <1>1, <1>3, <2>1, QueueTypes DEF Covered, Paid
    <2>4. Requested'
      <3>1. \A i \in 1..Len(toNode) : toNode[i].stream # stream' /\ toNode[i].kind # "get"
        BY <1>3, <2>1, QueueTypes
      <3>2. toNode' = toNode /\ pc' \notin {"get", "getWait"}
        BY <1>1, <1>3
      <3> QED BY ONLY <3>1, <3>2 DEF Requested
    <2>5. Answered'
      BY <1>1, <1>3, <2>1, QueueTypes DEF Good, Answered
    <2> QED BY <1>3, <2>2, <2>3, <2>4, <2>5 DEF Good, Placed
  <1> QED BY <1>1, <1>2, <1>3

\* The transfer does not fail: no stream ends before the answer is complete.
LEMMA NoFailure ==
    ASSUME ClientInv, Good, honest, reliable
    PROVE  /\ ~NetworkFails /\ ~ReadTimesOut /\ ~NodeMisbehaves /\ ~NodeStalls
           /\ ~SendStops /\ ~PutFails /\ ~GetFails
  <1>1. ~NetworkFails /\ ~ReadTimesOut /\ ~NodeMisbehaves /\ ~NodeStalls
    BY DEF NetworkFails, ReadTimesOut, NodeMisbehaves, NodeStalls
  <1>2. ASSUME SendStops PROVE FALSE
    <2>1. PICK i \in 1..Len(toClient) : toClient[i].stream = stream /\ toClient[i].kind \in {"error", "close"}
      BY <1>2 DEF SendStops, PeerTerminated, ClientInv, TypeOK
    <2>2. node.stream = stream
      BY <2>1, Current, QueueTypes
    <2>3. CASE pc = "put"
      BY <2>1, <2>2, <2>3 DEF Good, Covered, Answered
    <2>4. CASE pc = "getFirst"
      BY <2>2, <2>4, QueueTypes DEF Good, Streams
    <2>5. CASE pc = "get"
      BY <2>1, <2>5 DEF Good, Answered
    <2> QED BY <1>2, <2>3, <2>4, <2>5 DEF SendStops
  <1>3. ASSUME PutFails PROVE FALSE
    <2>1. /\ pc = "putWait" /\ 1 \in 1..Len(toClient) /\ ~(toClient[1].stream < stream)
          /\ toClient[1].kind \in {"badHash", "error", "close", "closeSend", "data"}
      BY <1>3, Reads DEF PutFails
    <2>2. toClient[1].stream = stream
      BY <2>1, Current
    <2> QED BY <2>1, <2>2 DEF Good, Answered
  <1>4. ASSUME GetFails PROVE FALSE
    <2>1. /\ pc = "getWait" /\ 1 \in 1..Len(toClient) /\ ~(toClient[1].stream < stream)
          /\ toClient[1].kind \in {"error", "close", "closeSend"}
      BY <1>4, Reads DEF GetFails
    <2>2. toClient[1].stream = stream /\ node.stream = stream
      BY <2>1, Current
    <2>3. toClient[1].kind = "closeSend"
      BY <2>1, <2>2 DEF Good, Answered
    <2>4. PICK f \in [0..Len(toClient) -> Nat] : IsPosition(f)
      BY <2>1, <2>2 DEF Good, Placed
    <2>5. f[1] = size /\ f[1] = f[0] + 0 /\ f[0] = done /\ f[0] \in Nat
      BY <2>1, <2>2, <2>3, <2>4, QueueTypes DEF IsPosition
    <2>6. done < size /\ size \in Nat
      BY <2>1 DEF ClientInv, TypeOK, Accounts
    <2> QED BY ONLY <2>5, <2>6
  <1> QED BY <1>1, <1>2, <1>3, <1>4

\* Positions after the first packet is read.
LEMMA ShiftPosition ==
    ASSUME ClientInv, ClientInv', NEW f \in [0..Len(toClient) -> Nat], IsPosition(f),
           Len(toClient) > 0, Len(toClient') = Len(toClient) - 1,
           \A i \in 1..(Len(toClient) - 1) : toClient'[i] = toClient[i + 1],
           done' = f[1], UNCHANGED <<stream, size, node>>
    PROVE  \E g \in [0..Len(toClient') -> Nat] : IsPosition(g)'
  <1>1. PICK n \in Nat : n = Len(toClient) /\ n > 0
    BY QueueTypes
  <1>2. PICK g \in [0..(n - 1) -> Nat] : g = [i \in 0..(n - 1) |-> f[i + 1]]
    <2>1. \A i \in 0..(n - 1) : i + 1 \in 0..n
      BY <1>1
    <2>2. f \in [0..n -> Nat]
      BY <1>1
    <2> QED BY <2>1, <2>2
  <1>3. \A i \in 0..(n - 1) : g[i] = f[i + 1]
    BY <1>2
  <1>4. g[0] = done'
    BY <1>1, <1>3
  <1>5. \A i \in 1..(n - 1) :
          g[i] = g[i - 1] + (IF toClient'[i].kind = "data" /\ toClient'[i].stream = stream
                             THEN toClient'[i].units ELSE 0)
    <2> SUFFICES ASSUME NEW i \in 1..(n - 1)
                 PROVE  g[i] = g[i - 1] + (IF toClient'[i].kind = "data" /\ toClient'[i].stream = stream
                                           THEN toClient'[i].units ELSE 0)
      OBVIOUS
    <2>1. i + 1 \in 1..Len(toClient) /\ i - 1 \in 0..(n - 1) /\ i \in 0..(n - 1) /\ (i + 1) - 1 = i /\ (i - 1) + 1 = i
      BY <1>1
    <2>2. f[i + 1] = f[(i + 1) - 1] + (IF toClient[i + 1].kind = "data" /\ toClient[i + 1].stream = stream
                                       THEN toClient[i + 1].units ELSE 0)
      BY <2>1 DEF IsPosition
    <2>3. g[i] = f[i + 1] /\ g[i - 1] = f[i] /\ toClient'[i] = toClient[i + 1]
      BY <1>1, <1>3, <2>1
    <2> QED BY <2>1, <2>2, <2>3
  <1>6. \A i \in 1..(n - 1) : toClient'[i].kind = "closeSend" /\ toClient'[i].stream = stream => g[i] = size
    <2> SUFFICES ASSUME NEW i \in 1..(n - 1), toClient'[i].kind = "closeSend", toClient'[i].stream = stream
                 PROVE  g[i] = size
      OBVIOUS
    <2>1. i + 1 \in 1..Len(toClient) /\ i \in 0..(n - 1) /\ toClient'[i] = toClient[i + 1]
      BY <1>1
    <2> QED BY <1>3, <2>1 DEF IsPosition
  <1>7. \A i, j \in 0..(n - 1) : i <= j => g[i] <= g[j]
    <2> SUFFICES ASSUME NEW i \in 0..(n - 1), NEW j \in 0..(n - 1), i <= j PROVE g[i] <= g[j]
      OBVIOUS
    <2>1. i + 1 \in 0..Len(toClient) /\ j + 1 \in 0..Len(toClient) /\ i + 1 <= j + 1
      BY <1>1
    <2> QED BY <1>3, <2>1 DEF IsPosition
  <1>8. g[n - 1] = node.moved
    <2>1. n - 1 \in 0..(n - 1) /\ (n - 1) + 1 = n
      BY <1>1
    <2> QED BY <1>1, <1>3, <2>1 DEF IsPosition
  <1>9. Len(toClient') = n - 1
    BY <1>1
  <1>10. IsPosition(g)'
    BY <1>2, <1>4, <1>5, <1>6, <1>7, <1>8, <1>9 DEF IsPosition
  <1> QED BY <1>2, <1>9, <1>10

LEMMA GoodSkipStale ==
    ASSUME ClientInv, ClientInv', Good, SkipStale
    PROVE  Good'
  <1>1. /\ toClient # <<>> /\ toClient' = Tail(toClient) /\ pc \in {"putWait", "getWait"}
        /\ UNCHANGED <<pc, stream, size, limit, done, ordered, step, outcome, toNode, node>>
    BY DEF SkipStale, call, orders
  <1>2. /\ Len(toClient) \in Nat /\ Len(toClient) > 0 /\ Len(toClient') = Len(toClient) - 1
        /\ \A i \in 1..(Len(toClient) - 1) : toClient'[i] = toClient[i + 1]
        /\ toClient[1].stream < stream /\ toClient[1].stream \in Nat
    BY <1>1, TailFacts, PacketFacts DEF SkipStale, Stale, ClientInv, TypeOK
  <1>3. Streams'
    <2>1. \A i \in 1..Len(toClient') : toClient'[i].stream <= node.stream
      <3> SUFFICES ASSUME NEW i \in 1..Len(toClient') PROVE toClient'[i].stream <= node.stream
        OBVIOUS
      <3>1. i + 1 \in 1..Len(toClient) /\ toClient'[i] = toClient[i + 1]
        BY <1>2
      <3> QED BY <3>1 DEF Good, Streams
    <2> QED BY <1>1, <2>1 DEF Good, Streams
  <1>4. Covered' /\ Requested'
    BY <1>1 DEF Good, Covered, Requested, Paid
  <1>5. Answered'
    <2>1. \A i \in 1..Len(toClient') : i + 1 \in 1..Len(toClient) /\ toClient'[i] = toClient[i + 1]
      BY <1>2
    <2>2. ASSUME NEW i \in 1..Len(toClient'), NEW j \in 1..((i + 1) - 1), toClient[j].stream = stream,
                 toClient[j].kind = "hash"
          PROVE  \E k \in 1..(i - 1) : toClient'[k].stream = stream /\ toClient'[k].kind = "hash"
      <3>1. stream \in Nat /\ j # 1
        BY <1>2, <2>2, QueueTypes
      <3>2. j - 1 \in 1..(i - 1) /\ j - 1 \in 1..(Len(toClient) - 1) /\ (j - 1) + 1 = j
        BY <1>2, <3>1
      <3> QED BY <1>2, <2>2, <3>2
    <2>3. CASE pc = "putWait"
      BY <1>1, <2>1, <2>2, <2>3 DEF Good, Answered
    <2>4. CASE pc = "getWait"
      BY <1>1, <2>1, <2>4 DEF Good, Answered
    <2> QED BY <1>1, <2>3, <2>4
  <1>6. Placed'
    <2> SUFFICES ASSUME pc = "getWait", node.stream = stream
                 PROVE  \E g \in [0..Len(toClient') -> Nat] : IsPosition(g)'
      BY <1>1 DEF Placed
    <2>1. PICK f \in [0..Len(toClient) -> Nat] : IsPosition(f)
      BY DEF Good, Placed
    <2>2. f[1] = done
      <3>1. f[1] = f[0] + 0 /\ f[0] = done /\ f[0] \in Nat
        BY <1>2, <2>1 DEF IsPosition
      <3> QED BY <3>1
    <2> QED BY <1>1, <1>2, <2>1, <2>2, ShiftPosition
  <1> QED BY <1>1, <1>3, <1>4, <1>5, <1>6 DEF Good

\* A message of the client's stream is put into the queue.
LEMMA Sent ==
    ASSUME ClientInv, NEW m \in ToNode, toNode' = Append(toNode, m)
    PROVE  /\ Len(toNode) \in Nat /\ Len(toNode') = Len(toNode) + 1
           /\ \A i \in 1..Len(toNode) : toNode'[i] = toNode[i]
           /\ toNode'[Len(toNode) + 1] = m
           /\ \A i \in 1..Len(toNode') : i \in 1..Len(toNode) \/ i = Len(toNode) + 1
  <1>1. toNode \in Seq(ToNode)
    BY DEF ClientInv, TypeOK
  <1>2. /\ Len(toNode) \in Nat /\ Len(toNode') = Len(toNode) + 1
        /\ \A i \in 1..Len(toNode) : toNode'[i] = toNode[i]
        /\ toNode'[Len(toNode) + 1] = m
    BY <1>1, AppendFacts
  <1> QED BY <1>2

LEMMA SentStreams ==
    ASSUME ClientInv, Good, NEW m \in ToNode, toNode' = Append(toNode, m), m.stream = stream,
           UNCHANGED <<stream, node>>
    PROVE  /\ \A i \in 1..Len(toNode') : node.stream <= toNode'[i].stream /\ toNode'[i].stream <= stream
           /\ \A i, j \in 1..Len(toNode') : i < j => toNode'[i].stream <= toNode'[j].stream
  <1>1. \A i \in 1..Len(toNode') : node.stream <= toNode'[i].stream /\ toNode'[i].stream <= stream
    BY Sent, QueueTypes DEF Good, Streams
  <1>2. ASSUME NEW i \in 1..Len(toNode'), NEW j \in 1..Len(toNode'), i < j
        PROVE  toNode'[i].stream <= toNode'[j].stream
    <2>1. i \in 1..Len(toNode)
      BY <1>2, Sent
    <2>2. CASE j \in 1..Len(toNode)
      BY <1>2, <2>1, <2>2, Sent DEF Good, Streams
    <2>3. CASE j = Len(toNode) + 1
      BY <1>1, <2>3, Sent
    <2> QED BY <2>2, <2>3, Sent
  <1> QED BY <1>1, <1>2

\* A transfer that is complete leaves nothing behind that could be served.
LEMMA GoodEnds ==
    ASSUME ClientInv, Good, NEW m \in ToNode, m.kind = "close", m.stream = stream,
           toNode' = Append(toNode, m), pc' = "idle", outcome' = "ok",
           UNCHANGED <<stream, size, limit, node>>,
           ~node.open,
           \A i \in 1..Len(toNode) : toNode[i].kind \notin {"put", "get"},
           \A i \in 1..Len(toClient') : \E j \in 1..Len(toClient) : toClient'[i] = toClient[j]
    PROVE  Good'
  <1>1. Streams'
    <2>1. \A i \in 1..Len(toClient') : toClient'[i].stream <= node.stream
      BY DEF Good, Streams
    <2> QED BY <2>1, SentStreams DEF Good, Streams
  <1>2. \A i \in 1..Len(toNode') : toNode'[i].kind \notin {"put", "get"}
    BY Sent
  <1>3. Covered'
    BY <1>2 DEF Covered
  <1>4. Requested'
    BY <1>2, Sent DEF Good, Requested
  <1>5. Answered'
    BY DEF Good, Answered
  <1> QED BY <1>1, <1>3, <1>4, <1>5 DEF Good, Placed

LEMMA CloseMsgIn ==
    ASSUME ClientInv
    PROVE  \E m \in ToNode : m = [stream |-> stream, kind |-> "close"] /\ m.kind = "close" /\ m.stream = stream
  <1>1. PICK m : m = [stream |-> stream, kind |-> "close"]
    OBVIOUS
  <1>2. m \in ToNode /\ m.kind = "close" /\ m.stream = stream
    BY <1>1 DEF ToNode, CloseMsg, ClientInv, TypeOK
  <1> QED BY <1>1, <1>2

LEMMA GoodPutAnswered ==
    ASSUME ClientInv, Good, PutAnswered
    PROVE  Good'
  <1>1. /\ pc = "putWait" /\ pc' = "idle" /\ outcome' = "ok" /\ Arrived({"hash"})
        /\ toNode' = Append(toNode, [stream |-> stream, kind |-> "close"])
        /\ UNCHANGED <<stream, size, limit, node>>
    BY DEF PutAnswered, CloseStream, call
  <1>2. /\ Len(toClient) \in Nat /\ 1 \in 1..Len(toClient) /\ ~(toClient[1].stream < stream)
        /\ Len(toClient') = Len(toClient) - 1
        /\ \A i \in 1..(Len(toClient) - 1) : toClient'[i] = toClient[i + 1]
    BY <1>1, Reads
  <1>3. toClient[1].stream = stream /\ node.stream = stream
    BY <1>2, Current
  <1>4. ~node.open
    BY <1>1, <1>2, <1>3 DEF Good, Answered
  <1>5. \A i \in 1..Len(toNode) : toNode[i].kind \notin {"put", "get"}
    BY <1>1, <1>3, <1>4 DEF Good, Covered, Requested
  <1>6. ASSUME NEW i \in 1..Len(toClient') PROVE \E j \in 1..Len(toClient) : toClient'[i] = toClient[j]
    <2>1. i + 1 \in 1..Len(toClient) /\ toClient'[i] = toClient[i + 1]
      BY <1>2
    <2> QED BY <2>1
  <1> QED BY <1>1, <1>4, <1>5, <1>6, CloseMsgIn, GoodEnds

\* All that was to be received was sent, and the node's stream is over.
LEMMA AllReceived ==
    ASSUME ClientInv, Good, pc = "get", done >= size
    PROVE  node.stream = stream /\ ~node.open
  <1>1. /\ done \in Nat /\ size \in Nat /\ size > 0 /\ node.stream \in Nat /\ stream \in Nat
        /\ node.moved \in Nat /\ node.stream <= stream
    BY QueueTypes DEF ClientInv, TypeOK, Accounts, Good, Streams
  <1>2. node.stream = stream
    BY <1>1 DEF Good, Requested
  <1>3. PICK f \in [0..Len(toClient) -> Nat] : IsPosition(f)
    BY <1>2 DEF Good, Placed
  <1>4. done <= node.moved
    <2>1. Len(toClient) \in Nat
      BY QueueTypes
    <2>2. 0 \in 0..Len(toClient) /\ Len(toClient) \in 0..Len(toClient) /\ 0 <= Len(toClient)
      BY <2>1
    <2> QED BY <1>3, <2>2 DEF IsPosition
  <1>5. ~(node.moved < size)
    BY <1>1, <1>4
  <1> QED BY <1>2, <1>5 DEF Good, Requested

LEMMA GoodGetDone ==
    ASSUME ClientInv, Good, reliable, GetDone
    PROVE  Good'
  <1>1. /\ pc = "get" /\ done >= size /\ pc' = "idle" /\ outcome' = "ok"
        /\ toNode' = Append(toNode, [stream |-> stream, kind |-> "close"])
        /\ UNCHANGED <<stream, size, limit, node, toClient>>
    BY DEF GetDone, CloseStream, call
  <1>2. node.stream = stream /\ ~node.open
    BY <1>1, AllReceived
  <1>3. \A i \in 1..Len(toNode) : toNode[i].kind \notin {"put", "get"}
    BY <1>1, <1>2, QueueTypes DEF Good, Covered, Requested
  <1>4. \A i \in 1..Len(toClient') : \E j \in 1..Len(toClient) : toClient'[i] = toClient[j]
    BY <1>1
  <1> QED BY <1>1, <1>2, <1>3, <1>4, CloseMsgIn, GoodEnds

LEMMA GoodGetData ==
    ASSUME ClientInv, ClientInv', Good, GetData
    PROVE  Good'
  <1>1. /\ pc = "getWait" /\ pc' = "get" /\ Arrived({"data"}) /\ done' = done + Head(toClient).units
        /\ UNCHANGED <<stream, size, limit, ordered, step, outcome, toNode, node>>
    BY DEF GetData, call
  <1>2. /\ Len(toClient) \in Nat /\ Len(toClient) > 0 /\ 1 \in 1..Len(toClient)
        /\ toClient[1].kind = "data" /\ ~(toClient[1].stream < stream) /\ Head(toClient) = toClient[1]
        /\ Len(toClient') = Len(toClient) - 1
        /\ \A i \in 1..(Len(toClient) - 1) : toClient'[i] = toClient[i + 1]
    BY <1>1, Reads
  <1>3. toClient[1].stream = stream /\ node.stream = stream
    BY <1>2, Current
  <1>4. \A i \in 1..Len(toClient') : i + 1 \in 1..Len(toClient) /\ toClient'[i] = toClient[i + 1]
    BY <1>2
  <1>5. Streams'
    <2>1. \A i \in 1..Len(toClient') : toClient'[i].stream <= node.stream
      BY <1>4 DEF Good, Streams
    <2> QED BY <1>1, <2>1 DEF Good, Streams
  <1>6. Covered'
    BY <1>1 DEF Good, Covered
  <1>7. Requested'
    <2>1. ~(node.stream < stream)
      BY <1>3, QueueTypes
    <2> QED BY <1>1, <2>1 DEF Good, Requested
  <1>8. Answered'
    BY <1>1, <1>4 DEF Good, Answered
  <1>9. Placed'
    <2>1. PICK f \in [0..Len(toClient) -> Nat] : IsPosition(f)
      BY <1>1, <1>3 DEF Good, Placed
    <2>2. done' = f[1]
      BY <1>1, <1>2, <1>3, <2>1 DEF IsPosition
    <2> QED BY <1>1, <1>2, <2>1, <2>2, ShiftPosition DEF Placed
  <1> QED BY <1>1, <1>5, <1>6, <1>7, <1>8, <1>9 DEF Good

\* A smaller amount is ordered as well, and within more messages too.
LEMMA PaidLess ==
    ASSUME ClientInv, NEW s, NEW x \in Nat, NEW y \in Nat, y <= x, NEW i \in 0..Len(toNode), Paid(s, x, i)
    PROVE  Paid(s, y, i)
  <1>1. CASE x = 0
    BY <1>1 DEF Paid
  <1>2. CASE node.stream = s /\ x <= node.ordered
    <2>1. y <= node.ordered
      BY <1>2, QueueTypes
    <2> QED BY <1>2, <2>1 DEF Paid
  <1>3. ASSUME NEW j \in 1..i, toNode[j].kind = "put", toNode[j].stream = s, x <= toNode[j].order
        PROVE  Paid(s, y, i)
    <2>1. j \in 1..Len(toNode)
      BY QueueTypes
    <2>2. toNode[j].order \in Nat
      BY <1>3, <2>1, QueueTypes
    <2>3. y <= toNode[j].order
      BY <1>3, <2>2
    <2> QED BY <1>3, <2>3 DEF Paid
  <1> QED BY <1>1, <1>2, <1>3 DEF Paid

LEMMA GoodPutChunk ==
    ASSUME ClientInv, ClientInv', Good, PutChunk
    PROVE  Good'
  <1>1. PICK end : end = done + Min({UploadBuffer, size - done})
    OBVIOUS
  <1>2. PICK m : m = [stream |-> stream, kind |-> "put", size |-> size, limit |-> limit,
                      order |-> IF NeedsOrder(end) THEN PutAmount ELSE 0, end |-> end, last |-> end = size]
    OBVIOUS
  <1>3. /\ pc = "put" /\ toNode' = Append(toNode, m) /\ done' = end
        /\ ordered' = (IF NeedsOrder(end) THEN PutAmount ELSE ordered)
        /\ pc' = (IF end = size THEN "putWait" ELSE "put")
        /\ UNCHANGED <<stream, size, limit, outcome, toClient, node>>
    BY <1>1, <1>2 DEF PutChunk, SendMsg, call
  <1>4. /\ end \in Nat /\ end <= PutAmount /\ PutAmount \in Nat /\ PutAmount <= limit
        /\ ordered \in Nat /\ limit \in Nat /\ stream \in Nat /\ size \in Nat
    BY <1>1, <1>3, ChunkFacts DEF ClientInv, TypeOK
  <1>5. /\ m.kind = "put" /\ m.stream = stream /\ m.limit = limit /\ m.end = end
        /\ m.order = (IF NeedsOrder(end) THEN PutAmount ELSE 0)
        /\ m.last = (end = size)
    BY <1>2
  <1>6. m \in ToNode
    <2>1. m \in PutMsg
      BY <1>2, <1>4 DEF PutMsg
    <2> QED BY <2>1 DEF ToNode
  <1>7. PICK n \in Nat : n = Len(toNode)
    BY QueueTypes
  <1>8. /\ Len(toNode') = n + 1
        /\ \A i \in 1..n : toNode'[i] = toNode[i]
        /\ toNode'[n + 1] = m
        /\ \A i \in 1..(n + 1) : i \in 1..n \/ i = n + 1
    BY <1>3, <1>6, <1>7, Sent
  <1>9. Streams'
    BY <1>3, <1>5, <1>6, SentStreams DEF Good, Streams
  <1>10. \A i \in 1..n : \A s, x : Paid(s, x, i) => Paid(s, x, i)'
    <2> SUFFICES ASSUME NEW i \in 1..n, NEW s, NEW x, Paid(s, x, i) PROVE Paid(s, x, i)'
      OBVIOUS
    <2>1. 1..i \subseteq 1..n
      BY <1>7
    <2> QED BY <1>3, <1>8, <2>1 DEF Paid
  <1>11. Paid(stream, end, n + 1)' /\ Paid(stream, ordered, n + 1)'
    <2>1. CASE NeedsOrder(end)
      <3>1. n + 1 \in 1..(n + 1)
        BY <1>7
      <3>2. toNode'[n + 1].kind = "put" /\ toNode'[n + 1].stream = stream /\ toNode'[n + 1].order = PutAmount
            /\ ordered' = PutAmount
        BY <1>3, <1>5, <1>8, <2>1
      <3>3. end <= toNode'[n + 1].order /\ ordered' <= toNode'[n + 1].order
        BY <1>4, <3>2
      <3> QED BY <1>3, <3>1, <3>2, <3>3 DEF Paid
    <2>2. CASE ~NeedsOrder(end)
      <3>1. end <= ordered /\ ordered' = ordered
        BY <1>3, <1>4, <2>2 DEF NeedsOrder
      <3>2. Paid(stream, ordered, n)
        BY <1>3, <1>7 DEF Good, Covered
      <3>3. Paid(stream, end, n)
        BY <1>4, <1>7, <3>1, <3>2, PaidLess
      <3>4. ASSUME NEW x, Paid(stream, x, n) PROVE Paid(stream, x, n + 1)'
        <4>1. 1..n \subseteq 1..(n + 1)
          BY <1>7
        <4> QED BY <1>3, <1>8, <3>4, <4>1 DEF Paid
      <3>5. Paid(stream, end, n + 1)'
        BY <3>3, <3>4
      <3>6. Paid(stream, ordered, n + 1)'
        <4>1. PICK x : x = ordered
          OBVIOUS
        <4>2. Paid(stream, x, n + 1)'
          BY <3>2, <3>4, <4>1
        <4> QED BY <3>1, <4>1, <4>2 DEF Paid
      <3> QED BY <3>5, <3>6
    <2> QED BY <2>1, <2>2
  <1>12. ASSUME NEW i \in 1..(n + 1), toNode'[i].kind = "put"
         PROVE  /\ toNode'[i].stream = stream
                /\ pc' \in {"put", "putWait"}
                /\ toNode'[i].order <= toNode'[i].limit
                /\ Paid(stream, toNode[i].end, i)'
                /\ toNode'[i].last => pc' = "putWait"
                /\ node.stream = stream => node.open
    <2>1. CASE i \in 1..n
      BY <1>3, <1>7, <1>8, <1>10, <1>12, <2>1 DEF Good, Covered
    <2>2. CASE i = n + 1
      <3>1. toNode'[i] = m
        BY <1>8, <2>2
      <3>2. m.order <= m.limit
        BY <1>4, <1>5
      <3>3. Paid(stream, toNode[i].end, i)'
        BY <1>3, <1>5, <1>11, <2>2, <3>1
      <3>4. node.stream = stream => node.open
        BY <1>3 DEF Good, Covered
      <3>5. m.last => pc' = "putWait"
        BY <1>3, <1>5
      <3> QED BY <1>3, <1>5, <3>1, <3>2, <3>3, <3>4, <3>5
    <2> QED BY <1>8, <2>1, <2>2
  <1>13. ASSUME NEW i \in 1..(n + 1), NEW j \in 1..(n + 1), i < j, toNode'[i].kind = "put", toNode'[i].last
         PROVE  toNode'[j].kind # "put"
    <2>1. i \in 1..n
      BY <1>7, <1>13
    <2>2. ~toNode[i].last
      BY <1>3, <1>7, <1>8, <1>13, <2>1 DEF Good, Covered
    <2> QED BY <1>8, <1>13, <2>1, <2>2
  <1>14. Covered'
    BY <1>3, <1>8, <1>11, <1>12, <1>13 DEF Good, Covered
  <1>15. Requested'
    BY <1>3, <1>5, <1>7, <1>8, QueueTypes DEF Good, Requested
  <1>16. Answered'
    BY <1>3, Current, QueueTypes DEF Good, Answered, Covered
  <1> QED BY <1>3, <1>9, <1>14, <1>15, <1>16 DEF Good, Placed

LEMMA GoodGetRequest ==
    ASSUME ClientInv, ClientInv', Good, GetRequest
    PROVE  Good'
  <1>1. PICK m : m = [stream |-> stream, kind |-> "get", size |-> size, limit |-> limit,
                      order |-> Min({size, step})]
    OBVIOUS
  <1>2. /\ pc = "getFirst" /\ pc' = "get" /\ ordered' = Min({size, step}) /\ toNode' = Append(toNode, m)
        /\ UNCHANGED <<stream, size, limit, done, outcome, toClient, node>>
    BY <1>1 DEF GetRequest, SendMsg, call
  <1>3. m.kind = "get" /\ m.stream = stream /\ m.size = size /\ m.limit = limit
    BY <1>1
  <1>4. m \in ToNode
    <2>1. ordered' \in Nat /\ stream \in Nat /\ size \in Nat /\ limit \in Nat
      BY DEF ClientInv, TypeOK
    <2>2. m \in GetMsg
      BY <1>1, <1>2, <2>1 DEF GetMsg
    <2> QED BY <2>2 DEF ToNode
  <1>5. /\ Len(toNode') = Len(toNode) + 1 /\ Len(toNode) \in Nat
        /\ \A i \in 1..Len(toNode) : toNode'[i] = toNode[i] /\ toNode[i].kind \notin {"put", "get"}
        /\ \A i \in 1..Len(toNode) : toNode[i].stream # stream
        /\ toNode'[Len(toNode) + 1] = m
        /\ \A i \in 1..Len(toNode') : i \in 1..Len(toNode) \/ i = Len(toNode) + 1
    BY <1>2, <1>4, Sent, QueueTypes DEF Good, Streams, Covered, Requested
  <1>6. Streams'
    BY <1>2, <1>3, <1>4, SentStreams DEF Good, Streams
  <1>7. Covered'
    BY <1>2, <1>3, <1>5 DEF Good, Covered
  <1>8. node.stream < stream /\ done = 0
    BY <1>2 DEF Good, Streams, ClientInv, Accounts
  <1>9. Requested'
    BY <1>2, <1>3, <1>5, <1>8, QueueTypes DEF Good, Requested
  <1>10. Answered'
    BY <1>2, <1>8, QueueTypes DEF Good, Answered, Streams
  <1>11. Placed'
    BY <1>2, <1>8, QueueTypes DEF Placed
  <1> QED BY <1>2, <1>6, <1>7, <1>9, <1>10, <1>11 DEF Good

LEMMA GoodGetHead ==
    ASSUME ClientInv, ClientInv', Good, GetHead
    PROVE  Good'
  <1>1. /\ pc = "get" /\ pc' = "getWait"
        /\ UNCHANGED <<stream, size, limit, done, outcome, toClient, node>>
    BY DEF GetHead, call
  <1>2. Answered' /\ Placed'
    BY <1>1 DEF Good, Answered, Placed, IsPosition
  <1>3. CASE ~Low
    <2>1. toNode' = toNode
      BY <1>3 DEF GetHead
    <2> QED BY <1>1, <1>2, <2>1 DEF Good, Streams, Covered, Requested
  <1>4. CASE Low
    <2>1. PICK m : m = [stream |-> stream, kind |-> "order", order |-> ordered']
      OBVIOUS
    <2>2. toNode' = Append(toNode, m)
      BY <1>4, <2>1 DEF GetHead, SendMsg
    <2>3. m.kind = "order" /\ m.stream = stream /\ m.order = ordered'
      BY <2>1
    <2>4. ordered' <= limit /\ ordered' \in Nat /\ stream \in Nat
      BY <1>1 DEF ClientInv, TypeOK, Accounts, Busy
    <2>5. m \in ToNode
      <3>1. m \in OrderMsg
        BY <2>1, <2>4 DEF OrderMsg
      <3> QED BY <3>1 DEF ToNode
    <2>6. /\ Len(toNode') = Len(toNode) + 1 /\ Len(toNode) \in Nat
          /\ \A i \in 1..Len(toNode) : toNode'[i] = toNode[i]
          /\ toNode'[Len(toNode) + 1] = m
          /\ \A i \in 1..Len(toNode') : i \in 1..Len(toNode) \/ i = Len(toNode) + 1
      BY <2>2, <2>5, Sent
    <2>7. Streams'
      BY <1>1, <2>2, <2>3, <2>5, SentStreams DEF Good, Streams
    <2>8. Covered'
      BY <1>1, <2>3, <2>6 DEF Good, Covered
    <2>9. Requested'
      BY <1>1, <2>3, <2>4, <2>6 DEF Good, Requested
    <2> QED BY <1>1, <1>2, <2>7, <2>8, <2>9 DEF Good
  <1> QED BY <1>3, <1>4

\* The messages behind the one that is read.
LEMMA Behind ==
    ASSUME ClientInv, Good, NodeReads
    PROVE  /\ 1 \in 1..Len(toNode)
           /\ \A i \in 1..Len(toNode') : /\ i + 1 \in 1..Len(toNode) /\ i + 1 > 1
                                         /\ toNode'[i] = toNode[i + 1]
                                         /\ toNode[1].stream <= toNode'[i].stream
                                         /\ toNode'[i].stream <= stream /\ toNode'[i].stream \in Nat
           /\ \A i, j \in 1..Len(toNode') : i < j => toNode'[i].stream <= toNode'[j].stream
  <1>1. PICK n \in Nat : n = Len(toNode) /\ n > 0 /\ Len(toNode') = n - 1
    BY NodeReadsFacts
  <1>2. \A i \in 1..(n - 1) : toNode'[i] = toNode[i + 1] /\ i + 1 \in 1..n /\ i + 1 > 1
    BY <1>1, NodeReadsFacts
  <1>3. 1 \in 1..n
    BY <1>1
  <1>4. \A i, j \in 1..n : i < j => toNode[i].stream <= toNode[j].stream
    BY <1>1 DEF Good, Streams
  <1>5. \A i, j \in 1..(n - 1) : i < j => i + 1 < j + 1
    BY <1>1
  <1>6. \A i \in 1..n : toNode[i].stream <= stream /\ toNode[i].stream \in Nat
    BY <1>1, QueueTypes DEF Good, Streams
  <1> QED BY <1>1, <1>2, <1>3, <1>4, <1>5, <1>6

\* The node is offered no chunk without an order.
LEMMA ChunkPaid ==
    ASSUME ClientInv, Good, NodeReads, ReadsPut(toNode[1])
    PROVE  PutOk(toNode[1])
  <1>1. PICK m \in ToNode : m = toNode[1]
    BY NodeReadsFacts
  <1>2. /\ m.kind = "put" /\ m.stream = stream /\ m.order <= m.limit /\ Paid(stream, m.end, 1)
    BY <1>1, Behind DEF Good, Covered, ReadsPut
  <1>3. m.end \in Nat /\ m.order \in Nat /\ node.ordered \in Nat
    BY <1>1, <1>2, QueueTypes, MsgFacts DEF PutMsg
  <1>4. PICK had \in Nat : had = IF m.stream # node.stream THEN 0 ELSE node.ordered
    BY <1>3
  <1>5. PICK top \in Nat : top = Max({had, m.order}) /\ had <= top /\ m.order <= top
    BY <1>3, <1>4, MaxOfTwo
  <1>6. m.end <= top
    <2>1. CASE m.end = 0
      BY <1>5, <2>1
    <2>2. CASE node.stream = stream /\ m.end <= node.ordered
      BY <1>2, <1>3, <1>4, <1>5, <2>2
    <2>4. CASE m.end <= m.order
      BY <1>3, <1>5, <2>4
    <2> QED BY <1>1, <1>2, <2>1, <2>2, <2>4 DEF Paid
  <1>7. PutOk(m)
    BY <1>2, <1>4, <1>5, <1>6 DEF PutOk, Acceptable
  <1> QED BY <1>1, <1>7

LEMMA GoodReadsPut ==
    ASSUME ClientInv, ClientInv', Good, honest, NodeReads, ReadsPut(toNode[1])
    PROVE  Good'
  <1>1. PICK m \in ToNode : m = toNode[1]
    BY NodeReadsFacts
  <1>2. ReadsPut(m) /\ PutOk(m)
    BY <1>1, ChunkPaid
  <1>3. /\ m.kind = "put" /\ m.stream = stream /\ pc \in {"put", "putWait"}
        /\ m.last => pc = "putWait"
        /\ node.stream = stream => node.open
        /\ m.last \in BOOLEAN /\ m.order \in Nat
    BY <1>1, <1>2, Behind, MsgFacts DEF Good, Covered, ReadsPut, PutMsg
  <1>4. /\ node'.stream = stream /\ node'.kind = "put" /\ node'.open = ~m.last
        /\ node.stream = stream => node.ordered <= node'.ordered
        /\ m.order <= node'.ordered
        /\ ~m.last => toClient' = toClient
        /\ m.last => toClient' = toClient \o <<[stream |-> stream, kind |-> "hash"],
                                               [stream |-> stream, kind |-> "close"]>>
    BY <1>2, <1>3, ReadsPutFacts
  <1>5. UNCHANGED <<honest, reliable, pc, stream, size, limit, done, ordered, outcome>>
    BY NodeReadsFacts
  <1>6. \A i \in 1..Len(toClient) : toClient[i].stream <= stream /\ toClient[i].stream # stream
    BY <1>3, Current, QueueTypes DEF Good, Streams, Answered
  <1>7. PICK c \in Nat : c = Len(toClient)
    BY QueueTypes
  <1>8. /\ \A i \in 1..c : toClient'[i] = toClient[i]
        /\ ~m.last => Len(toClient') = c
        /\ m.last => /\ Len(toClient') = c + 2
                     /\ toClient'[c + 1] = [stream |-> stream, kind |-> "hash"]
                     /\ toClient'[c + 2] = [stream |-> stream, kind |-> "close"]
    <2>1. CASE ~m.last
      BY <1>4, <1>7, <2>1
    <2>2. CASE m.last
      <3>1. stream \in Nat /\ toClient \in Seq(ToClient)
        BY DEF ClientInv, TypeOK
      <3>2. PICK a \in ToClient : a = [stream |-> stream, kind |-> "hash"]
        BY <3>1, ReplyIn
      <3>3. PICK b \in ToClient : b = [stream |-> stream, kind |-> "close"]
        BY <3>1, ReplyIn
      <3>4. PICK r \in Seq(ToClient) : r = <<a, b>> /\ Len(r) = 2 /\ r[1] = a /\ r[2] = b
        <4>1. <<a, b>> \in Seq(ToClient) /\ Len(<<a, b>>) = 2 /\ <<a, b>>[1] = a /\ <<a, b>>[2] = b
          BY ONLY ShortSeqs, a \in ToClient, b \in ToClient
        <4> QED BY <4>1, Zenon
      <3>5. toClient' = toClient \o r
        BY <1>4, <2>2, <3>2, <3>3, <3>4
      <3> QED BY <1>3, <1>7, <2>2, <3>1, <3>2, <3>3, <3>4, <3>5, ConcatFacts
    <2> QED BY <1>3, <2>1, <2>2
  <1>9. Streams'
    <2>1. \A i \in 1..Len(toClient') : toClient'[i].stream <= stream
      <3> SUFFICES ASSUME NEW i \in 1..Len(toClient') PROVE toClient'[i].stream <= stream
        OBVIOUS
      <3>1. i \in 1..c \/ (m.last /\ i \in {c + 1, c + 2})
        BY <1>3, <1>7, <1>8
      <3>2. stream \in Nat
        BY QueueTypes
      <3> QED BY <1>6, <1>7, <1>8, <3>1, <3>2
    <2>2. stream \in Nat /\ stream <= stream
      BY QueueTypes
    <2> QED BY <1>1, <1>3, <1>4, <1>5, <2>1, <2>2, Behind DEF Streams
  <1>10. ASSUME NEW i \in 1..Len(toNode), i > 1, NEW x, Paid(stream, x, i), x \in Nat
         PROVE  Paid(stream, x, i - 1)'
    <2>1. CASE x = 0
      BY <2>1 DEF Paid
    <2>2. CASE node.stream = stream /\ x <= node.ordered
      <3>1. node.ordered \in Nat /\ node'.ordered \in Nat
        BY DEF ClientInv, TypeOK, Node
      <3>2. x <= node'.ordered
        BY ONLY <1>4, <1>10, <2>2, <3>1
      <3> QED BY <1>4, <1>5, <3>2 DEF Paid
    <2>3. ASSUME NEW j \in 1..i, toNode[j].kind = "put", toNode[j].stream = stream, x <= toNode[j].order
          PROVE  Paid(stream, x, i - 1)'
      <3>1. CASE j = 1
        <4>1. x <= m.order /\ node'.ordered \in Nat
          BY <1>1, <2>3, <3>1 DEF ClientInv, TypeOK, Node
        <4>2. x <= node'.ordered
          BY <1>3, <1>4, <1>10, <4>1
        <4> QED BY <1>4, <1>5, <4>2 DEF Paid
      <3>2. CASE j # 1
        <4>1. j - 1 \in 1..(i - 1) /\ j - 1 \in 1..(Len(toNode) - 1) /\ (j - 1) + 1 = j
          BY <3>2, QueueTypes
        <4>2. toNode'[j - 1] = toNode[j]
          BY <4>1, NodeReadsFacts
        <4> QED BY <1>5, <2>3, <4>1, <4>2 DEF Paid
      <3> QED BY <3>1, <3>2
    <2> QED BY <1>10, <2>1, <2>2, <2>3 DEF Paid
  <1>11. ASSUME NEW i \in 1..Len(toNode'), toNode'[i].kind = "put"
         PROVE  /\ toNode'[i].stream = stream
                /\ toNode'[i].order <= toNode'[i].limit
                /\ Paid(stream, toNode[i].end, i)'
                /\ toNode'[i].last => pc = "putWait"
                /\ ~m.last
    <2>1. PICK k \in 1..Len(toNode) : k = i + 1 /\ k > 1 /\ k - 1 = i /\ toNode'[i] = toNode[k]
      BY Behind
    <2>2. /\ toNode[k].kind = "put" /\ toNode[k].stream = stream /\ toNode[k].order <= toNode[k].limit
          /\ Paid(stream, toNode[k].end, k) /\ (toNode[k].last => pc = "putWait")
      BY <1>11, <2>1 DEF Good, Covered
    <2>3. PICK x \in Nat : x = toNode[k].end
      BY <2>2, QueueTypes
    <2>4. Paid(stream, x, k - 1)'
      BY <1>10, <2>1, <2>2, <2>3
    <2>5. ~m.last
      BY <1>1, <1>3, <2>1, <2>2, Behind DEF Good, Covered
    <2> QED BY <1>5, <2>1, <2>2, <2>3, <2>4, <2>5
  <1>12. \A i, j \in 1..Len(toNode') : i < j /\ toNode'[i].kind = "put" /\ toNode'[i].last => toNode'[j].kind # "put"
    <2> SUFFICES ASSUME NEW i \in 1..Len(toNode'), NEW j \in 1..Len(toNode'), i < j,
                        toNode'[i].kind = "put", toNode'[i].last
                 PROVE  toNode'[j].kind # "put"
      OBVIOUS
    <2>1. i + 1 \in 1..Len(toNode) /\ j + 1 \in 1..Len(toNode) /\ i + 1 < j + 1
          /\ toNode'[i] = toNode[i + 1] /\ toNode'[j] = toNode[j + 1]
      BY Behind, NodeReadsFacts
    <2> QED BY <2>1 DEF Good, Covered
  <1>13. Paid(stream, ordered, Len(toNode))'
    <2>1. PICK n \in 1..Len(toNode) : n = Len(toNode) /\ Len(toNode') = n - 1 /\ n \in Nat
      BY NodeReadsFacts
    <2>2. PICK x \in Nat : x = ordered
      BY DEF ClientInv, TypeOK
    <2>3. Paid(stream, x, n)
      BY <1>3, <2>1, <2>2 DEF Good, Covered
    <2>4. CASE n > 1
      <3>1. Paid(stream, x, n - 1)'
        BY <1>10, <2>1, <2>2, <2>3, <2>4
      <3> QED BY <1>5, <2>1, <2>2, <3>1 DEF Paid
    <2>5. CASE n = 1
      <3>1. x = 0 \/ (node.stream = stream /\ x <= node.ordered) \/ x <= m.order
        BY <1>1, <2>3, <2>5 DEF Paid
      <3>2. x = 0 \/ x <= node'.ordered
        <4>1. node'.ordered \in Nat /\ node.ordered \in Nat
          BY DEF ClientInv, TypeOK, Node
        <4> QED BY <1>3, <1>4, <2>2, <3>1, <4>1
      <3> QED BY <1>4, <1>5, <2>2, <3>2 DEF Paid
    <2> QED BY <2>1, <2>4, <2>5
  <1>14. Covered'
    BY <1>3, <1>4, <1>5, <1>11, <1>12, <1>13 DEF Covered
  <1>15. Requested'
    BY <1>3, <1>5, Behind DEF Good, Requested
  <1>16. Answered'
    <2> SUFFICES ASSUME NEW i \in 1..Len(toClient')
                 PROVE  /\ toClient'[i].kind \in {"hash", "close", "data", "closeSend"}
                        /\ toClient'[i].stream = stream =>
                              /\ ~node'.open
                              /\ \/ toClient'[i].kind = "hash"
                                 \/ toClient'[i].kind = "close" /\ \E j \in 1..(i - 1) :
                                       toClient'[j].stream = stream /\ toClient'[j].kind = "hash"
      BY <1>3, <1>5 DEF Answered
    <2>1. i \in 1..c \/ (m.last /\ i = c + 1) \/ (m.last /\ i = c + 2)
      BY <1>3, <1>7, <1>8
    <2>2. CASE i \in 1..c
      BY <1>6, <1>7, <1>8, <2>2 DEF Good, Answered
    <2>3. CASE m.last /\ i = c + 1
      <3>1. ~node'.open
        BY ONLY <1>4, <2>3
      <3>2. toClient'[i].kind = "hash"
        BY ONLY <1>8, <2>3
      <3> QED BY <3>1, <3>2
    <2>4. CASE m.last /\ i = c + 2
      <3>1. c + 1 \in 1..(i - 1)
        BY <1>7, <2>4
      <3>2. ~node'.open
        BY ONLY <1>4, <2>4
      <3>3. /\ toClient'[i].kind = "close"
            /\ toClient'[c + 1].stream = stream /\ toClient'[c + 1].kind = "hash"
        BY ONLY <1>8, <2>4
      <3> QED BY <3>1, <3>2, <3>3
    <2> QED BY <2>1, <2>2, <2>3, <2>4
  <1>17. Placed'
    BY <1>3, <1>5 DEF Placed
  <1> QED BY <1>5, <1>9, <1>14, <1>15, <1>16, <1>17 DEF Good

LEMMA GoodReadsGet ==
    ASSUME ClientInv, ClientInv', Good, NodeReads, ReadsGet(toNode[1])
    PROVE  Good'
  <1>1. PICK m \in ToNode : m = toNode[1]
    BY NodeReadsFacts
  <1>2. /\ m.kind = "get" /\ m.stream = stream /\ pc \in {"get", "getWait"} /\ node.stream < stream
        /\ m.size = size /\ m.limit = limit /\ done = 0 /\ size > 0
    BY <1>1, Behind DEF Good, Requested, ReadsGet, ClientInv, Accounts
  <1>3. /\ node'.stream = stream /\ node'.kind = "get" /\ node'.size = size /\ node'.limit = limit
        /\ node'.moved = 0 /\ node'.open = TRUE /\ toClient' = toClient
    BY <1>1, <1>2 DEF ReadsGet
  <1>4. UNCHANGED <<honest, reliable, pc, stream, size, limit, done, ordered, outcome>>
    BY NodeReadsFacts
  <1>5. \A i \in 1..Len(toClient) : toClient[i].stream < stream
    BY <1>2, QueueTypes DEF Good, Streams
  <1>6. Streams'
    <2>1. \A i \in 1..Len(toNode') : stream <= toNode'[i].stream /\ toNode'[i].stream <= stream
      BY <1>1, <1>2, Behind
    <2>2. stream \in Nat /\ stream <= stream
      BY QueueTypes
    <2>3. \A i \in 1..Len(toClient) : toClient[i].stream <= stream
      BY <1>5, QueueTypes
    <2>4. \A i, j \in 1..Len(toNode') : i < j => toNode'[i].stream <= toNode'[j].stream
      BY Behind
    <2> QED BY <1>2, <1>3, <1>4, <2>1, <2>2, <2>3, <2>4 DEF Streams
  <1>7. Covered'
    BY <1>2, <1>4, Behind DEF Good, Covered
  <1>8. \A i \in 1..Len(toNode') : toNode'[i].kind # "get"
    BY <1>1, <1>2, Behind DEF Good, Requested
  <1>9. Requested'
    <2>1. ~(stream < stream) /\ 0 < size
      BY <1>2, QueueTypes
    <2>2. \A i \in 1..Len(toNode') : toNode'[i].kind = "order" /\ toNode'[i].stream = stream => toNode'[i].order <= limit
      BY Behind DEF Good, Requested
    <2>3. \A i \in 1..Len(toNode') : toNode'[i].kind = "close" => toNode'[i].stream # stream
      BY <1>2, Behind DEF Good, Requested
    <2> QED BY <1>2, <1>3, <1>4, <1>8, <2>1, <2>2, <2>3 DEF Requested
  <1>10. Answered'
    BY <1>2, <1>3, <1>4, <1>5, QueueTypes DEF Good, Answered
  <1>11. Placed'
    <2>1. PICK f \in [0..Len(toClient) -> Nat] : f = [i \in 0..Len(toClient) |-> 0]
      OBVIOUS
    <2>2. \A i \in 0..Len(toClient) : f[i] = 0
      BY <2>1
    <2>3. \A i \in 1..Len(toClient) : i \in 0..Len(toClient) /\ i - 1 \in 0..Len(toClient) /\ toClient[i].stream # stream
      BY <1>5, QueueTypes
    <2>4. 0 \in 0..Len(toClient) /\ Len(toClient) \in 0..Len(toClient)
      BY QueueTypes
    <2>5. IsPosition(f)'
      BY <1>2, <1>3, <1>4, <2>2, <2>3, <2>4 DEF IsPosition
    <2> QED BY <1>3, <2>5 DEF Placed
  <1> QED BY <1>4, <1>6, <1>7, <1>9, <1>10, <1>11 DEF Good

\* Steps of the node that only drop a message or raise what was ordered.
LEMMA GoodQuiet ==
    ASSUME ClientInv, ClientInv', Good, NodeReads, toClient' = toClient,
           node'.stream = node.stream, node'.kind = node.kind, node'.size = node.size,
           node'.limit = node.limit, node'.moved = node.moved, node'.open = node.open,
           node.ordered <= node'.ordered, toNode[1].kind # "put"
    PROVE  Good'
  <1>1. UNCHANGED <<honest, reliable, pc, stream, size, limit, done, ordered, outcome>>
    BY NodeReadsFacts
  <1>2. \A i \in 1..Len(toNode') : node.stream <= toNode'[i].stream
    BY Behind DEF Good, Streams
  <1>3. Streams'
    BY <1>1, <1>2, Behind, QueueTypes DEF Good, Streams
  <1>4. ASSUME NEW i \in 1..Len(toNode), NEW x \in Nat, Paid(stream, x, i)
        PROVE  Paid(stream, x, i - 1)'
    <2>1. CASE x = 0
      BY <2>1 DEF Paid
    <2>2. CASE node.stream = stream /\ x <= node.ordered
      <3>0. node.ordered \in Nat /\ node'.ordered \in Nat
        BY DEF ClientInv, TypeOK, Node
      <3>1. x <= node'.ordered
        BY ONLY <2>2, <3>0, x \in Nat, node.ordered <= node'.ordered
      <3> QED BY <1>1, <2>2, <3>1 DEF Paid
    <2>3. ASSUME NEW j \in 1..i, toNode[j].kind = "put", toNode[j].stream = stream, x <= toNode[j].order
          PROVE  Paid(stream, x, i - 1)'
      <3>1. j # 1
        BY <2>3
      <3>2. j - 1 \in 1..(i - 1) /\ j - 1 \in 1..(Len(toNode) - 1) /\ (j - 1) + 1 = j
        BY <3>1, QueueTypes
      <3>3. toNode'[j - 1] = toNode[j]
        BY <3>2, NodeReadsFacts
      <3> QED BY <1>1, <2>3, <3>2, <3>3 DEF Paid
    <2> QED BY <1>4, <2>1, <2>2, <2>3 DEF Paid
  <1>5. Covered'
    <2>1. ASSUME NEW i \in 1..Len(toNode'), toNode'[i].kind = "put"
          PROVE  /\ toNode'[i].stream = stream /\ pc \in {"put", "putWait"}
                 /\ toNode'[i].order <= toNode'[i].limit
                 /\ Paid(stream, toNode[i].end, i)'
                 /\ toNode'[i].last => pc = "putWait"
                 /\ node.stream = stream => node.open
      <3>1. PICK k \in 1..Len(toNode) : k = i + 1 /\ k - 1 = i /\ toNode'[i] = toNode[k]
        BY Behind
      <3>2. /\ toNode[k].kind = "put" /\ toNode[k].stream = stream /\ toNode[k].order <= toNode[k].limit
            /\ Paid(stream, toNode[k].end, k) /\ (toNode[k].last => pc = "putWait")
            /\ pc \in {"put", "putWait"} /\ (node.stream = stream => node.open)
        BY <2>1, <3>1 DEF Good, Covered
      <3>3. PICK x \in Nat : x = toNode[k].end
        BY <3>2, QueueTypes
      <3>4. Paid(stream, x, k - 1)'
        BY <1>4, <3>2, <3>3
      <3> QED BY <1>1, <3>1, <3>2, <3>3, <3>4
    <2>2. \A i, j \in 1..Len(toNode') : i < j /\ toNode'[i].kind = "put" /\ toNode'[i].last => toNode'[j].kind # "put"
      <3> SUFFICES ASSUME NEW i \in 1..Len(toNode'), NEW j \in 1..Len(toNode'), i < j,
                          toNode'[i].kind = "put", toNode'[i].last
                   PROVE  toNode'[j].kind # "put"
        OBVIOUS
      <3>1. i + 1 \in 1..Len(toNode) /\ j + 1 \in 1..Len(toNode) /\ i + 1 < j + 1
            /\ toNode'[i] = toNode[i + 1] /\ toNode'[j] = toNode[j + 1]
        BY Behind, NodeReadsFacts
      <3> QED BY <3>1 DEF Good, Covered
    <2>3. pc \in {"put", "putWait"} => Paid(stream, ordered, Len(toNode))'
      <3> SUFFICES ASSUME pc \in {"put", "putWait"} PROVE Paid(stream, ordered, Len(toNode))'
        OBVIOUS
      <3>1. PICK n \in 1..Len(toNode) : n = Len(toNode) /\ Len(toNode') = n - 1
        BY NodeReadsFacts
      <3>2. PICK x \in Nat : x = ordered
        BY DEF ClientInv, TypeOK
      <3>3. Paid(stream, x, n - 1)'
        BY <1>4, <3>1, <3>2 DEF Good, Covered
      <3> QED BY <1>1, <3>1, <3>2, <3>3 DEF Paid
    <2> QED BY <1>1, <2>1, <2>2, <2>3 DEF Good, Covered
  <1>6. Requested'
    <2>1. \A i, j \in 1..Len(toNode') : toNode'[i].kind = "get" /\ toNode'[j].kind = "get" => i = j
      <3> SUFFICES ASSUME NEW i \in 1..Len(toNode'), NEW j \in 1..Len(toNode'),
                          toNode'[i].kind = "get", toNode'[j].kind = "get"
                   PROVE  i = j
        OBVIOUS
      <3>1. i + 1 = j + 1
        BY Behind DEF Good, Requested
      <3> QED BY <3>1
    <2>2. \A i \in 1..Len(toNode') : \E k \in 1..Len(toNode) : toNode'[i] = toNode[k]
      BY Behind
    <2>3. Requested
      BY DEF Good
    <2> QED BY ONLY <1>1, <2>1, <2>2, <2>3, node'.stream = node.stream, node'.kind = node.kind,
                    node'.size = node.size, node'.limit = node.limit, node'.moved = node.moved,
                    node'.open = node.open DEF Requested
  <1>7. Answered' /\ Placed'
    BY <1>1 DEF Good, Answered, Placed, IsPosition
  <1> QED BY <1>1, <1>3, <1>5, <1>6, <1>7 DEF Good

LEMMA GoodNodeReads ==
    ASSUME ClientInv, ClientInv', Good, honest, NodeReads
    PROVE  Good'
  <1>1. PICK m \in ToNode : m = toNode[1]
    BY NodeReadsFacts
  <1>2. node \in Node /\ node.ordered \in Nat
    BY DEF ClientInv, TypeOK, Node
  <1>3. CASE ReadsPut(m)
    BY <1>1, <1>3, GoodReadsPut
  <1>4. CASE ReadsGet(m)
    BY <1>1, <1>4, GoodReadsGet
  <1>5. CASE ReadsOrder(m)
    <2>1. m.order \in Nat
      BY <1>5, MsgFacts DEF ReadsOrder, OrderMsg
    <2>2. PICK x \in Nat : x = Max({node.ordered, m.order}) /\ node.ordered <= x
      BY <1>2, <2>1, MaxOfTwo
    <2>3. node' = [node EXCEPT !.ordered = x] /\ toClient' = toClient /\ m.kind # "put"
      BY <1>5, <2>2 DEF ReadsOrder
    <2>4. /\ node'.stream = node.stream /\ node'.kind = node.kind /\ node'.size = node.size
          /\ node'.limit = node.limit /\ node'.moved = node.moved /\ node'.open = node.open
          /\ node.ordered <= node'.ordered
      BY <1>2, <2>2, <2>3 DEF Node
    <2> QED BY <1>1, <2>3, <2>4, GoodQuiet
  <1>6. CASE ReadsEnd(m)
    <2>1. node.open /\ node.stream = stream /\ pc \in {"put", "putWait", "get", "getWait"}
      BY <1>6 DEF ReadsEnd, Good, Streams
    <2>2. m.stream = stream
      BY <1>1, <2>1, Behind, QueueTypes DEF Good, Streams
    <2>3. CASE m.kind = "close"
      BY <1>1, <2>1, <2>2, <2>3, Behind DEF Good, Requested
    <2>4. CASE m.kind = "order" /\ m.order > node.limit
      <3>1. m.order <= limit /\ pc \in {"get", "getWait"}
        BY <1>1, <2>1, <2>2, <2>4, Behind DEF Good, Requested
      <3>2. node.limit = limit
        BY <2>1, <3>1 DEF Good, Requested
      <3>3. m.order \in Nat /\ limit \in Nat
        BY <2>4, MsgFacts DEF OrderMsg, ClientInv, TypeOK
      <3> QED BY <2>4, <3>1, <3>2, <3>3
    <2> QED BY <1>6, <2>3, <2>4 DEF ReadsEnd
  <1>7. CASE ReadsNothing(m)
    <2>1. m.kind # "put"
      <3> SUFFICES ASSUME m.kind = "put" PROVE FALSE
        OBVIOUS
      <3>1. m.stream = node.stream /\ ~node.open
        BY <1>7 DEF ReadsNothing
      <3>2. m.stream = stream /\ (node.stream = stream => node.open)
        BY <1>1, Behind DEF Good, Covered
      <3> QED BY <3>1, <3>2
    <2>2. node' = node /\ toClient' = toClient /\ node.ordered <= node.ordered
      BY <1>2, <1>7 DEF ReadsNothing
    <2> QED BY <1>1, <2>1, <2>2, GoodQuiet
  <1> QED BY <1>1, <1>3, <1>4, <1>5, <1>6, <1>7, NodeReadsFacts

\* Positions after packets of the node are added.
LEMMA AddPosition ==
    ASSUME ClientInv, ClientInv', NEW f \in [0..Len(toClient) -> Nat], IsPosition(f),
           NEW u \in Nat, node.moved + u = node'.moved, NEW c \in Nat, c \in {1, 2},
           Len(toClient') = Len(toClient) + c,
           \A i \in 1..Len(toClient) : toClient'[i] = toClient[i],
           toClient'[Len(toClient) + 1] = [stream |-> stream, kind |-> "data", units |-> u],
           c = 2 => /\ toClient'[Len(toClient) + 2] = [stream |-> stream, kind |-> "closeSend"]
                    /\ node'.moved = size,
           UNCHANGED <<stream, size, done>>
    PROVE  \E g \in [0..Len(toClient') -> Nat] : IsPosition(g)'
  <1>1. PICK n \in Nat : n = Len(toClient)
    BY QueueTypes
  <1>2. PICK x \in Nat : x = node'.moved /\ node.moved + u = x
    BY DEF ClientInv, TypeOK, Node
  <1>3. PICK g \in [0..(n + c) -> Nat] : g = [i \in 0..(n + c) |-> IF i \in 0..n THEN f[i] ELSE x]
    <2>1. f \in [0..n -> Nat]
      BY <1>1
    <2> QED BY <2>1
  <1>4. /\ \A i \in 0..n : g[i] = f[i]
        /\ \A i \in 0..(n + c) : i > n => g[i] = x
    BY <1>1, <1>3
  <1>5. f[0] = done /\ f[n] = node.moved /\ (\A i, j \in 0..n : i <= j => f[i] <= f[j])
        /\ (\A i \in 0..n : f[i] \in Nat)
    BY <1>1 DEF IsPosition
  <1>6. g[0] = done' /\ g[n + c] = node'.moved
    BY <1>1, <1>2, <1>4, <1>5
  <1>7. \A i \in 1..(n + c) : i \in 1..n \/ i = n + 1 \/ (c = 2 /\ i = n + 2)
    BY <1>1
  <1>8. ASSUME NEW i \in 1..(n + c)
        PROVE  /\ g[i] = g[i - 1] + (IF toClient'[i].kind = "data" /\ toClient'[i].stream = stream
                                     THEN toClient'[i].units ELSE 0)
               /\ toClient'[i].kind = "closeSend" /\ toClient'[i].stream = stream => g[i] = size
    <2>1. CASE i \in 1..n
      <3>1. i \in 0..n /\ i - 1 \in 0..n
        BY <1>1, <2>1
      <3>2. /\ f[i] = f[i - 1] + (IF toClient[i].kind = "data" /\ toClient[i].stream = stream
                                  THEN toClient[i].units ELSE 0)
            /\ toClient[i].kind = "closeSend" /\ toClient[i].stream = stream => f[i] = size
        BY <1>1, <2>1 DEF IsPosition
      <3> QED BY <1>1, <1>4, <2>1, <3>1, <3>2
    <2>2. CASE i = n + 1
      <3>0. n \in 0..n /\ i \in 0..(n + c) /\ i > n /\ i - 1 = n
        BY <1>1, <2>2
      <3>1. g[i] = x /\ g[i - 1] = node.moved
        BY <1>4, <1>5, <3>0
      <3>2. toClient'[i].kind = "data" /\ toClient'[i].stream = stream /\ toClient'[i].units = u
        BY <1>1, <2>2
      <3> QED BY <1>2, <3>1, <3>2
    <2>3. CASE c = 2 /\ i = n + 2
      <3>1. g[i] = x /\ g[i - 1] = x
        BY <1>1, <1>4, <2>3
      <3>2. toClient'[i].kind = "closeSend"
        BY <1>1, <2>3
      <3>3. x + 0 = x /\ x = size
        BY <1>2, <2>3
      <3> QED BY <3>1, <3>2, <3>3
    <2> QED BY <1>7, <2>1, <2>2, <2>3
  <1>9. \A i, j \in 0..(n + c) : i <= j => g[i] <= g[j]
    <2> SUFFICES ASSUME NEW i \in 0..(n + c), NEW j \in 0..(n + c), i <= j PROVE g[i] <= g[j]
      OBVIOUS
    <2>1. CASE j \in 0..n
      <3>1. i \in 0..n
        BY <1>1, <2>1
      <3> QED BY <1>4, <1>5, <2>1, <3>1
    <2>2. CASE j \notin 0..n /\ i \in 0..n
      <3>1. f[i] <= f[n] /\ f[n] <= x /\ f[i] \in Nat /\ f[n] \in Nat
        BY <1>1, <1>2, <1>5, <2>2
      <3>2. g[i] = f[i] /\ g[j] = x
        BY <1>1, <1>4, <2>2
      <3> QED BY ONLY <3>1, <3>2, x \in Nat
    <2>3. CASE j \notin 0..n /\ i \notin 0..n
      BY <1>1, <1>2, <1>4, <2>3
    <2> QED BY <2>1, <2>2, <2>3
  <1>10. Len(toClient') = n + c
    BY <1>1
  <1>11. IsPosition(g)'
    BY <1>3, <1>6, <1>8, <1>9, <1>10 DEF IsPosition
  <1> QED BY <1>3, <1>10, <1>11

LEMMA GoodNodeSends ==
    ASSUME ClientInv, ClientInv', Good, NodeSends
    PROVE  Good'
  <1>1. PICK u \in Nat, d \in ToClient :
             /\ u > 0 /\ node.open /\ node.kind = "get" /\ node.moved + u <= node.size
             /\ node' = [node EXCEPT !.moved = node.moved + u, !.open = node.moved + u < node.size]
             /\ d = [stream |-> node.stream, kind |-> "data", units |-> u]
             /\ toClient' = toClient \o
                   (IF node.moved + u < node.size THEN <<d>>
                    ELSE <<d, [stream |-> node.stream, kind |-> "closeSend"]>>)
             /\ UNCHANGED <<honest, reliable, pc, transfers, stream, size, limit, done, ordered, step, outcome, toNode>>
    BY NodeSendsFacts
  <1>2. /\ node \in Node /\ toClient \in Seq(ToClient) /\ node.moved \in Nat /\ node.size \in Nat
        /\ stream \in Nat /\ Len(toClient) \in Nat
    BY QueueTypes DEF ClientInv, TypeOK
  <1>3. /\ node'.stream = node.stream /\ node'.kind = node.kind /\ node'.size = node.size
        /\ node'.limit = node.limit /\ node'.moved = node.moved + u /\ node'.ordered = node.ordered
        /\ node'.open <=> node.moved + u < node.size
    BY <1>1, <1>2 DEF Node
  <1>4. node.stream = stream /\ pc \in {"get", "getWait"}
    BY <1>1 DEF Good, Streams, Covered
  <1>5. node.size = size /\ node.limit = limit /\ node.moved < size
    BY <1>1, <1>4 DEF Good, Requested
  <1>6. PICK e \in ToClient : e = [stream |-> stream, kind |-> "closeSend"]
    BY <1>2, ReplyIn
  <1>7. PICK r \in Seq(ToClient) :
           /\ toClient' = toClient \o r /\ r[1] = d
           /\ Len(r) = 1 \/ (Len(r) = 2 /\ r[2] = e /\ node.moved + u = size)
    <2>1. CASE node.moved + u < node.size
      <3>1. toClient' = toClient \o <<d>>
        BY <1>1, <2>1
      <3>2. <<d>> \in Seq(ToClient) /\ Len(<<d>>) = 1 /\ <<d>>[1] = d
        BY ONLY ShortSeqs, d \in ToClient
      <3> QED BY <3>1, <3>2, Zenon
    <2>2. CASE ~(node.moved + u < node.size)
      <3>1. toClient' = toClient \o <<d, e>>
        BY <1>1, <1>4, <1>6, <2>2
      <3>2. <<d, e>> \in Seq(ToClient) /\ Len(<<d, e>>) = 2 /\ <<d, e>>[1] = d /\ <<d, e>>[2] = e
        BY ONLY ShortSeqs, d \in ToClient, e \in ToClient
      <3>3. node.moved + u = node.size
        <4>1. node.moved + u <= node.size
          BY <1>1
        <4> QED BY ONLY <1>2, <2>2, <4>1, u \in Nat
      <3>4. node.moved + u = size
        BY <1>5, <3>3
      <3> QED BY <3>1, <3>2, <3>4, Zenon
    <2> QED BY <2>1, <2>2
  <1>17. PICK c \in {1, 2} : c = Len(r) /\ (c = 2 => r[2] = e /\ node.moved + u = size)
    BY <1>7
  <1>8. PICK n \in Nat : n = Len(toClient)
    BY <1>2
  <1>9. /\ Len(toClient') = n + c
        /\ \A i \in 1..n : toClient'[i] = toClient[i]
        /\ toClient'[n + 1] = d
        /\ c = 2 => toClient'[n + 2] = e
    <2>1. /\ Len(toClient \o r) = Len(toClient) + Len(r)
          /\ \A i \in 1..Len(toClient) : (toClient \o r)[i] = toClient[i]
          /\ \A i \in 1..Len(r) : (toClient \o r)[Len(toClient) + i] = r[i]
      BY ONLY <1>2, <1>7, ConcatFacts
    <2>2. 1 \in 1..Len(r) /\ (c = 2 => 2 \in 1..Len(r))
      BY <1>17
    <2> QED BY <1>7, <1>17, <1>8, <2>1, <2>2
  <1>10. \A i \in 1..Len(toClient') : i \in 1..n \/ toClient'[i] \in {d, e}
    <2>1. \A i \in 1..(n + c) : i \in 1..n \/ i = n + 1 \/ (c = 2 /\ i = n + 2)
      BY <1>8
    <2> QED BY <1>9, <2>1
  <1>11. d.stream = stream /\ e.stream = stream /\ d.kind = "data" /\ e.kind = "closeSend"
    BY <1>1, <1>4, <1>6
  <1>12. Streams'
    <2>1. stream <= stream
      BY <1>2
    <2>2. \A i \in 1..Len(toClient') : toClient'[i].stream <= stream
      BY <1>4, <1>8, <1>9, <1>10, <1>11, <2>1 DEF Good, Streams
    <2> QED BY <1>1, <1>3, <1>4, <2>2 DEF Good, Streams
  <1>13. Covered'
    BY <1>1, <1>4, <1>11 DEF Good, Covered
  <1>14. Requested'
    BY <1>1, <1>3, <1>4, <1>5 DEF Good, Requested
  <1>15. Answered'
    <2>1. \A i \in 1..Len(toClient') : toClient'[i].kind \in {"data", "closeSend"} \/ i \in 1..n
      BY <1>10, <1>11
    <2>2. \A i \in 1..n : /\ toClient'[i].kind \in {"hash", "close", "data", "closeSend"}
                          /\ toClient'[i].stream = stream => toClient'[i].kind \in {"data", "closeSend"}
      BY <1>4, <1>8, <1>9 DEF Good, Answered
    <2>3. pc' \in {"get", "getWait"} /\ stream' = stream
      BY <1>1, <1>4
    <2>4. \A i \in 1..Len(toClient') :
             /\ toClient'[i].kind \in {"hash", "close", "data", "closeSend"}
             /\ toClient'[i].stream = stream => toClient'[i].kind \in {"data", "closeSend"}
      BY <2>1, <2>2
    <2>5. pc' \notin {"put", "putWait"}
      BY <2>3
    <2> QED BY ONLY <2>3, <2>4, <2>5 DEF Answered
  <1>16. Placed'
    <2>1. PICK f \in [0..Len(toClient) -> Nat] : IsPosition(f)
      BY <1>4 DEF Good, Placed
    <2>2. d = [stream |-> stream, kind |-> "data", units |-> u]
      BY <1>1, <1>4
    <2>3. \E g \in [0..Len(toClient') -> Nat] : IsPosition(g)'
      <3>1. /\ Len(toClient') = Len(toClient) + c
            /\ \A i \in 1..Len(toClient) : toClient'[i] = toClient[i]
            /\ toClient'[Len(toClient) + 1] = [stream |-> stream, kind |-> "data", units |-> u]
            /\ c = 2 => /\ toClient'[Len(toClient) + 2] = [stream |-> stream, kind |-> "closeSend"]
                        /\ node'.moved = size
        BY <1>3, <1>6, <1>17, <1>8, <1>9, <2>2
      <3>2. node.moved + u = node'.moved /\ UNCHANGED <<stream, size, done>> /\ c \in Nat
        BY <1>1, <1>3
      <3> QED BY <2>1, <3>1, <3>2, AddPosition
    <2> QED BY <2>3 DEF Placed
  <1> QED BY <1>1, <1>12, <1>13, <1>14, <1>15, <1>16 DEF Good

LEMMA HonestNext ==
    ASSUME ClientInv, ClientInv', HonestInv, [PieceNext]_pieceVars
    PROVE  HonestInv'
  <1>1. UNCHANGED <<honest, reliable>>
    BY DEF PieceNext, pieceVars, nodeEnv, Begin, NetworkFails, ReadTimesOut, NodeReads, NodeSends, NodeMisbehaves, NodeStalls,
           Rest, ClientStep, SendStops, SkipStale, PutChunk, PutAnswered, PutFails, GetRequest, GetHead, GetData,
           GetFails, GetDone
  <1> SUFFICES ASSUME honest, reliable PROVE Good'
    BY <1>1 DEF HonestInv
  <1>2. Good
    BY DEF HonestInv
  <1>3. CASE UNCHANGED pieceVars
    <2>1. UNCHANGED <<pc, stream, size, limit, done, ordered, outcome, toNode, toClient, node>>
      BY <1>3 DEF pieceVars, call, orders
    <2>2. Streams' /\ Requested' /\ Answered'
      BY <1>2, <2>1 DEF Good, Streams, Requested, Answered
    <2>3. Covered' /\ Placed'
      BY <1>2, <2>1 DEF Good, Covered, Paid, Placed, IsPosition
    <2> QED BY <1>2, <2>1, <2>2, <2>3 DEF Good
  <1>4. CASE ClientStep
    BY <1>2, <1>4, NoFailure, GoodSkipStale, GoodPutChunk, GoodPutAnswered, GoodGetRequest, GoodGetHead,
       GoodGetData, GoodGetDone DEF ClientStep
  <1>5. CASE \E kind \in {"put", "get"}, n \in Sizes : \E l \in n..(n + Slack) : Begin(kind, n, l)
    BY <1>2, <1>5, GoodBegin
  <1>6. CASE NodeReads \/ NodeSends
    BY <1>2, <1>6, GoodNodeReads, GoodNodeSends
  <1>7. CASE NetworkFails \/ ReadTimesOut \/ NodeMisbehaves \/ NodeStalls
    BY <1>2, <1>7, NoFailure
  <1> QED BY <1>3, <1>4, <1>5, <1>6, <1>7 DEF PieceNext, Rest

\* With an honest node over a reliable network, the queues between client and
\* node stay in the order upload_once and download_once rely on.
THEOREM HonestInvHolds == PieceSpec => []HonestInv
  <1>1. ClientInv /\ HonestInv /\ [PieceNext]_pieceVars => ClientInv' /\ HonestInv'
    BY ClientNext, HonestNext
  <1> QED BY ClientInit, GoodInit, <1>1, PTL DEF PieceSpec

\* A transfer with an honest node over a reliable network does not fail, and what
\* upload_once or download_once orders ahead is bounded by the steps: for any
\* sizes, buffer, steps and number of transfers on one connection.
THEOREM OrdersCoverHolds == PieceSpec => []OrdersCover
  <1>1. ClientInv /\ HonestInv => OrdersCover
    BY DEF ClientInv, HonestInv, Good, OrdersCover, HonestNeverFails
  <1> QED BY <1>1, ClientInvHolds, HonestInvHolds, PTL

\* Within a transfer the orders of upload_once and download_once grow, and none
\* exceeds the limit, whatever the node does.
THEOREM OrdersGrowHolds == PieceSpec => [][OrdersGrow]_pieceVars
  <1>1. ASSUME ClientInv, PieceNext PROVE OrdersGrow
    <2> SUFFICES ASSUME stream' = stream, ordered' # ordered PROVE ordered' > ordered /\ ordered' <= limit
      BY DEF OrdersGrow
    <2>1. stream \in Nat /\ ordered \in Nat /\ done \in Nat /\ size \in Nat /\ limit \in Nat
      BY <1>1 DEF ClientInv, TypeOK
    <2>2. PutChunk \/ GetRequest \/ GetHead
      <3>1. ~ \E kind \in {"put", "get"}, n \in Sizes : \E l \in n..(n + Slack) : Begin(kind, n, l)
        BY <2>1 DEF Begin, call, orders
      <3>2. ~NetworkFails /\ ~ReadTimesOut /\ ~NodeReads /\ ~NodeSends /\ ~NodeMisbehaves /\ ~NodeStalls /\ ~Rest
        BY DEF NetworkFails, ReadTimesOut, NodeReads, NodeSends, NodeMisbehaves, NodeStalls, Rest, pieceVars, orders
      <3>3. ~SendStops /\ ~SkipStale /\ ~PutAnswered /\ ~PutFails /\ ~GetData /\ ~GetFails /\ ~GetDone
        BY DEF SendStops, SkipStale, PutAnswered, PutFails, GetData, GetFails, GetDone, orders
      <3> QED BY <1>1, <3>1, <3>2, <3>3 DEF PieceNext, ClientStep
    <2>3. CASE PutChunk
      <3>1. PICK end : end = done + Min({UploadBuffer, size - done})
        OBVIOUS
      <3>2. pc = "put" /\ NeedsOrder(end) /\ ordered' = PutAmount
        BY <2>3, <3>1 DEF PutChunk
      <3>3. end \in Nat /\ end <= PutAmount /\ PutAmount <= limit /\ PutAmount \in Nat
        BY <1>1, <3>1, <3>2, ChunkFacts
      <3> QED BY <2>1, <3>2, <3>3 DEF NeedsOrder
    <2>4. CASE GetRequest
      <3>1. pc = "getFirst" /\ ordered' = Min({size, step})
        BY <2>4 DEF GetRequest
      <3>2. ordered = 0 /\ size > 0 /\ size <= limit /\ step \in InitialStep..MaximumStep
        BY <1>1, <3>1 DEF ClientInv, Accounts, Busy
      <3>3. step \in Nat /\ step > 0
        BY <3>2, StepFacts
      <3>4. Min({size, step}) = IF size <= step THEN size ELSE step
        BY <2>1, <3>3, MinOfTwo
      <3> QED BY <2>1, <3>1, <3>2, <3>3, <3>4
    <2>5. CASE GetHead
      <3>1. pc = "get" /\ Low /\ ordered' = Min({ordered + NextOrderStep(step), size})
        BY <2>5 DEF GetHead
      <3>2. ordered' > ordered /\ ordered' <= size /\ ordered' \in Nat
        BY <1>1, <3>1, MoreFacts
      <3>3. size <= limit
        BY <1>1, <3>1 DEF ClientInv, Accounts, Busy
      <3> QED BY <2>1, <3>2, <3>3
    <2> QED BY <2>2, <2>3, <2>4, <2>5
  <1> QED BY <1>1, ClientInvHolds, PTL DEF PieceSpec
=============================================================================
