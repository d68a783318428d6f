---------------------------- MODULE PieceTransfer ----------------------------
(***************************************************************************)
(* Piece transfers with one storage node over one connection: the upload   *)
(* and download exchanges of storj-uplink/src/piecestore.rs, which pay for *)
(* data with signed orders of growing amounts, on the DRPC streams of      *)
(* storj-rpc/src/conn.rs.  Transfers follow one another on the connection  *)
(* as long as they succeed, as the pool reuses it.                         *)
(*                                                                         *)
(* Both directions are ordered.  The node (external) accepts data it holds *)
(* an order for, sends no more than was ordered and then waits; a node     *)
(* that is not honest may fail, end a stream early, send too much, send    *)
(* responses without data, or return a hash that does not verify.          *)
(* Signatures are outcomes.                                                *)
(***************************************************************************)
EXTENDS Integers, Sequences, FiniteSetsExt, Functions

CONSTANTS UploadBuffer,   \* Config::upload_buffer_size
          InitialStep,    \* Config::initial_step
          MaximumStep,    \* Config::maximum_step
          MaxPending,     \* MAX_PENDING_PACKETS
          NodeChunk,      \* bound: units the node sends in one message
          Sizes,          \* bound: sizes of pieces or ranges
          Slack,          \* bound: by how much a limit may exceed the size
          MaxTransfers    \* bound: transfers over the connection

\* put_piece and get_piece always use Config::default(), in which one upload
\* buffer fits the first order.
ASSUME PieceTransferAssumption ==
    /\ UploadBuffer \in Nat \ {0}
    /\ InitialStep \in Nat /\ MaximumStep \in Nat
    /\ UploadBuffer <= InitialStep /\ InitialStep <= MaximumStep
    /\ MaxPending \in Nat
    /\ Sizes \subseteq Nat
    /\ NodeChunk \in Nat /\ Slack \in Nat /\ MaxTransfers \in Nat

VARIABLES
    honest,     \* the node follows the protocol
    reliable,   \* no write, read or deadline fails
    pc,         \* where the client is
    transfers,  \* transfers begun
    stream,     \* id of the last stream opened
    size,       \* units of the piece (upload) or range (download)
    limit,      \* OrderLimit.limit
    done,       \* units sent (offset) or received (out.len())
    ordered,    \* amount of the last order (ordered_so_far, allocated)
    step,       \* order_step, step
    outcome,    \* how the last transfer ended
    toNode,     \* messages on their way to the node
    toClient,   \* packets that have arrived at the client
    node        \* the node's side of its latest stream

nodeEnv == <<honest, reliable>>
call == <<stream, size, limit>>
orders == <<done, ordered, step>>
pieceVars == <<nodeEnv, pc, transfers, call, orders, outcome, toNode, toClient, node>>

Busy == {"put", "putWait", "getFirst", "get", "getWait"}

NoStream == [stream |-> 0, kind |-> "none", size |-> 0, limit |-> 0,
             ordered |-> 0, moved |-> 0, open |-> FALSE]

PieceInit ==
    /\ honest \in BOOLEAN
    /\ reliable \in BOOLEAN
    /\ pc = "idle"
    /\ transfers = 0
    /\ stream = 0
    /\ size = 0
    /\ limit = 0
    /\ done = 0
    /\ ordered = 0
    /\ step = 0
    /\ outcome = "none"
    /\ toNode = <<>>
    /\ toClient = <<>>
    /\ node = NoStream

-----------------------------------------------------------------------------
(* Beginning and ending a transfer *)

\* Signature, action and amount of the limit and the range are checked before
\* the node is talked to; a refused call costs the connection all the same,
\* since the piece task keeps it only after a success.  An empty download
\* returns at once.
Begin(kind, n, l) ==
    /\ pc = "idle"
    /\ transfers < MaxTransfers
    /\ transfers' = transfers + 1
    /\ \/ /\ pc' = "dead"
          /\ outcome' = "refused"
          /\ UNCHANGED <<call, orders>>
       \/ /\ n <= l /\ kind = "get" /\ n = 0
          /\ outcome' = "ok"
          /\ UNCHANGED <<pc, call, orders>>
       \/ /\ n <= l /\ ~(kind = "get" /\ n = 0)
          /\ pc' = IF kind = "get" THEN "getFirst" ELSE "put"
          /\ stream' = stream + 1
          /\ size' = n
          /\ limit' = l
          /\ done' = 0
          /\ ordered' = 0
          /\ step' = InitialStep
          /\ outcome' = "none"
    /\ UNCHANGED <<nodeEnv, toNode, toClient, node>>

\* After a failed transfer the piece task does not keep the connection.
TransferFails ==
    /\ pc' = "dead"
    /\ outcome' = "err"

\* A write, a read, a deadline or the transport fails.
NetworkFails ==
    /\ pc \in Busy
    /\ ~reliable
    /\ TransferFails
    /\ UNCHANGED <<nodeEnv, transfers, call, orders, toNode, toClient, node>>

\* The read deadline, with nothing to read from a node that stopped answering.
ReadTimesOut ==
    /\ pc \in {"putWait", "getWait"}
    /\ toClient = <<>>
    /\ ~honest
    /\ TransferFails
    /\ UNCHANGED <<nodeEnv, transfers, call, orders, toNode, toClient, node>>

-----------------------------------------------------------------------------
(* Conn::send_msg and Conn::recv_msg *)

\* Mutant: nothing is read before a message is written.
PeerTerminatedUnseen == FALSE

\* drain_ready queues what has arrived, up to its watermark (of packets: half a
\* step of data stays below the one of bytes); the sender looks for a packet in
\* it that ends its stream (a CloseSend does not).
PeerTerminated ==
    \E i \in DOMAIN toClient :
        /\ i <= MaxPending
        /\ toClient[i].stream = stream
        /\ toClient[i].kind \in {"error", "close"}

SendMsg(m) ==
    /\ ~PeerTerminated
    /\ toNode' = Append(toNode, m)

\* A packet of an earlier stream.
Stale(p) == p.stream < stream

SkipStale ==
    /\ pc \in {"putWait", "getWait"}
    /\ toClient # <<>>
    /\ Stale(Head(toClient))
    /\ toClient' = Tail(toClient)
    /\ UNCHANGED <<nodeEnv, pc, transfers, call, orders, outcome, toNode, node>>

Arrived(kinds) ==
    /\ toClient # <<>>
    /\ ~Stale(Head(toClient))
    /\ Head(toClient).kind \in kinds
    /\ toClient' = Tail(toClient)

\* The stream is over for the client: Close is written.
CloseStream == toNode' = Append(toNode, [stream |-> stream, kind |-> "close"])

-----------------------------------------------------------------------------
(* Upload *)

NextOrderStep(s) == Min({(s * 3) \div 2, MaximumStep})

\* Mutant: a chunk that only begins within the ordered amount needs no order.
NeedsOrderAtStart(end) == done >= ordered

NeedsOrder(end) == end > ordered

PutAmount == Min({done + step, limit})

\* The next chunk, with an order when the last one does not cover it; the last
\* chunk carries the hash.  An empty piece is one message without a chunk.
PutChunk ==
    LET end == done + Min({UploadBuffer, size - done})
        order == IF NeedsOrder(end) THEN PutAmount ELSE 0
    IN  /\ pc = "put"
        /\ SendMsg([stream |-> stream, kind |-> "put", size |-> size, limit |-> limit,
                    order |-> order, end |-> end, last |-> end = size])
        /\ done' = end
        /\ ordered' = IF NeedsOrder(end) THEN PutAmount ELSE ordered
        /\ step' = IF NeedsOrder(end) THEN NextOrderStep(step) ELSE step
        /\ pc' = IF end = size THEN "putWait" ELSE "put"
        /\ UNCHANGED <<nodeEnv, transfers, call, outcome, toClient, node>>

\* The node's hash verifies (piece, algorithm, digest, signature, age).
PutAnswered ==
    /\ pc = "putWait"
    /\ Arrived({"hash"})
    /\ CloseStream
    /\ pc' = "idle"
    /\ outcome' = "ok"
    /\ UNCHANGED <<nodeEnv, transfers, call, orders, node>>

\* It does not verify, or there is none.
PutFails ==
    /\ pc = "putWait"
    /\ Arrived({"badHash", "error", "close", "closeSend", "data"})
    /\ TransferFails
    /\ UNCHANGED <<nodeEnv, transfers, call, orders, toNode, node>>

-----------------------------------------------------------------------------
(* Download *)

GetRequest ==
    /\ pc = "getFirst"
    /\ ordered' = Min({size, step})
    /\ SendMsg([stream |-> stream, kind |-> "get", size |-> size, limit |-> limit,
                order |-> Min({size, step})])
    /\ pc' = "get"
    /\ UNCHANGED <<nodeEnv, transfers, call, done, step, outcome, toClient, node>>

\* Mutant: more is ordered only once less than nothing is left.
LowLate == ordered < size /\ ordered - done < 0

\* Little is left of what was ordered.
Low == ordered < size /\ ordered - done <= step \div 2

\* Head of the loop: order more before the node runs out of it.
GetHead ==
    /\ pc = "get"
    /\ done < size
    /\ pc' = "getWait"
    /\ IF Low
       THEN /\ step' = NextOrderStep(step)
            /\ ordered' = Min({ordered + step', size})
            /\ SendMsg([stream |-> stream, kind |-> "order", order |-> ordered'])
       ELSE UNCHANGED <<step, ordered, toNode>>
    /\ UNCHANGED <<nodeEnv, transfers, call, done, outcome, toClient, node>>

\* A message is to be sent, but the stream has ended: send_msg reports it.
SendStops ==
    /\ pc \in {"put", "getFirst", "get"}
    /\ pc = "get" => done < size /\ Low
    /\ PeerTerminated
    /\ TransferFails
    /\ UNCHANGED <<nodeEnv, transfers, call, orders, toNode, toClient, node>>

\* A response adds its data, if it has any, and the loop goes on: the next read
\* has a deadline of its own.
GetData ==
    /\ pc = "getWait"
    /\ Arrived({"data"})
    /\ done' = done + Head(toClient).units
    /\ pc' = "get"
    /\ UNCHANGED <<nodeEnv, transfers, call, ordered, step, outcome, toNode, node>>

\* The stream ends short of the range, or with an error.
GetFails ==
    /\ pc = "getWait"
    /\ Arrived({"error", "close", "closeSend"})
    /\ TransferFails
    /\ UNCHANGED <<nodeEnv, transfers, call, orders, toNode, node>>

\* All is there, and cut to size if the node sent too much.  That CloseSend and
\* Close cannot be written costs the connection, not the result.
GetDone ==
    /\ pc = "get"
    /\ done >= size
    /\ done' = size
    /\ outcome' = "ok"
    /\ \/ pc' = "idle" /\ CloseStream
       \/ ~reliable /\ pc' = "dead" /\ UNCHANGED toNode
    /\ UNCHANGED <<nodeEnv, transfers, call, ordered, step, toClient, node>>

-----------------------------------------------------------------------------
(* The storage node (external) *)

Packet(kind) == [stream |-> node'.stream, kind |-> kind]
Reply(packets) == toClient' = toClient \o packets

\* An order must be within the limit; what it does not cover is refused.
Acceptable(m, had) == m.order <= m.limit /\ m.end <= Max({had, m.order})

NodePut(m, had, moved) ==
    LET ok == Acceptable(m, had) IN
    /\ node' = [stream |-> m.stream, kind |-> "put", size |-> m.size, limit |-> m.limit,
                ordered |-> Max({had, m.order}), moved |-> IF ok THEN m.end ELSE moved,
                open |-> ok /\ ~m.last]
    /\ CASE ~ok -> Reply(<<Packet("error"), Packet("close")>>)
         [] ok /\ m.last -> \/ Reply(<<Packet("hash"), Packet("close")>>)
                            \/ ~honest /\ Reply(<<Packet("badHash"), Packet("close")>>)
         [] OTHER -> UNCHANGED toClient

\* The node reads its next message: one of a new stream, of the stream it
\* serves, or of one it has already ended.
NodeReads ==
    /\ toNode # <<>>
    /\ toNode' = Tail(toNode)
    /\ LET m == Head(toNode)
           new == m.stream # node.stream
       IN  CASE m.kind = "put" /\ (new \/ node.open) ->
                  NodePut(m, IF new THEN 0 ELSE node.ordered, IF new THEN 0 ELSE node.moved)
             [] m.kind = "get" ->
                  /\ node' = [stream |-> m.stream, kind |-> "get", size |-> m.size,
                              limit |-> m.limit, ordered |-> m.order, moved |-> 0, open |-> TRUE]
                  /\ UNCHANGED toClient
             [] m.kind = "order" /\ node.open ->
                  IF m.order <= node.limit
                  THEN node' = [node EXCEPT !.ordered = Max({@, m.order})] /\ UNCHANGED toClient
                  ELSE node' = [node EXCEPT !.open = FALSE] /\ Reply(<<Packet("error")>>)
             [] m.kind = "close" /\ node.open ->
                  /\ node' = [node EXCEPT !.open = FALSE]
                  /\ Reply(<<Packet("closeSend")>>)
             [] OTHER -> UNCHANGED <<node, toClient>>
    /\ UNCHANGED <<nodeEnv, pc, transfers, call, orders, outcome>>

\* Data is sent up to the ordered amount; after the last of it the node closes
\* its side.
NodeSends ==
    /\ node.open
    /\ node.kind = "get"
    /\ LET room == Min({node.ordered, node.size}) - node.moved IN
       \E n \in 1..Min({NodeChunk, room}) :
          /\ node' = [node EXCEPT !.moved = @ + n, !.open = node.moved + n < node.size]
          /\ LET data == [stream |-> node.stream, kind |-> "data", units |-> n] IN
             Reply(IF node'.open THEN <<data>> ELSE <<data, Packet("closeSend")>>)
    /\ UNCHANGED <<nodeEnv, pc, transfers, call, orders, outcome, toNode>>

\* A node that is not honest fails, ends its stream early or sends too much.
NodeMisbehaves ==
    /\ ~honest
    /\ node.open
    /\ node' = [node EXCEPT !.open = FALSE]
    /\ \/ \E kind \in {"error", "close"} : Reply(<<Packet(kind)>>)
       \/ /\ node.kind = "get"
          /\ Reply(<<[stream |-> node.stream, kind |-> "data",
                      units |-> node.size - node.moved + 1]>>)
    /\ UNCHANGED <<nodeEnv, pc, transfers, call, orders, outcome, toNode>>

\* It sends a response without a chunk, or with an empty one (bound: when the
\* client has read the one before).
NodeStalls ==
    /\ ~honest
    /\ node.open
    /\ node.kind = "get"
    /\ toClient = <<>>
    /\ toClient' = Append(toClient, [stream |-> node.stream, kind |-> "data", units |-> 0])
    /\ UNCHANGED <<nodeEnv, pc, transfers, call, orders, outcome, toNode, node>>

-----------------------------------------------------------------------------
\* The connection rests in the pool, or is gone.
Rest == pc \in {"idle", "dead"} /\ UNCHANGED pieceVars

ClientStep ==
    \/ SendStops \/ SkipStale
    \/ PutChunk \/ PutAnswered \/ PutFails
    \/ GetRequest \/ GetHead \/ GetData \/ GetFails \/ GetDone

PieceNext ==
    \/ \E kind \in {"put", "get"}, n \in Sizes : \E l \in n..(n + Slack) : Begin(kind, n, l)
    \/ ClientStep
    \/ NetworkFails
    \/ ReadTimesOut
    \/ NodeReads
    \/ NodeSends
    \/ NodeMisbehaves
    \/ NodeStalls
    \/ Rest

PieceSpec == PieceInit /\ [][PieceNext]_pieceVars

\* The task is polled and reads have a deadline; an honest node reads and sends.
PieceFairness ==
    /\ WF_pieceVars(ClientStep)
    /\ WF_pieceVars(ReadTimesOut)
    /\ WF_pieceVars(honest /\ (NodeReads \/ NodeSends))

FairPieceSpec == PieceSpec /\ PieceFairness

-----------------------------------------------------------------------------
(* Properties *)

\* A transfer with an honest node over a reliable network succeeds: every chunk
\* is covered by an order when it arrives, no order exceeds the limit, and what
\* an earlier transfer left on the connection is not taken for an answer.
HonestNeverFails == honest /\ reliable => outcome # "err"

\* "a piece that is cancelled by the long tail is only settled for what was
\* actually read": what is ordered ahead of the data is bounded by the steps,
\* never by the size of the piece.
OrderedAhead ==
    pc \in Busy => ordered - done <= Max({InitialStep, MaximumStep + MaximumStep \div 2})

\* upload_once, download_once: orders are neither too few nor too many.  A chunk
\* never meets an honest node without one, and little is ordered that is not
\* sent.
OrdersCover ==
    /\ HonestNeverFails
    /\ OrderedAhead

\* The end of the client's stream has arrived.
Terminated ==
    \E i \in DOMAIN toClient :
        toClient[i].stream = stream /\ toClient[i].kind \in {"error", "close"}

\* Within a transfer the orders grow, and none exceeds the limit.
OrdersGrow ==
    stream' = stream /\ ordered' # ordered => ordered' > ordered /\ ordered' <= limit

\* Units of the client's stream that have arrived and are not read.
Unread ==
    FoldFunction(LAMBDA p, n : n + (IF p.kind = "data" /\ p.stream = stream THEN p.units ELSE 0),
                 0, toClient)

\* Once the end of its stream has arrived an upload sends no further data.  A
\* download, whose queue the end may be hidden behind, signs at most one more
\* order: what lies before the end does not use it up far enough for another.
EndHeeded ==
    Terminated /\ stream' = stream =>
        /\ pc = "put" => ordered' = ordered /\ done' = done
        /\ ordered' # ordered => ordered' = size \/ ordered' - (done + Unread) > step' \div 2

\* upload_once, download_once and send_msg: orders grow within the limit, and a
\* stream that the node has ended gets no more data and at most one more order,
\* also when the end lies behind drain_ready's watermark.
OrdersStop == [][OrdersGrow /\ EndHeeded]_pieceVars

\* Every transfer ends: client and node never wait for one another, the one for
\* data and the other for an order.  Only a node that sends empty responses for
\* ever keeps a download alive: each of them is read with a deadline of its own.
TransfersEnd ==
    \/ pc \in Busy ~> pc \notin Busy
    \/ []<><<NodeStalls>>_pieceVars

\* "every launched piece signs an order for its full byte range"
\* (storj-uplink/src/download.rs): as the code has it, download_once orders the
\* range in steps.
FullRangeOrdered == pc \in {"get", "getWait"} => ordered = size
=============================================================================
