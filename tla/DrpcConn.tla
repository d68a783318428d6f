------------------------------ MODULE DrpcConn ------------------------------
(***************************************************************************)
(* A DRPC client connection on a dialled transport (storj-rpc/src/conn.rs, *)
(* frame.rs): packets split into frames and reassembled, one call at a     *)
(* time, the pending queue of the non-blocking probe, and the poison flag  *)
(* that says whether the wire may hold half a frame.  A frame is two units *)
(* of the byte stream, so a write or a read can stop in the middle of it.  *)
(* What the client wrote is in the server's hands at once: the delay shows *)
(* only in when the server answers.                                        *)
(***************************************************************************)
EXTENDS DialRace, SequencesExt

CONSTANTS Budgets,      \* bounds: [kinds, calls, replies], the calls that are made,
                        \* how many of them, and the packets the server sends
          MaxPacket,    \* MAX_PACKET_SIZE, in frame payloads
          HighWater,    \* PENDING_HIGH_WATER_BYTES, in frame payloads
          MaxPending    \* MAX_PENDING_PACKETS

Calls == {"invoke", "open", "send", "close_send", "close", "recv"}

\* The packets a call sends and its other awaits; the packets a server sends.
StepKinds == {"INVOKE", "MESSAGE", "CLOSE_SEND", "CLOSE", "flush", "drain", "recv"}
AnswerKinds == {"MESSAGE", "ERROR", "CLOSE", "CLOSE_SEND", "PING"}

\* How a call can end.
Outcomes == {"ok", "io", "timeout", "cancelled", "closed", "truncated", "frame", "remote",
             "terminated", "unexpected"}

ASSUME ConnAssumption ==
    /\ MaxPacket \in Nat \ {0} /\ HighWater \in Nat /\ MaxPending \in Nat
    /\ \A b \in Budgets : b.calls \in Nat
    /\ None \notin [call : Calls, s : Nat, mid : Nat, todo : Seq(StepKinds), off : Nat, was : BOOLEAN]
    /\ None \notin [s : Nat, mid : Nat]
    /\ None \notin [s : Nat, m : Nat, kind : AnswerKinds, control : BOOLEAN, data : Seq(Nat \X Nat \X Nat)]
    /\ None \notin Outcomes

\* Bound: the budgets are spent on a dial that succeeds at once, one call is
\* made on a deferred dial, and every other dial is explored alone.
NoCall == [kinds |-> {}, calls |-> 0, replies |-> 0]
OneCall == [kinds |-> Calls, calls |-> 1, replies |-> 1]

\* The streams there can be.
Streams == UNION {1..b.calls : b \in Budgets \cup {OneCall}}

VARIABLES
    op,         \* the call in progress, or None
    stream,     \* the RpcStream the caller holds, or None
    next,       \* next_stream_id
    poisoned,
    buf,        \* unparsed units
    asm,        \* the PacketAssembler
    pending,    \* packets the probe has queued
    calls,      \* calls that may still be made, and of which kinds
    last,       \* how the last call ended
    down,       \* units the server sent that the client has not read
    srv,        \* the server: parser, answers, whether it is gone
    sent, got,  \* history, per stream: whole messages sent, and delivered
    waited      \* the deadline of the read in progress is about to pass

clientVars == <<op, stream, next, poisoned, buf, asm, pending, calls, last>>
serverVars == <<down, srv, sent>>
connVars == <<dialVars, clientVars, serverVars, got>>
timedVars == <<connVars, waited>>

-----------------------------------------------------------------------------
(* Frames (frame.rs) *)

\* append_packet_data: n payloads, one per frame; an empty packet is one frame.
Frames(s, m, kind, control, n) ==
    [i \in 1..(IF n = 0 THEN 1 ELSE n) |->
       [s |-> s, m |-> m, kind |-> kind, control |-> control, done |-> i >= n,
        data |-> IF n = 0 THEN <<>> ELSE <<<<s, m, i>>>>]]

\* append_frame: header and ids, then the payload.
Units(frames) ==
    [i \in 1..(2 * Len(frames)) |-> <<frames[(i + 1) \div 2], IF i % 2 = 1 THEN 1 ELSE 2>>]

\* parse_frame: more bytes wanted, nonsense, or a frame.
Parsed(units) ==
    CASE Len(units) < 2 -> "more"
      [] Len(units) >= 2 /\ units[1][2] = 1 /\ units[2] = <<units[1][1], 2>> -> "frame"
      [] OTHER -> "garbled"

NewAssembler == [s |-> 1, m |-> 1, cur |-> None]

id_less(as, am, bs, bm) == as < bs \/ (as = bs /\ am < bm)

\* Mutant: a frame of a new packet is appended to the one in progress.
PushMixed(a, fr) ==
    LET cur == IF a.cur = None THEN [s |-> fr.s, m |-> fr.m, kind |-> fr.kind,
                                     control |-> fr.control, data |-> fr.data]
               ELSE [a.cur EXCEPT !.data = @ \o fr.data]
    IN  [err |-> FALSE, pkt |-> IF fr.done THEN cur ELSE None,
         asm |-> IF fr.done THEN [s |-> fr.s, m |-> fr.m + 1, cur |-> None]
                 ELSE [s |-> fr.s, m |-> fr.m, cur |-> cur]]

\* PacketAssembler::push: the new assembler, the packet it completed or None,
\* and whether the frame was refused (an id below the last, another kind, too
\* large).
Push(a, fr) ==
    LET same == a.cur # None /\ fr.s = a.s /\ fr.m = a.m
        cur  == IF same
                THEN [a.cur EXCEPT !.control = @ \/ fr.control, !.data = @ \o fr.data]
                ELSE [s |-> fr.s, m |-> fr.m, kind |-> fr.kind,
                      control |-> fr.control, data |-> fr.data]
        err  == \/ id_less(fr.s, fr.m, a.s, a.m)
                \/ same /\ (fr.kind # a.cur.kind \/ Len(cur.data) > MaxPacket)
    IN  [err |-> err,
         pkt |-> IF ~err /\ fr.done THEN cur ELSE None,
         asm |-> CASE err -> a
                   [] ~err /\ fr.done -> [s |-> fr.s, m |-> fr.m + 1, cur |-> None]
                   [] OTHER -> [s |-> fr.s, m |-> fr.m, cur |-> cur]]

-----------------------------------------------------------------------------
(* The server, as far as the protocol fixes it: external *)

\* The server parses what it is sent; nonsense in its input stays nonsense.
Serve(v, units) ==
    LET b == v.buf \o units
        n == Len(b) \div 2
        ok(i) == Parsed(SubSeq(b, 2 * i - 1, 2 * i)) = "frame"
        opened == {b[2 * i][1].s : i \in {j \in 1..n : ok(j) /\ b[2 * j][1].kind = "INVOKE"}}
    IN  [v EXCEPT !.buf = SubSeq(b, 2 * n + 1, Len(b)),
                  !.garbled = @ \/ \E i \in 1..n : ~ok(i),
                  !.seen = @ \cup opened]

\* What the server may send on a stream: a whole message, one that is too
\* large, the ends of a stream (ERROR stands for CANCEL too: the client tells
\* them apart by their text alone), a control packet, or part of a message it
\* gives up.
Answers ==
    {[kind |-> "MESSAGE", n |-> k, cut |-> FALSE] : k \in {MaxPacket, MaxPacket + 1}}
    \cup {[kind |-> k, n |-> 0, cut |-> FALSE] : k \in {"ERROR", "CLOSE", "CLOSE_SEND", "PING"}}
    \cup {[kind |-> "MESSAGE", n |-> 2, cut |-> TRUE]}

ServerSends ==
    /\ dial = "ok" /\ ~srv.gone /\ srv.left > 0 /\ ~srv.garbled
    /\ \E s \in srv.seen, a \in Answers :
          LET m == IF s = srv.s THEN srv.m + 1 ELSE 1
              fs == Frames(s, m, a.kind, a.kind = "PING", a.n)
              out == IF a.cut THEN SubSeq(fs, 1, 1) ELSE fs
          IN  /\ s >= srv.s /\ s \notin srv.ended
              /\ down' = down \o Units(out)
              /\ srv' = [srv EXCEPT !.s = s, !.m = m, !.left = @ - 1,
                                    !.cut = IF a.cut THEN 1 ELSE 0,
                                    !.huge = @ \/ a.n > MaxPacket,
                                    !.ended = @ \cup (IF a.kind \in {"ERROR", "CLOSE", "CLOSE_SEND"}
                                                      THEN {s} ELSE {})]
              /\ sent' = IF a.kind = "MESSAGE" /\ ~a.cut
                         THEN [sent EXCEPT ![s] = Append(@, <<a.n, m>>)] ELSE sent
    /\ UNCHANGED <<dialVars, clientVars, got>>

\* The node goes away, after a whole frame or inside one.
ServerGone ==
    /\ dial = "ok" /\ ~srv.gone /\ srv.seen # {}
    /\ \E half \in BOOLEAN :
          /\ srv' = [srv EXCEPT !.gone = TRUE, !.cut = IF half THEN 1 ELSE @]
          /\ down' = IF half
                     THEN down \o <<<<Frames(srv.s, srv.m + 1, "MESSAGE", FALSE, 1)[1], 1>>>>
                     ELSE down
    /\ UNCHANGED <<dialVars, clientVars, sent, got>>

-----------------------------------------------------------------------------
(* Calls (conn.rs) *)

\* What each call does, one await after the other.
Steps(call) ==
    CASE call = "invoke"     -> <<"INVOKE", "MESSAGE", "CLOSE_SEND", "flush", "recv", "CLOSE", "flush">>
      [] call = "open"       -> <<"INVOKE", "flush">>
      [] call = "send"       -> <<"drain", "MESSAGE", "flush">>
      [] call = "close_send" -> <<"CLOSE_SEND", "flush">>
      [] call = "close"      -> <<"CLOSE", "flush">>
      [] call = "recv"       -> <<"recv">>

Payloads(kind) == CASE kind = "MESSAGE" -> 2 [] kind = "INVOKE" -> 1 [] OTHER -> 0

IsWrite(step) == step \notin {"flush", "drain", "recv"}

\* Mutant: the flag is raised only when a write fails.
RaisedLate(p) == p

\* write_raw, flush: the flag is up for the whole await.
Raised(p) == TRUE

Flag(todo, p) == IF IsWrite(Head(todo)) \/ Head(todo) = "flush" THEN Raised(p) ELSE p

WireOf(o) == Units(Frames(o.s, o.mid + 1, Head(o.todo), FALSE, Payloads(Head(o.todo))))

\* The caller starts a call: pools hand out only connections that are not
\* poisoned, and a stream is used until a call on it fails.
CallStarts(call) ==
    /\ op = None /\ ~poisoned /\ calls.left > 0 /\ call \in calls.kinds /\ dial \in {"ok", "deferred"}
    /\ call \in {"invoke", "open"} \/ stream # None
    /\ LET new == call \in {"invoke", "open"}
       IN  /\ op' = [call |-> call, s |-> IF new THEN next ELSE stream.s,
                     mid |-> IF new THEN 0 ELSE stream.mid,
                     todo |-> Steps(call), off |-> 0, was |-> FALSE]
           /\ next' = IF new THEN next + 1 ELSE next
    /\ calls' = [calls EXCEPT !.left = @ - 1]
    /\ poisoned' = Flag(Steps(call), FALSE)
    /\ UNCHANGED <<dialVars, serverVars, got, stream, buf, asm, pending, last>>

\* The call returns; a stream survives a call on it that succeeds.
Return(outcome, p) ==
    /\ op' = None
    /\ last' = [call |-> op.call, s |-> op.s, outcome |-> outcome]
    /\ poisoned' = p
    /\ stream' = IF outcome = "ok" /\ op.call \notin {"invoke", "close"}
                 THEN [s |-> op.s, mid |-> op.mid] ELSE None
    /\ UNCHANGED <<next, calls>>

\* On to the next await, or back to the caller.
StepDone(mid) ==
    IF Len(op.todo) = 1
    THEN /\ op' = None
         /\ last' = [call |-> op.call, s |-> op.s, outcome |-> "ok"]
         /\ poisoned' = op.was
         /\ stream' = IF op.call \in {"invoke", "close"} THEN None ELSE [s |-> op.s, mid |-> mid]
         /\ UNCHANGED <<next, calls>>
    ELSE /\ op' = [op EXCEPT !.todo = Tail(@), !.mid = mid, !.off = 0]
         /\ poisoned' = Flag(Tail(op.todo), op.was)
         /\ UNCHANGED <<next, calls, last, stream>>

\* write_packet_data: the transport takes some of the packet (bound: one unit,
\* or all that is left).  A deferred
\* transport takes the whole first write as the handshake's payload.
Writes ==
    /\ op # None /\ IsWrite(Head(op.todo))
    /\ LET wire == WireOf(op)
           rest == Len(wire) - op.off
       IN  \E n \in {1, rest} :
              /\ \/ dial = "ok" /\ UNCHANGED dialVars
                 \/ FirstUse /\ n = rest
              /\ srv' = Serve(srv, SubSeq(wire, op.off + 1, op.off + n))
              /\ IF n = rest THEN StepDone(op.mid + 1)
                 ELSE /\ op' = [op EXCEPT !.off = @ + n]
                      /\ UNCHANGED <<poisoned, next, calls, last, stream>>
    /\ UNCHANGED <<down, sent, got, buf, asm, pending>>

Flushes ==
    /\ op # None /\ Head(op.todo) = "flush" /\ dial = "ok"
    /\ StepDone(op.mid)
    /\ UNCHANGED <<dialVars, serverVars, got, buf, asm, pending>>

\* An await fails: the deferred dial did, or the transport of a node that is
\* gone.
IoFails ==
    /\ op # None /\ (IsWrite(Head(op.todo)) \/ Head(op.todo) = "flush")
    /\ dial = "err" \/ srv.gone
    /\ Return("io", TRUE)
    /\ UNCHANGED <<dialVars, serverVars, got, buf, asm, pending>>

\* Mutant: reads have no deadline.
TimesOutWrites ==
    /\ op # None /\ Head(op.todo) \notin {"drain", "recv"}
    /\ Return("timeout", TRUE)
    /\ UNCHANGED <<dialVars, serverVars, got, buf, asm, pending>>

\* timed: the deadline of one read or write.  A read has one of its own, and
\* it has waited it out.
TimesOut ==
    /\ op # None /\ Head(op.todo) # "drain"
    /\ Head(op.todo) = "recv" => waited
    /\ Return("timeout", TRUE)
    /\ UNCHANGED <<dialVars, serverVars, got, buf, asm, pending>>

\* The caller drops the future at an await: nothing runs after it.
Cancel ==
    /\ op # None /\ Head(op.todo) # "drain"
    /\ Return("cancelled", poisoned)
    /\ UNCHANGED <<dialVars, serverVars, got, buf, asm, pending>>

-----------------------------------------------------------------------------
(* Reading *)

HasFrame == Parsed(buf) = "frame"

\* fill: what has arrived, or a first part of it (bound: one unit).
Fill(n) ==
    /\ buf' = buf \o SubSeq(down, 1, n)
    /\ down' = SubSeq(down, n + 1, Len(down))

\* The end of the transport: clean only with nothing half-read.
eof_error == IF buf = <<>> /\ asm.cur = None THEN "closed" ELSE "truncated"

\* recv_msg, invoke: what a packet means to the call that reads it.
Meaning(pkt) ==
    CASE pkt.s < op.s -> "skip"
      [] pkt.s > op.s -> "unexpected"
      [] pkt.s = op.s /\ pkt.kind = "MESSAGE" -> "deliver"
      [] pkt.s = op.s /\ pkt.kind = "ERROR" -> "remote"
      [] pkt.s = op.s /\ pkt.kind \in {"CLOSE", "CLOSE_SEND"} -> "closed"
      [] OTHER -> IF pkt.control THEN "skip" ELSE "unexpected"

Handle(pkt) ==
    CASE Meaning(pkt) = "skip" -> UNCHANGED <<op, stream, next, poisoned, calls, last, got>>
      [] Meaning(pkt) = "deliver" ->
            /\ got' = [got EXCEPT ![op.s] = Append(@, pkt.data)]
            /\ StepDone(op.mid)
      [] OTHER -> Return(Meaning(pkt), poisoned) /\ UNCHANGED got

\* read_packet: the queue first, then the buffer, then the transport.
RecvQueued ==
    /\ op # None /\ Head(op.todo) = "recv" /\ pending # <<>>
    /\ pending' = Tail(pending)
    /\ Handle(Head(pending))
    /\ UNCHANGED <<dialVars, serverVars, buf, asm>>

\* parse_one takes a frame off the buffer and gives it to the assembler.
Taken == Push(asm, buf[1][1])

parse_one ==
    /\ HasFrame
    /\ buf' = SubSeq(buf, 3, Len(buf))
    /\ asm' = Taken.asm

RecvParses ==
    /\ op # None /\ Head(op.todo) = "recv" /\ pending = <<>>
    /\ parse_one
    /\ CASE Taken.err -> Return("frame", poisoned) /\ UNCHANGED got
         [] Taken.pkt # None -> Handle(Taken.pkt)
         [] OTHER -> UNCHANGED <<op, stream, next, poisoned, calls, last, got>>
    /\ UNCHANGED <<dialVars, serverVars, pending>>

RecvReads ==
    /\ op # None /\ Head(op.todo) = "recv" /\ pending = <<>> /\ ~HasFrame
    /\ \/ /\ \E n \in {1, Len(down)} : down # <<>> /\ Fill(n)
          /\ UNCHANGED <<op, stream, next, poisoned, calls, last>>
       \/ /\ down = <<>> /\ srv.gone
          /\ Return(eof_error, poisoned)
          /\ UNCHANGED <<down, buf>>
    /\ UNCHANGED <<dialVars, srv, sent, got, asm, pending>>

\* A read with nothing to return waits, and its deadline comes near.
Reading ==
    /\ op # None /\ Head(op.todo) = "recv"
    /\ pending = <<>> /\ ~HasFrame /\ down = <<>>

DeadlineNears ==
    /\ Reading /\ ~waited
    /\ waited' = TRUE
    /\ UNCHANGED connVars

\* The loop of recv_msg and invoke meets a control packet, between messages:
\* it reads on, with a new deadline.  Bound: this packet takes no id, so that
\* a server can send it for ever.
PeerPings ==
    /\ Reading /\ waited
    /\ dial = "ok" /\ ~srv.gone /\ ~srv.garbled
    /\ op.s \in srv.seen \ srv.ended /\ op.s >= srv.s
    /\ buf = <<>> /\ asm.cur = None
    /\ waited' = FALSE
    /\ UNCHANGED connVars

-----------------------------------------------------------------------------
(* drain_ready, and the answer send_msg gives after it *)

\* The payload of the first packets of a queue, for each number of them.
Sums(q) ==
    LET sum[i \in 0..Len(q)] == IF i = 0 THEN 0 ELSE sum[i - 1] + Len(q[i].data)
    IN sum

Bytes(q) == Sums(q)[Len(q)]
Queued == Bytes(pending)

\* Mutant: the bound on the number of packets is forgotten.
FullBytesOnly == Queued >= HighWater

Full == Queued >= HighWater \/ Len(pending) >= MaxPending

Draining == op # None /\ Head(op.todo) = "drain"

\* peer_terminated: an end the peer has already sent for this stream.
Terminated == \E i \in DOMAIN pending : pending[i].s = op.s /\
                 pending[i].kind \in {"ERROR", "CLOSE"}

\* The probe is over; a queued end of the stream beats what it found.
Drained(found) ==
    IF Terminated THEN Return("terminated", poisoned)
    ELSE IF found # "ok" THEN Return(found, poisoned)
    ELSE StepDone(op.mid)

DrainParses ==
    /\ Draining /\ ~Full
    /\ parse_one
    /\ pending' = IF Taken.pkt # None THEN Append(pending, Taken.pkt) ELSE pending
    /\ IF Taken.err THEN Drained("frame")
       ELSE UNCHANGED <<op, stream, next, poisoned, calls, last>>
    /\ UNCHANGED <<dialVars, serverVars, got>>

DrainReads ==
    /\ Draining /\ ~Full /\ ~HasFrame
    /\ \E n \in {1, Len(down)} : down # <<>> /\ Fill(n)
    /\ UNCHANGED <<dialVars, srv, sent, got, asm, pending, op, stream, next, poisoned, calls, last>>

DrainEnds ==
    /\ Draining
    /\ \/ Full /\ Drained("ok")
       \/ ~Full /\ ~HasFrame /\ down = <<>> /\ Drained(IF srv.gone THEN eof_error ELSE "ok")
    /\ UNCHANGED <<dialVars, serverVars, got, buf, asm, pending>>

-----------------------------------------------------------------------------
(* The connection: its dial, its calls, its server *)

ConnInit ==
    /\ DialInit
    /\ \E budget \in Budgets \cup {NoCall, OneCall} :
          /\ CASE budget \in Budgets ->
                    plan.via = "Tcp" /\ \A l \in DOMAIN peer : peer[l] = "node"
               [] budget = OneCall ->
                    /\ plan.early /\ ~plan.fast
                    /\ \E p \in {"node", "refuses", "silent"} : \A l \in DOMAIN peer : peer[l] = p
               [] OTHER -> TRUE
          /\ calls = [left |-> budget.calls, kinds |-> budget.kinds]
          /\ srv = [buf |-> <<>>, garbled |-> FALSE, seen |-> {}, s |-> 0, m |-> 0, ended |-> {},
                    left |-> budget.replies, cut |-> 0, huge |-> FALSE, gone |-> FALSE]
    /\ op = None /\ stream = None /\ next = 1 /\ poisoned = FALSE
    /\ buf = <<>> /\ asm = NewAssembler /\ pending = <<>>
    /\ last = [call |-> None, s |-> 0, outcome |-> None]
    /\ down = <<>>
    /\ sent = [s \in Streams |-> <<>>] /\ got = [s \in Streams |-> <<>>]

\* A deferred dial runs only while a call polls it.
DialMoves ==
    /\ dial = "run" \/ (dial = "deferred" /\ op # None)
    /\ DialStep \/ (Tick /\ calls.left < 2)
    /\ UNCHANGED <<clientVars, serverVars, got>>

\* The caller drops the dial, or the connection between two calls.
Dropped ==
    /\ op = None /\ DialDropped
    /\ UNCHANGED <<clientVars, serverVars, got>>

CallMoves ==
    \/ Writes \/ Flushes \/ IoFails
    \/ RecvQueued \/ RecvParses \/ RecvReads
    \/ DrainParses \/ DrainReads \/ DrainEnds

\* Nothing has to happen between two calls.
Rest == op = None /\ dial # "run" /\ UNCHANGED connVars

ConnNext ==
    \/ DialMoves \/ Dropped
    \/ \E c \in Calls : CallStarts(c)
    \/ CallMoves \/ TimesOut \/ Cancel
    \/ ServerSends \/ ServerGone
    \/ Rest

\* The read in progress goes on as long as the call and its buffers are left
\* alone; the next one has a new deadline.
SameRead == waited' = (waited /\ UNCHANGED <<op, buf, pending>>)

TimedNext ==
    \/ ConnNext /\ SameRead
    \/ DeadlineNears \/ PeerPings

\* The runtime polls the dial and the call, and fires their timers; nothing
\* is asked of the server, of the network or of the caller.
Runtime ==
    \/ /\ \/ DialMoves \/ TimesOut
          \/ RecvQueued \/ RecvParses \/ RecvReads
          \/ DrainParses \/ DrainReads \/ DrainEnds
       /\ SameRead
    \/ DeadlineNears

TimedInit == ConnInit /\ waited = FALSE

ConnSpec ==
    /\ TimedInit
    /\ [][TimedNext]_timedVars /\ WF_timedVars(Runtime)

-----------------------------------------------------------------------------
(* Properties *)

\* A server never reads nonsense: a connection on which a write was torn, by
\* a deadline or by a dropped future, is not used again (Conn::is_poisoned).
NeverGarbled == ~srv.garbled

\* What a caller reads is what the server sent, whole and in order: no message
\* is lost, mixed with one that was given up, or taken from another stream.  A
\* stream is reported ended only when nothing of it is missing, and an honest
\* server is never accused.
ReadsExact ==
    /\ \A s \in Streams :
          /\ Len(got[s]) <= Len(sent[s])
          /\ \A i \in DOMAIN got[s] :
                got[s][i] = [k \in 1..sent[s][i][1] |-> <<s, sent[s][i][2], k>>]
    /\ last.call \in {"recv", "invoke"} =>
          /\ last.outcome = "closed" =>
                /\ Len(got[last.s]) = Len(sent[last.s])
                /\ last.s \notin srv.ended => srv.cut = 0
          /\ last.outcome = "truncated" => srv.gone /\ (srv.cut = 1 \/ srv.huge)
    /\ last.outcome = "frame" => srv.huge
    /\ last.outcome # "unexpected"

\* The probe of a sender that never reads keeps less than a packet above the
\* high-water mark, and no more packets than their bound, whatever is sent.
QueueBounded == Queued < HighWater + MaxPacket /\ Len(pending) <= MaxPending

\* Every dial and every call comes back, also with a silent server, unless the
\* server goes on sending for ever: each read has a deadline of its own (timed
\* in read_packet), and a packet that is skipped starts another read.
ConnCallsEnd ==
    \/ (dial = "run" \/ op # None) ~> (dial # "run" /\ op = None)
    \/ []<><<PeerPings \/ ServerSends>>_timedVars
=============================================================================
