--------------------------- MODULE MetainfoClient ---------------------------
(***************************************************************************)
(* The satellite client: concurrent calls share a bounded set of           *)
(* connections, retry what may be retried, and recycle healthy connections *)
(* (storj/src/metainfo.rs, invoke_with, invoke_once, close), each speaking *)
(* the unary DRPC exchange of storj-rpc/src/conn.rs (Conn::invoke).        *)
(*                                                                         *)
(* A connection delivers the satellite's packets in order.  After an       *)
(* answer the satellite also closes the stream, so a recycled connection   *)
(* starts with a packet of the call before.  Sends, reads and dials may    *)
(* fail or time out, and a caller may drop its future at any await.        *)
(***************************************************************************)
EXTENDS Naturals, Sequences, FiniteSets, SequencesExt

CONSTANTS Calls,        \* calls made through the client
          Idempotent,   \* those of them that are reads or listings
          Conns,        \* identities of connections, reused when one is dropped
          MaxConns,     \* MAX_SATELLITE_CONNS (8 in the code)
          MaxAttempts,  \* SATELLITE_ATTEMPTS (3 in the code)
          NoCall, NoConn

\* A client makes finitely many calls, and there are identities enough for the
\* connections it may have at a time.
ASSUME MetainfoAssumption ==
    /\ IsFiniteSet(Calls)
    /\ Idempotent \subseteq Calls
    /\ IsFiniteSet(Conns)
    /\ MaxConns \in Nat \ {0}
    /\ Cardinality(Conns) >= MaxConns
    /\ MaxAttempts \in Nat \ {0}
    /\ NoCall \notin Calls
    /\ NoConn \notin Conns

VARIABLES
    pc,       \* where each call is
    attempt,  \* attempts each call has begun
    conn,     \* the connection each call holds
    stream,   \* the stream id of its exchange
    queue,    \* calls waiting for a permit of `slots`, in order
    idle,     \* the idle connections, last in first out
    link,     \* each live connection: next stream id, request under way, packets to read
    applied,  \* satellite: how often each call's request was applied
    decided   \* history: the call whose packet decided each call's last exchange

vars == <<pc, attempt, conn, stream, queue, idle, link, applied, decided>>

Done == {"ok", "err", "cancelled"}
Holding == {"dialing", "sending", "reading", "closing"}

NoLink == [next |-> 0, request |-> NoCall, packets |-> <<>>]
NewLink == [next |-> 1, request |-> NoCall, packets |-> <<>>]

Live == {k \in Conns : link[k] # NoLink}

\* Mutant: a dropped future keeps its permit.
HoldersAbandoned == {c \in Calls : pc[c] \in Holding \cup {"cancelled"}}

Holders == {c \in Calls : pc[c] \in Holding}

\* Connections are told apart by nothing but their state: which identity a new
\* one takes is arbitrary.
FreshConn == CHOOSE k \in Conns : k \notin Live
FirstConn == CHOOSE k \in Conns : TRUE

\* connect dials one connection before the client is shared.
Init ==
    /\ pc = [c \in Calls |-> "new"]
    /\ attempt = [c \in Calls |-> 0]
    /\ conn = [c \in Calls |-> NoConn]
    /\ stream = [c \in Calls |-> 0]
    /\ queue = <<>>
    /\ idle = <<FirstConn>>
    /\ link = [k \in Conns |-> IF k = FirstConn THEN NewLink ELSE NoLink]
    /\ applied = [c \in Calls |-> 0]
    /\ decided = [c \in Calls |-> NoCall]

-----------------------------------------------------------------------------
(* Permits and connections *)

Wait(c) == queue' = Append(queue, c)

Call(c) ==
    /\ pc[c] = "new"
    /\ pc' = [pc EXCEPT ![c] = "waiting"]
    /\ Wait(c)
    /\ UNCHANGED <<attempt, conn, stream, idle, link, applied, decided>>

PermitFree == Cardinality(Holders) < MaxConns

\* The first waiter gets a permit, and the most recently used idle connection
\* or the task to dial one.
Acquire ==
    /\ queue # <<>>
    /\ PermitFree
    /\ LET c == Head(queue) IN
          /\ attempt' = [attempt EXCEPT ![c] = @ + 1]
          /\ IF idle = <<>>
             THEN /\ pc' = [pc EXCEPT ![c] = "dialing"]
                  /\ UNCHANGED <<conn, idle>>
             ELSE /\ pc' = [pc EXCEPT ![c] = "sending"]
                  /\ conn' = [conn EXCEPT ![c] = Last(idle)]
                  /\ idle' = Front(idle)
    /\ queue' = Tail(queue)
    /\ UNCHANGED <<stream, link, applied, decided>>

\* A dropped connection takes its packets with it.  A request under way on it
\* reaches the satellite or not.
Drop(k) ==
    /\ link' = [link EXCEPT ![k] = NoLink]
    /\ IF link[k].request \in Calls
       THEN applied' \in {applied, [applied EXCEPT ![link[k].request] = @ + 1]}
       ELSE UNCHANGED applied

\* Mutant: every failed call is tried again.
MayRetryAll(c) == attempt[c] < MaxAttempts

MayRetry(c) == c \in Idempotent /\ attempt[c] < MaxAttempts

\* Where a failed attempt leaves call c.
AfterFailure(c, retryable) == IF retryable /\ MayRetry(c) THEN "backoff" ELSE "err"

\* An attempt failed without leaving a usable connection.
FailDead(c, retryable) ==
    /\ pc' = [pc EXCEPT ![c] = AfterFailure(c, retryable)]
    /\ conn' = [conn EXCEPT ![c] = NoConn]
    /\ IF conn[c] = NoConn THEN UNCHANGED <<link, applied>> ELSE Drop(conn[c])
    /\ UNCHANGED <<attempt, queue, idle>>

\* The call is over with its connection intact: back to the idle ones.
Recycle(c, where) ==
    /\ pc' = [pc EXCEPT ![c] = where]
    /\ conn' = [conn EXCEPT ![c] = NoConn]
    /\ idle' = Append(idle, conn[c])

DialEnds(c) ==
    /\ pc[c] = "dialing"
    /\ \/ /\ conn' = [conn EXCEPT ![c] = FreshConn]
          /\ link' = [link EXCEPT ![FreshConn] = NewLink]
          /\ pc' = [pc EXCEPT ![c] = "sending"]
          /\ UNCHANGED <<attempt, queue, idle, applied>>
       \/ FailDead(c, TRUE)
    /\ UNCHANGED <<stream, decided>>

\* The backoff before another attempt is over.
BackoffEnds(c) ==
    /\ pc[c] = "backoff"
    /\ pc' = [pc EXCEPT ![c] = "waiting"]
    /\ Wait(c)
    /\ UNCHANGED <<attempt, conn, stream, idle, link, applied, decided>>

-----------------------------------------------------------------------------
(* Conn::invoke *)

\* Invoke, Message and CloseSend are written and flushed on a new stream.
Send(c) ==
    /\ pc[c] = "sending"
    /\ LET k == conn[c] IN
          /\ stream' = [stream EXCEPT ![c] = link[k].next]
          /\ link' = [link EXCEPT ![k].next = @ + 1, ![k].request = c]
    /\ pc' = [pc EXCEPT ![c] = "reading"]
    /\ decided' = [decided EXCEPT ![c] = NoCall]
    /\ UNCHANGED <<attempt, conn, queue, idle, applied>>

\* Writing fails or times out: the connection is poisoned.  The satellite may
\* have got the whole request all the same.
SendFails(c) ==
    /\ pc[c] = "sending"
    /\ pc' = [pc EXCEPT ![c] = AfterFailure(c, TRUE)]
    /\ conn' = [conn EXCEPT ![c] = NoConn]
    /\ link' = [link EXCEPT ![conn[c]] = NoLink]
    /\ applied' \in {applied, [applied EXCEPT ![c] = @ + 1]}
    /\ UNCHANGED <<attempt, stream, queue, idle, decided>>

\* The satellite (external) answers the request of connection k: it applies it
\* and closes the stream after the answer, or refuses it.
Serve(k) ==
    /\ link[k].request \in Calls
    /\ LET c == link[k].request
           packet(kind) == [stream |-> link[k].next - 1, kind |-> kind, call |-> c]
       IN  \/ /\ link' = [link EXCEPT ![k].request = NoCall,
                            ![k].packets = @ \o <<packet("message"), packet("close")>>]
              /\ applied' = [applied EXCEPT ![c] = @ + 1]
           \/ /\ link' = [link EXCEPT ![k].request = NoCall,
                            ![k].packets = Append(@, packet("error"))]
              /\ UNCHANGED applied
    /\ UNCHANGED <<pc, attempt, conn, stream, queue, idle, decided>>

\* A packet of an earlier call on the connection.
Stale(c, p) == p.stream < stream[c]

\* The next packet is read.  A stale one is skipped; an answer is followed by
\* the write of Close; an error is the satellite's, retryable or not, and
\* leaves the connection usable; a close without an answer does not.
ReadPacket(c) ==
    /\ pc[c] = "reading"
    /\ link[conn[c]].packets # <<>>
    /\ LET k == conn[c]
           p == Head(link[k].packets)
           rest == [link EXCEPT ![k].packets = Tail(@)]
       IN  IF Stale(c, p)
           THEN /\ link' = rest
                /\ UNCHANGED <<pc, attempt, conn, queue, idle, applied, decided>>
           ELSE /\ decided' = [decided EXCEPT ![c] = p.call]
                /\ CASE p.kind = "message" ->
                          /\ pc' = [pc EXCEPT ![c] = "closing"]
                          /\ link' = rest
                          /\ UNCHANGED <<attempt, conn, queue, idle, applied>>
                     [] p.kind = "error" ->
                          /\ \E retryable \in BOOLEAN : Recycle(c, AfterFailure(c, retryable))
                          /\ link' = rest
                          /\ UNCHANGED <<attempt, queue, applied>>
                     [] OTHER -> FailDead(c, TRUE)
    /\ UNCHANGED stream

\* The read times out, ends the stream, or cannot be parsed (not retryable).
ReadFails(c) ==
    /\ pc[c] = "reading"
    /\ \E retryable \in BOOLEAN : FailDead(c, retryable)
    /\ UNCHANGED <<stream, decided>>

\* Close is written and the call returns its answer.
CloseWritten(c) ==
    /\ pc[c] = "closing"
    /\ Recycle(c, "ok")
    /\ UNCHANGED <<attempt, stream, queue, link, applied, decided>>

\* Close cannot be written: the answer is lost with the connection.
CloseFails(c) ==
    /\ pc[c] = "closing"
    /\ FailDead(c, TRUE)
    /\ UNCHANGED <<stream, decided>>

-----------------------------------------------------------------------------
(* Cancellation and close *)

\* A future that is dropped drops the connection it holds.
Abandon(c) ==
    IF conn[c] = NoConn THEN UNCHANGED <<idle, link, applied>>
    ELSE Drop(conn[c]) /\ UNCHANGED idle

\* The caller drops its future at an await.
Cancel(c) ==
    /\ pc[c] \in Holding \cup {"waiting", "backoff"}
    /\ pc' = [pc EXCEPT ![c] = "cancelled"]
    /\ conn' = [conn EXCEPT ![c] = NoConn]
    /\ queue' = RemoveFirst(queue, c)
    /\ Abandon(c)
    /\ UNCHANGED <<attempt, stream, decided>>

\* MetainfoClient::close: the idle connections are dropped.  Calls under way
\* keep theirs.
Close ==
    /\ idle # <<>>
    /\ link' = [k \in Conns |-> IF k \in Range(idle) THEN NoLink ELSE link[k]]
    /\ idle' = <<>>
    /\ UNCHANGED <<pc, attempt, conn, stream, queue, applied, decided>>

Idle == (\A c \in Calls : pc[c] \in Done) /\ UNCHANGED vars

-----------------------------------------------------------------------------
Next ==
    \/ Acquire
    \/ Close
    \/ Idle
    \/ \E c \in Calls : Call(c)
    \/ \E c \in Calls : DialEnds(c)
    \/ \E c \in Calls : BackoffEnds(c)
    \/ \E c \in Calls : Send(c)
    \/ \E c \in Calls : SendFails(c)
    \/ \E c \in Calls : ReadPacket(c)
    \/ \E c \in Calls : ReadFails(c)
    \/ \E c \in Calls : CloseWritten(c)
    \/ \E c \in Calls : CloseFails(c)
    \/ \E c \in Calls : Cancel(c)
    \/ \E k \in Conns : Serve(k)

Spec == Init /\ [][Next]_vars

\* Permits are handed out in order; dials, writes and reads have deadlines, the
\* backoff ends and the caller's task is polled.  Nothing is assumed of the
\* satellite or of callers.
FairSpec ==
    /\ Spec
    /\ WF_vars(Acquire)
    /\ \A c \in Calls :
          WF_vars(DialEnds(c) \/ BackoffEnds(c) \/ Send(c) \/ SendFails(c)
                  \/ ReadPacket(c) \/ ReadFails(c) \/ CloseWritten(c) \/ CloseFails(c))

-----------------------------------------------------------------------------
(* Properties *)

\* The semaphore caps in-flight and idle connections together, although idle
\* ones hold no permit: dialed only when none is idle, a connection that comes
\* back finds its place.
ConnCap ==
    Cardinality(Live) + Cardinality({c \in Calls : pc[c] = "dialing"}) <= MaxConns

\* A mutating request is applied at most once, whatever was lost, and a call
\* that succeeded was applied.
AppliedOnce ==
    /\ \A c \in Calls \ Idempotent : applied[c] <= 1
    /\ \A c \in Calls : pc[c] = "ok" => applied[c] >= 1

\* Every exchange is decided by a packet that answers it: a recycled connection
\* never hands a call what was meant for another.
OwnAnswer == \A c \in Calls : decided[c] \in {NoCall, c}

\* invoke_with and the connection pool behind it: a request is applied at most
\* once and answered by its own answer, over no more connections than allowed.
CallsExact ==
    /\ AppliedOnce
    /\ OwnAnswer
    /\ ConnCap

\* Every call ends, also when the satellite never answers and others hold
\* every permit.
CallsReturn == \A c \in Calls : pc[c] = "waiting" ~> pc[c] \in Done
=============================================================================
