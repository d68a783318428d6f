------------------------ MODULE MetainfoClientProofs ------------------------
(***************************************************************************)
(* Proofs about MetainfoClient for any number of calls and connections.    *)
(*                                                                         *)
(* CallsExact is not inductive: that an answer belongs to the call that    *)
(* reads it rests on who owns a connection (Ownership) and on how stream   *)
(* ids grow along it (Wire); that a request is applied once on where it    *)
(* can still be (AppliedExact); and the cap on permits and idle            *)
(* connections being counted together (Permits).                           *)
(***************************************************************************)
EXTENDS MetainfoClient, FiniteSetTheorems, SequenceTheorems, TLAPS

Attached == {"sending", "reading", "closing"}
PcStates == Done \cup Holding \cup {"new", "waiting", "backoff"}
Packet == [stream : Nat, kind : {"message", "close", "error"}, call : Calls]
Requests == Calls \cup {NoCall}
Link == [next : Nat, request : Requests, packets : Seq(Packet)]

\* The types of the client's and of the satellite's state.
TypeOK ==
    /\ pc \in [Calls -> PcStates]
    /\ attempt \in [Calls -> Nat]
    /\ conn \in [Calls -> Conns \cup {NoConn}]
    /\ stream \in [Calls -> Nat]
    /\ queue \in Seq(Calls)
    /\ idle \in Seq(Conns)
    /\ link \in [Conns -> Link]
    /\ applied \in [Calls -> Nat]
    /\ decided \in [Calls -> Calls \cup {NoCall}]

\* A live connection is held by one call, from the end of its dial to its
\* return, or is idle once.
Ownership ==
    /\ \A c \in Calls : conn[c] \in Conns <=> pc[c] \in Attached
    /\ \A c, d \in Calls : conn[c] = conn[d] /\ conn[c] \in Conns => c = d
    /\ \A i, j \in 1..Len(idle) : idle[i] = idle[j] => i = j
    /\ \A c \in Calls, i \in 1..Len(idle) : conn[c] # idle[i]
    /\ \A c \in Calls : conn[c] \in Conns => link[conn[c]].next > 0
    /\ \A i \in 1..Len(idle) : link[idle[i]].next > 0
    /\ \A k \in Conns : link[k] # NoLink =>
          (\E c \in Calls : conn[c] = k) \/ (\E i \in 1..Len(idle) : idle[i] = k)

\* The queue of the semaphore holds waiting calls, each once.
Queueing ==
    /\ \A i \in 1..Len(queue) : pc[queue[i]] = "waiting"
    /\ \A i, j \in 1..Len(queue) : queue[i] = queue[j] => i = j

\* An idle connection keeps the place of the permit it came back with.
Permits == Cardinality(Holders) + Len(idle) <= MaxConns

\* A request under way is the last exchange of its connection's reader, every
\* packet belongs to an exchange that was started, and those of the exchange
\* under way to its reader, after the request is gone.
Wire ==
    /\ \A c \in Calls : pc[c] = "reading" => stream[c] = link[conn[c]].next - 1
    /\ \A k \in Conns : link[k].request \in Calls =>
          pc[link[k].request] = "reading" /\ conn[link[k].request] = k
    /\ \A k \in Conns : \A i \in 1..Len(link[k].packets) :
          LET p == link[k].packets[i] IN
          /\ p.stream < link[k].next
          /\ p.stream = link[k].next - 1 => link[k].request = NoCall
          /\ \A c \in Calls : pc[c] = "reading" /\ conn[c] = k /\ p.stream = stream[c] => p.call = c

\* A mutating call's request is in one place at a time and never sent again;
\* an answer is of a request that was applied.
AppliedExact ==
    /\ \A c \in Calls \ Idempotent :
          /\ pc[c] # "backoff"
          /\ applied[c] <= 1
          /\ pc[c] \in {"new", "waiting", "dialing", "sending"} => applied[c] = 0
          /\ \A k \in Conns : link[k].request = c => applied[c] = 0
    /\ \A k \in Conns : \A i \in 1..Len(link[k].packets) :
          link[k].packets[i].kind = "message" => applied[link[k].packets[i].call] >= 1
    /\ \A c \in Calls : pc[c] \in {"closing", "ok"} => applied[c] >= 1

\* The inductive invariant.
Inv ==
    /\ TypeOK
    /\ Ownership
    /\ Queueing
    /\ Permits
    /\ Wire
    /\ AppliedExact
    /\ OwnAnswer

HoldersOf(f) == {c \in Calls : f[c] \in Holding}

-----------------------------------------------------------------------------
(* Lemmas *)

\* Every action leaves the constants' sets as they are, and the sentinels
\* outside of them.
LEMMA Sentinels ==
    /\ NoCall \notin Calls
    /\ NoConn \notin Conns
    /\ NoLink \in Link /\ NoLink.next = 0 /\ NoLink.request = NoCall /\ NoLink.packets = <<>>
    /\ NewLink \in Link /\ NewLink.next = 1 /\ NewLink.request = NoCall /\ NewLink.packets = <<>>
  BY MetainfoAssumption DEF Link, Requests, NoLink, NewLink

\* A call that takes a permit is one more holder; one that gives it back, one
\* less.
LEMMA HolderChange ==
    ASSUME NEW f \in [Calls -> PcStates], NEW c \in Calls, NEW v \in PcStates
    PROVE  LET g == [f EXCEPT ![c] = v] IN
           /\ Cardinality(HoldersOf(f)) \in Nat
           /\ f[c] \notin Holding /\ v \in Holding =>
                 Cardinality(HoldersOf(g)) = Cardinality(HoldersOf(f)) + 1
           /\ f[c] \in Holding /\ v \notin Holding =>
                 Cardinality(HoldersOf(g)) = Cardinality(HoldersOf(f)) - 1
           /\ (f[c] \in Holding <=> v \in Holding) =>
                 Cardinality(HoldersOf(g)) = Cardinality(HoldersOf(f))
  <1> DEFINE g == [f EXCEPT ![c] = v]
  <1>1. IsFiniteSet(HoldersOf(f)) /\ Cardinality(HoldersOf(f)) \in Nat
    BY MetainfoAssumption, FS_Subset, FS_CardinalityType DEF HoldersOf
  <1>2. ASSUME f[c] \notin Holding, v \in Holding
        PROVE  Cardinality(HoldersOf(g)) = Cardinality(HoldersOf(f)) + 1
    <2>1. HoldersOf(g) = HoldersOf(f) \cup {c} /\ c \notin HoldersOf(f)
      BY <1>2 DEF HoldersOf
    <2> QED BY <1>1, <2>1, FS_AddElement
  <1>3. ASSUME f[c] \in Holding, v \notin Holding
        PROVE  Cardinality(HoldersOf(g)) = Cardinality(HoldersOf(f)) - 1
    <2>1. HoldersOf(g) = HoldersOf(f) \ {c} /\ c \in HoldersOf(f)
      BY <1>3 DEF HoldersOf
    <2> QED BY <1>1, <2>1, FS_RemoveElement
  <1>4. ASSUME f[c] \in Holding <=> v \in Holding
        PROVE  Cardinality(HoldersOf(g)) = Cardinality(HoldersOf(f))
    <2>1. HoldersOf(g) = HoldersOf(f)
      BY <1>4 DEF HoldersOf
    <2> QED BY <2>1
  <1> QED BY <1>1, <1>2, <1>3, <1>4

\* There are finitely many holders.
LEMMA HolderNat ==
    ASSUME TypeOK PROVE Cardinality(Holders) \in Nat
  <1>1. Holders \in SUBSET Calls
    BY DEF Holders
  <1> QED BY <1>1, MetainfoAssumption, FS_Subset, FS_CardinalityType

\* A sequence without its last element.
LEMMA FrontProps ==
    ASSUME NEW S, NEW s \in Seq(S), s # <<>>
    PROVE  /\ Len(s) \in Nat /\ Len(s) > 0 /\ s[Len(s)] \in S
           /\ Front(s) \in Seq(S)
           /\ Len(Front(s)) = Len(s) - 1
           /\ \A i \in 1..Len(Front(s)) : Front(s)[i] = s[i]
  <1>1. Len(s) \in Nat /\ Len(s) > 0 /\ \A i \in 1..Len(s) : s[i] \in S
    BY EmptySeq, LenProperties
  <1> DEFINE n == Len(s) - 1
  <1>2. n \in Nat /\ \A i \in 1..n : s[i] \in S
    BY <1>1
  <1> HIDE DEF n
  <1>3. /\ SubSeq(s, 1, n) \in Seq(S)
        /\ Len(SubSeq(s, 1, n)) = n
        /\ \A i \in 1..n : SubSeq(s, 1, n)[i] = s[i]
    BY <1>2, SubSeqProperties
  <1> QED BY <1>1, <1>3 DEF Front, n

\* What the queue of the semaphore is after a waiter leaves it.
LEMMA RemoveFirstProps ==
    ASSUME NEW q \in Seq(Calls), NEW c \in Calls,
           \A i, j \in 1..Len(q) : q[i] = q[j] => i = j
    PROVE  LET r == RemoveFirst(q, c) IN
           /\ r \in Seq(Calls)
           /\ \A i \in 1..Len(r) : r[i] # c /\ \E j \in 1..Len(q) : r[i] = q[j]
           /\ \A i, j \in 1..Len(r) : r[i] = r[j] => i = j
  <1>1. CASE ~ \E i \in 1..Len(q) : q[i] = c
    BY <1>1 DEF RemoveFirst
  <1>2. CASE \E i \in 1..Len(q) : q[i] = c
    <2> DEFINE I == {i \in 1..Len(q) : q[i] = c}
    <2>1. PICK n \in 1..Len(q) : q[n] = c
      BY <1>2
    <2>2. I = {n}
      BY <2>1
    <2>3. Min({n}) = n
      BY <2>1 DEF Min
    <2>4. RemoveFirst(q, c) = SubSeq(q, 1, n - 1) \o SubSeq(q, n + 1, Len(q))
      BY <1>2, <2>2, <2>3 DEF RemoveFirst, RemoveAt, SelectInSeq
    <2> DEFINE a == SubSeq(q, 1, n - 1)
               b == SubSeq(q, n + 1, Len(q))
    <2>5. /\ a \in Seq(Calls) /\ Len(a) = n - 1 /\ \A i \in 1..Len(a) : a[i] = q[i]
          /\ b \in Seq(Calls) /\ Len(b) = Len(q) - n /\ \A i \in 1..Len(b) : b[i] = q[n + i]
      OBVIOUS
    <2> HIDE DEF a, b
    <2> DEFINE r == a \o b
    <2>6. r \in Seq(Calls) /\ Len(r) = Len(q) - 1
      BY <2>5
    <2>7. \A i \in 1..Len(r) : r[i] = IF i < n THEN q[i] ELSE q[i + 1]
      BY <2>5
    <2> HIDE DEF r
    <2>8. \A i \in 1..Len(r) : r[i] # c /\ \E j \in 1..Len(q) : r[i] = q[j]
      BY <2>1, <2>6, <2>7
    <2>9. \A i, j \in 1..Len(r) : r[i] = r[j] => i = j
      BY <2>1, <2>6, <2>7
    <2> QED BY <2>4, <2>6, <2>8, <2>9 DEF r, a, b
  <1> QED BY <1>1, <1>2

-----------------------------------------------------------------------------
(* Init *)

\* The client starts with one idle connection and no call under way.
LEMMA InitInv == Init => Inv
  <1> SUFFICES ASSUME Init PROVE Inv
    OBVIOUS
  <1> USE DEF Init
  <1>1. Conns # {}
    BY MetainfoAssumption, FS_EmptySet
  <1>2. FirstConn \in Conns
    BY <1>1 DEF FirstConn
  <1>3. TypeOK
    BY <1>2, Sentinels DEF TypeOK, PcStates
  <1>4. Ownership
    BY <1>2, Sentinels DEF Ownership, Attached
  <1>5. Queueing
    BY DEF Queueing
  <1>6. Permits
    <2>1. Holders = {}
      BY DEF Holders, Holding
    <2> QED BY <2>1, FS_EmptySet, MetainfoAssumption DEF Permits
  <1>7. Wire
    BY <1>2, Sentinels DEF Wire
  <1>8. AppliedExact
    BY <1>2, Sentinels DEF AppliedExact
  <1>9. OwnAnswer
    BY DEF OwnAnswer
  <1> QED BY <1>3, <1>4, <1>5, <1>6, <1>7, <1>8, <1>9 DEF Inv

-----------------------------------------------------------------------------
(* Waiting for a permit *)

\* A call that joins the end of the queue.
LEMMA WaitInv ==
    ASSUME Inv, NEW c \in Calls, pc[c] \in {"new", "backoff"},
           pc' = [pc EXCEPT ![c] = "waiting"], Wait(c),
           UNCHANGED <<attempt, conn, stream, idle, link, applied, decided>>
    PROVE  Inv'
  <1> USE DEF Inv, Wait, Done, Holding, PcStates
  <1>1. TypeOK'
    BY DEF TypeOK
  <1>2. Ownership'
    BY DEF Ownership, Attached, TypeOK
  <1>3. Queueing'
    <2>1. /\ Len(queue') = Len(queue) + 1
          /\ \A i \in 1..Len(queue) : queue'[i] = queue[i]
          /\ queue'[Len(queue) + 1] = c
      BY AppendProperties DEF TypeOK
    <2>2. \A i \in 1..Len(queue) : queue[i] # c
      BY DEF Queueing
    <2>3. \A i \in 1..Len(queue') : pc'[queue'[i]] = "waiting"
      BY <2>1, <2>2 DEF Queueing, TypeOK
    <2>4. \A i, j \in 1..Len(queue') : queue'[i] = queue'[j] => i = j
      <3>1. Len(queue) \in Nat
        BY DEF TypeOK
      <3>2. \A i \in 1..Len(queue') : i \in 1..Len(queue) \/ i = Len(queue) + 1
        BY <2>1, <3>1
      <3> QED BY <2>1, <2>2, <3>2 DEF Queueing
    <2> QED BY <2>3, <2>4 DEF Queueing
  <1>4. Permits'
    BY HolderChange, Zenon DEF Permits, TypeOK, Holders, HoldersOf
  <1>5. Wire'
    BY DEF Wire, TypeOK
  <1>6. AppliedExact'
    BY DEF AppliedExact, TypeOK
  <1>7. OwnAnswer'
    BY DEF OwnAnswer
  <1> QED BY <1>1, <1>2, <1>3, <1>4, <1>5, <1>6, <1>7

\* A permit is handed to the first waiter, with the idle connection that was
\* used last or the task to dial one.
LEMMA AcquireInv ==
    ASSUME Inv, Acquire
    PROVE  Inv'
  <1> USE DEF Inv, Done, Holding, PcStates
  <1> DEFINE c == Head(queue)
  <1>1. c \in Calls /\ pc[c] = "waiting" /\ c = queue[1] /\ Len(queue) > 0
    BY DEF Acquire, TypeOK, Queueing
  <1>2. /\ Len(queue') = Len(queue) - 1
        /\ \A i \in 1..Len(queue') : queue'[i] = queue[i + 1]
        /\ queue' \in Seq(Calls)
    BY DEF Acquire, TypeOK
  <1>3. \A i \in 1..Len(queue') : queue'[i] # c /\ pc[queue'[i]] = "waiting"
    <2>1. Len(queue) \in Nat /\ 1 \in 1..Len(queue)
      BY <1>1 DEF TypeOK
    <2>2. \A i \in 1..Len(queue') : i + 1 \in 1..Len(queue) /\ i + 1 # 1
      BY <1>2, <2>1
    <2> QED BY <1>1, <1>2, <2>1, <2>2 DEF Queueing
  <1>10. \A i, j \in 1..Len(queue') : queue'[i] = queue'[j] => i = j
    <2>1. Len(queue) \in Nat
      BY <1>1 DEF TypeOK
    <2>2. \A i \in 1..Len(queue') : i + 1 \in 1..Len(queue) /\ i \in Nat
      BY <1>2, <2>1
    <2> QED BY <1>2, <2>2 DEF Queueing
  <1>4. Cardinality(Holders) < MaxConns /\ Cardinality(Holders) \in Nat
    BY HolderNat DEF Acquire, PermitFree
  <1> HIDE DEF c
  <1>5. CASE idle = <<>>
    <2>1. /\ pc' = [pc EXCEPT ![c] = "dialing"]
          /\ UNCHANGED <<conn, idle, stream, link, applied, decided>>
          /\ attempt' = [attempt EXCEPT ![c] = @ + 1]
      BY <1>5 DEF Acquire, c
    <2>2. TypeOK'
      <3>1. pc' \in [Calls -> PcStates] /\ attempt' \in [Calls -> Nat]
        BY <1>1, <2>1 DEF TypeOK
      <3> QED BY <1>2, <2>1, <3>1 DEF TypeOK
    <2>3. Ownership'
      <3>1. \A d \in Calls : pc'[d] \in Attached <=> pc[d] \in Attached
        BY <1>1, <2>1 DEF Attached, TypeOK
      <3> QED BY <2>1, <3>1 DEF Ownership
    <2>4. Queueing'
      BY <1>1, <1>3, <1>10, <2>1 DEF Queueing, TypeOK
    <2>5. Permits'
      <3>0. pc \in [Calls -> PcStates] /\ pc[c] \notin Holding
        BY <1>1 DEF TypeOK
      <3>1. Cardinality(HoldersOf(pc')) = Cardinality(HoldersOf(pc)) + 1
        BY <1>1, <2>1, <3>0, HolderChange
      <3>2. Len(idle') = 0
        BY <1>5, <2>1
      <3> QED BY <1>4, <3>1, <3>2, MetainfoAssumption DEF Permits, Holders, HoldersOf
    <2>6. Wire'
      BY <1>1, <2>1 DEF Wire, TypeOK
    <2>7. AppliedExact'
      BY <1>1, <2>1 DEF AppliedExact, TypeOK
    <2>8. OwnAnswer'
      BY <2>1 DEF OwnAnswer
    <2> QED BY <2>2, <2>3, <2>4, <2>5, <2>6, <2>7, <2>8
  <1>6. CASE idle # <<>>
    <2> DEFINE k == idle[Len(idle)]
    <2>1. /\ pc' = [pc EXCEPT ![c] = "sending"]
          /\ conn' = [conn EXCEPT ![c] = k]
          /\ UNCHANGED <<stream, link, applied, decided>>
          /\ attempt' = [attempt EXCEPT ![c] = @ + 1]
      BY <1>6 DEF Acquire, c, Last
    <2>2. /\ Len(idle) > 0 /\ Len(idle) \in Nat /\ k \in Conns
          /\ idle' \in Seq(Conns)
          /\ Len(idle') = Len(idle) - 1
          /\ \A i \in 1..Len(idle') : idle'[i] = idle[i]
      <3>1. idle \in Seq(Conns) /\ idle' = Front(idle)
        BY <1>6 DEF Acquire, TypeOK
      <3> HIDE DEF Inv
      <3> QED BY <1>6, <3>1, FrontProps
    <2> HIDE DEF k
    <2>3. TypeOK'
      <3>1. pc' \in [Calls -> PcStates] /\ attempt' \in [Calls -> Nat]
        BY <1>1, <2>1 DEF TypeOK
      <3>2. conn' \in [Calls -> Conns \cup {NoConn}]
        BY <1>1, <2>1, <2>2 DEF TypeOK
      <3>3. queue' \in Seq(Calls) /\ idle' \in Seq(Conns)
        BY <1>2, <2>2
      <3> QED BY <2>1, <3>1, <3>2, <3>3 DEF TypeOK
    <2>4. Ownership'
      <3>1. k = idle[Len(idle)] /\ conn[c] \notin Conns
        BY <1>1 DEF k, Ownership, Attached
      <3>2. \A d \in Calls : conn'[d] \in Conns <=> pc'[d] \in Attached
        BY <1>1, <2>1, <2>2 DEF Ownership, Attached, TypeOK
      <3>3. \A d, e \in Calls : conn'[d] = conn'[e] /\ conn'[d] \in Conns => d = e
        <4>1. \A d \in Calls : conn'[d] = IF d = c THEN k ELSE conn[d]
          BY <1>1, <2>1 DEF TypeOK
        <4>2. \A d \in Calls : conn[d] # k
          BY <2>2, <3>1 DEF Ownership
        <4> QED BY <4>1, <4>2 DEF Ownership
      <3>4. /\ \A i, j \in 1..Len(idle') : idle'[i] = idle'[j] => i = j
            /\ \A i \in 1..Len(idle') : link'[idle'[i]].next > 0
            /\ \A i \in 1..Len(idle') : idle'[i] # k
        BY <2>1, <2>2, <3>1 DEF Ownership
      <3>5. \A d \in Calls, i \in 1..Len(idle') : conn'[d] # idle'[i]
        BY <2>1, <2>2, <3>4 DEF Ownership, TypeOK
      <3>6. \A d \in Calls : conn'[d] \in Conns => link'[conn'[d]].next > 0
        BY <2>1, <2>2, <3>1 DEF Ownership, TypeOK
      <3>7. ASSUME NEW x \in Conns, link'[x] # NoLink
            PROVE  (\E d \in Calls : conn'[d] = x) \/ (\E i \in 1..Len(idle') : idle'[i] = x)
        <4>1. CASE x = k
          BY <1>1, <2>1, <4>1 DEF TypeOK
        <4>2. CASE x # k /\ \E d \in Calls : conn[d] = x
          BY <2>1, <3>1, <4>2, <3>7 DEF TypeOK
        <4>3. CASE x # k /\ \E i \in 1..Len(idle) : idle[i] = x
          <5>1. PICK i \in 1..Len(idle) : idle[i] = x
            BY <4>3
          <5>2. i \in 1..Len(idle')
            BY <2>2, <3>1, <4>3, <5>1
          <5> QED BY <2>2, <5>1, <5>2
        <4> QED BY <2>1, <3>7, <4>1, <4>2, <4>3 DEF Ownership
      <3> QED BY <3>2, <3>3, <3>4, <3>5, <3>6, <3>7 DEF Ownership
    <2>5. Queueing'
      BY <1>1, <1>3, <1>10, <2>1 DEF Queueing, TypeOK
    <2>6. Permits'
      <3>0. pc \in [Calls -> PcStates] /\ pc[c] \notin Holding
        BY <1>1 DEF TypeOK
      <3>1. Cardinality(HoldersOf(pc')) = Cardinality(HoldersOf(pc)) + 1
        BY <1>1, <2>1, <3>0, HolderChange
      <3> QED BY <1>4, <2>2, <3>1, MetainfoAssumption DEF Permits, Holders, HoldersOf
    <2>7. Wire'
      BY <1>1, <2>1 DEF Wire, TypeOK
    <2>8. AppliedExact'
      BY <1>1, <2>1 DEF AppliedExact, TypeOK
    <2>9. OwnAnswer'
      BY <2>1 DEF OwnAnswer
    <2> QED BY <2>3, <2>4, <2>5, <2>6, <2>7, <2>8, <2>9
  <1> QED BY <1>5, <1>6

-----------------------------------------------------------------------------
(* A call leaves without a usable connection *)

\* A call that fails or is dropped takes its connection with it.  A request
\* that was under way, or being written, may be applied all the same.
LEMMA LeavesInv ==
    ASSUME Inv, NEW c \in Calls, NEW v \in {"backoff", "err", "cancelled"},
           v = "backoff" => c \in Idempotent,
           pc[c] \in Holding \cup {"waiting", "backoff"},
           pc' = [pc EXCEPT ![c] = v],
           conn' = [conn EXCEPT ![c] = NoConn],
           (queue' = queue /\ pc[c] # "waiting") \/ queue' = RemoveFirst(queue, c),
           conn[c] = NoConn => link' = link /\ applied' = applied,
           conn[c] # NoConn => link' = [link EXCEPT ![conn[c]] = NoLink],
           \/ applied' = applied
           \/ /\ applied' = [applied EXCEPT ![c] = @ + 1]
              /\ pc[c] = "sending" \/ (\E k \in Conns : link[k].request = c),
           decided' \in [Calls -> Calls \cup {NoCall}], OwnAnswer',
           UNCHANGED <<attempt, stream, idle>>
    PROVE  Inv'
  <1> USE DEF Inv, Done, Holding, PcStates
  <1>1. conn[c] \in Conns \/ conn[c] = NoConn
    BY DEF TypeOK
  <1>2. /\ queue' \in Seq(Calls)
        /\ \A i \in 1..Len(queue') : queue'[i] # c /\ \E j \in 1..Len(queue) : queue'[i] = queue[j]
        /\ \A i, j \in 1..Len(queue') : queue'[i] = queue'[j] => i = j
    <2>1. CASE queue' = queue /\ pc[c] # "waiting"
      BY <2>1 DEF Queueing, TypeOK
    <2>2. CASE queue' = RemoveFirst(queue, c)
      <3>1. queue \in Seq(Calls) /\ \A i, j \in 1..Len(queue) : queue[i] = queue[j] => i = j
        BY DEF Queueing, TypeOK
      <3> HIDE DEF Inv
      <3> QED BY <2>2, <3>1, RemoveFirstProps
    <2> QED BY <2>1, <2>2
  <1>3. link' \in [Conns -> Link] /\ \A k \in Conns : link'[k] = IF k = conn[c] THEN NoLink ELSE link[k]
    <2>1. CASE conn[c] = NoConn
      BY <2>1, Sentinels DEF TypeOK
    <2>2. CASE conn[c] # NoConn
      <3>1. link \in [Conns -> Link] /\ NoLink \in Link /\ conn[c] \in Conns
        BY <1>1, <2>2, Sentinels DEF TypeOK
      <3> QED BY <2>2, <3>1
    <2> QED BY <2>1, <2>2
  <1>4. applied' \in [Calls -> Nat] /\ \A d \in Calls : applied'[d] >= applied[d] /\ (d # c => applied'[d] = applied[d])
    BY DEF TypeOK
  <1>5. pc' \in [Calls -> PcStates] /\ conn' \in [Calls -> Conns \cup {NoConn}]
    BY DEF TypeOK
  <1>6. TypeOK'
    BY <1>2, <1>3, <1>4, <1>5 DEF TypeOK
  <1>7. Ownership'
    <2>1. \A d \in Calls : conn'[d] = IF d = c THEN NoConn ELSE conn[d]
      BY DEF TypeOK
    <2>2. \A d \in Calls : conn'[d] \in Conns <=> pc'[d] \in Attached
      BY <2>1, Sentinels DEF Ownership, Attached, TypeOK
    <2>3. \A d, e \in Calls : conn'[d] = conn'[e] /\ conn'[d] \in Conns => d = e
      BY <2>1, Sentinels DEF Ownership
    <2>4. \A i, j \in 1..Len(idle') : idle'[i] = idle'[j] => i = j
      BY DEF Ownership
    <2>5. \A d \in Calls, i \in 1..Len(idle') : conn'[d] # idle'[i]
      BY <2>1, Sentinels DEF Ownership, TypeOK
    <2>6. \A d \in Calls : conn'[d] \in Conns => link'[conn'[d]].next > 0
      BY <1>3, <2>1, Sentinels DEF Ownership
    <2>7. \A i \in 1..Len(idle') : link'[idle'[i]].next > 0
      BY <1>3 DEF Ownership, TypeOK
    <2>8. \A k \in Conns : link'[k] # NoLink =>
             (\E d \in Calls : conn'[d] = k) \/ (\E i \in 1..Len(idle') : idle'[i] = k)
      BY <1>3, <2>1 DEF Ownership
    <2> QED BY <2>2, <2>3, <2>4, <2>5, <2>6, <2>7, <2>8 DEF Ownership
  <1>8. Queueing'
    <2>1. \A i \in 1..Len(queue) : queue[i] \in Calls /\ pc[queue[i]] = "waiting"
      BY DEF Queueing, TypeOK
    <2>2. \A d \in Calls : d # c => pc'[d] = pc[d]
      BY DEF TypeOK
    <2>3. \A i \in 1..Len(queue') : pc'[queue'[i]] = "waiting"
      BY <1>2, <2>1, <2>2
    <2> QED BY <1>2, <2>3 DEF Queueing
  <1>9. Permits'
    <2>1. /\ Cardinality(HoldersOf(pc')) <= Cardinality(HoldersOf(pc))
          /\ Cardinality(HoldersOf(pc)) \in Nat
          /\ Cardinality(HoldersOf(pc')) \in Int
      <3>1. v \in PcStates /\ v \notin Holding /\ pc \in [Calls -> PcStates]
        BY DEF TypeOK
      <3> HIDE DEF PcStates, Holding
      <3>4. /\ Cardinality(HoldersOf(pc)) \in Nat
            /\ pc[c] \in Holding =>
                  Cardinality(HoldersOf(pc')) = Cardinality(HoldersOf(pc)) - 1
            /\ pc[c] \notin Holding =>
                  Cardinality(HoldersOf(pc')) = Cardinality(HoldersOf(pc))
        BY <3>1, HolderChange
      <3>2. CASE pc[c] \in Holding
        BY <3>2, <3>4
      <3>3. CASE pc[c] \notin Holding
        BY <3>3, <3>4
      <3> QED BY <3>2, <3>3
    <2>2. Len(idle) \in Nat
      BY DEF TypeOK
    <2> QED BY <2>1, <2>2, MetainfoAssumption DEF Permits, Holders, HoldersOf
  <1>10. Wire'
    <2>1. \A d \in Calls : pc'[d] = "reading" => d # c /\ pc[d] = "reading" /\ conn'[d] = conn[d]
                                                 /\ conn[d] \in Conns /\ conn[d] # conn[c]
      BY DEF TypeOK, Ownership, Attached
    <2>2. \A d \in Calls : pc'[d] = "reading" => stream'[d] = link'[conn'[d]].next - 1
      BY <1>3, <2>1 DEF Wire
    <2>3. \A k \in Conns : link'[k].request \in Calls =>
             pc'[link'[k].request] = "reading" /\ conn'[link'[k].request] = k
      <3>1. \A k \in Conns : link'[k].request \in Calls => k # conn[c] /\ link'[k] = link[k]
        BY <1>3, Sentinels
      <3>2. \A k \in Conns : link[k].request \in Calls /\ k # conn[c] => link[k].request # c
        BY DEF Wire
      <3> QED BY <3>1, <3>2 DEF Wire, TypeOK
    <2>4. ASSUME NEW k \in Conns, NEW i \in 1..Len(link'[k].packets)
          PROVE  LET p == link'[k].packets[i] IN
                 /\ p.stream < link'[k].next
                 /\ p.stream = link'[k].next - 1 => link'[k].request = NoCall
                 /\ \A d \in Calls : pc'[d] = "reading" /\ conn'[d] = k /\ p.stream = stream'[d] => p.call = d
      <3>1. link'[k] = link[k]
        BY <1>3, <2>4, Sentinels
      <3> QED BY <2>1, <2>4, <3>1 DEF Wire
    <2> QED BY <2>2, <2>3, <2>4 DEF Wire
  <1>11. AppliedExact'
    <2>1. ASSUME NEW d \in Calls \ Idempotent
          PROVE  /\ pc'[d] # "backoff"
                 /\ applied'[d] <= 1
                 /\ pc'[d] \in {"new", "waiting", "dialing", "sending"} => applied'[d] = 0
                 /\ \A k \in Conns : link'[k].request = d => applied'[d] = 0
      <3>1. CASE d # c
        <4>1. pc'[d] = pc[d] /\ applied'[d] = applied[d]
          BY <1>4, <3>1 DEF TypeOK
        <4>2. \A k \in Conns : link'[k].request = d => link[k].request = d
          BY <1>3, Sentinels
        <4> QED BY <4>1, <4>2 DEF AppliedExact
      <3>2. CASE d = c
        <4>1. pc'[d] \in {"err", "cancelled"}
          BY <3>2 DEF TypeOK
        <4>2. applied'[d] <= 1
          BY <3>2 DEF AppliedExact, TypeOK
        <4>3. \A k \in Conns : link'[k].request # c
          <5>1. \A k \in Conns : link[k].request = c => conn[c] = k
            BY DEF Wire
          <5> QED BY <1>3, <5>1, Sentinels
        <4> QED BY <3>2, <4>1, <4>2, <4>3
      <3> QED BY <3>1, <3>2
    <2>2. \A k \in Conns : \A i \in 1..Len(link'[k].packets) :
             link'[k].packets[i].kind = "message" => applied'[link'[k].packets[i].call] >= 1
      <3> SUFFICES ASSUME NEW k \in Conns, NEW i \in 1..Len(link'[k].packets),
                          link'[k].packets[i].kind = "message"
                   PROVE  applied'[link'[k].packets[i].call] >= 1
        OBVIOUS
      <3>1. link'[k] = link[k]
        BY <1>3, Sentinels
      <3>2. link[k].packets[i] \in Packet
        BY <3>1 DEF TypeOK, Link
      <3>3. link[k].packets[i].call \in Calls
        BY <3>2 DEF Packet
      <3>4. applied[link[k].packets[i].call] >= 1
        BY <3>1 DEF AppliedExact
      <3> DEFINE d == link[k].packets[i].call
      <3>5. applied[d] \in Nat /\ applied'[d] \in Nat /\ applied'[d] >= applied[d]
        BY <1>4, <3>3 DEF TypeOK
      <3>6. applied'[d] >= 1
        BY <3>4, <3>5
      <3> QED BY <3>1, <3>6
    <2>3. \A d \in Calls : pc'[d] \in {"closing", "ok"} => applied'[d] >= 1
      BY <1>4 DEF AppliedExact, TypeOK
    <2> QED BY <2>1, <2>2, <2>3 DEF AppliedExact
  <1> QED BY <1>6, <1>7, <1>8, <1>9, <1>10, <1>11

-----------------------------------------------------------------------------
(* The cap on connections *)

\* Every connection is held by a call of its own or idle, so permits and idle
\* connections together bound them, and those being dialled too.
LEMMA CapFromInv ==
    ASSUME Inv
    PROVE  /\ ConnCap
           /\ \A c \in Calls : pc[c] = "dialing" => \E k \in Conns : k \notin Live
  <1> USE DEF Inv
  <1> DEFINE D == {c \in Calls : pc[c] = "dialing"}
             A == {c \in Calls : pc[c] \in Attached}
             H == {conn[c] : c \in A}
             I == {idle[i] : i \in 1..Len(idle)}
  <1>1. IsFiniteSet(D) /\ IsFiniteSet(A) /\ Cardinality(D) \in Nat /\ Cardinality(A) \in Nat
    BY MetainfoAssumption, FS_Subset, FS_CardinalityType
  <1>2. Holders = A \cup D /\ A \cap D = {}
    BY DEF Holders, Holding, Attached
  <1> HIDE DEF A, D
  <1>3. Cardinality(Holders) = Cardinality(A) + Cardinality(D)
    <2>1. Cardinality(A \cup D) = Cardinality(A) + Cardinality(D) - Cardinality(A \cap D)
      BY <1>1, FS_Union
    <2>2. Cardinality(A \cap D) = 0
      BY <1>2, FS_EmptySet
    <2>3. Cardinality(Holders) = Cardinality(A \cup D)
      BY <1>2
    <2> QED BY <1>1, <2>1, <2>2, <2>3
  <1>4. IsFiniteSet(H) /\ Cardinality(H) \in Nat /\ Cardinality(H) <= Cardinality(A)
    <2> DEFINE f == [c \in A |-> conn[c]]
    <2>1. f \in Surjection(A, H)
      BY DEF Surjection
    <2> QED BY <1>1, <2>1, FS_Surjection, FS_CardinalityType
  <1>5. IsFiniteSet(I) /\ Cardinality(I) \in Nat /\ Cardinality(I) <= Len(idle) /\ Len(idle) \in Nat
    <2>1. Len(idle) \in Nat
      BY DEF TypeOK
    <2> DEFINE f == [i \in 1..Len(idle) |-> idle[i]]
    <2>2. f \in Surjection(1..Len(idle), I)
      BY DEF Surjection
    <2>3. IsFiniteSet(1..Len(idle)) /\ Cardinality(1..Len(idle)) = Len(idle)
      <3>1. /\ IsFiniteSet(1..Len(idle))
            /\ Cardinality(1..Len(idle)) = IF 1 > Len(idle) THEN 0 ELSE Len(idle) - 1 + 1
        BY <2>1, FS_Interval
      <3> QED BY <2>1, <3>1
    <2> HIDE DEF f
    <2> QED BY <2>1, <2>2, <2>3, FS_Surjection, FS_CardinalityType
  <1>6. Live \subseteq H \cup I
    BY DEF Live, Ownership, A
  <1> HIDE DEF H, I
  <1>7. IsFiniteSet(H \cup I) /\ Cardinality(H \cup I) <= Cardinality(H) + Cardinality(I)
        /\ Cardinality(H \cup I) \in Nat
    <2>1. IsFiniteSet(H \cap I)
      BY <1>4, FS_Subset
    <2>2. /\ IsFiniteSet(H \cup I)
          /\ Cardinality(H \cup I) = Cardinality(H) + Cardinality(I) - Cardinality(H \cap I)
      BY <1>4, <1>5, FS_Union
    <2>3. Cardinality(H \cap I) \in Nat /\ Cardinality(H \cup I) \in Nat
      BY <2>1, <2>2, FS_CardinalityType
    <2> QED BY <1>4, <1>5, <2>2, <2>3
  <1>8. IsFiniteSet(Live) /\ Cardinality(Live) \in Nat /\ Cardinality(Live) <= Cardinality(H \cup I)
    BY <1>6, <1>7, FS_Subset, FS_CardinalityType
  <1>9. Cardinality(Live) + Cardinality(D) <= MaxConns
    BY <1>1, <1>3, <1>4, <1>5, <1>7, <1>8, MetainfoAssumption DEF Permits
  <1>10. ASSUME NEW c \in Calls, pc[c] = "dialing"
         PROVE  \E k \in Conns : k \notin Live
    <2>1. Cardinality(D) # 0
      <3>1. D # {}
        BY <1>10 DEF D
      <3> QED BY <1>1, <3>1, FS_EmptySet
    <2>2. Cardinality(Live) < MaxConns
      BY <1>1, <1>8, <1>9, <2>1, MetainfoAssumption
    <2>3. Cardinality(Conns) \in Nat
      BY MetainfoAssumption, FS_CardinalityType
    <2>4. Live # Conns
      BY <1>8, <2>2, <2>3, MetainfoAssumption
    <2> QED BY <2>4 DEF Live
  <1> QED BY <1>9, <1>10 DEF ConnCap, D

\* A connection that is not NoLink has a stream id to give.
LEMMA LiveHasNext ==
    ASSUME Inv, NEW k \in Conns, link[k] # NoLink PROVE link[k].next > 0
  BY DEF Inv, Ownership

-----------------------------------------------------------------------------
(* The dial *)

\* A dial that succeeds adds a connection nobody has.
LEMMA DialedInv ==
    ASSUME Inv, NEW c \in Calls, pc[c] = "dialing",
           conn' = [conn EXCEPT ![c] = FreshConn],
           link' = [link EXCEPT ![FreshConn] = NewLink],
           pc' = [pc EXCEPT ![c] = "sending"],
           UNCHANGED <<attempt, queue, idle, applied, stream, decided>>
    PROVE  Inv'
  <1> USE DEF Inv, Done, Holding, PcStates
  <1> DEFINE k == FreshConn
  <1>1. k \in Conns /\ link[k] = NoLink
    <2>1. \E x \in Conns : x \notin Live
      BY CapFromInv
    <2> QED BY <2>1 DEF FreshConn, Live
  <1> HIDE DEF k
  <1>2. conn' = [conn EXCEPT ![c] = k] /\ link' = [link EXCEPT ![k] = NewLink]
    BY DEF k
  <1>3. link' \in [Conns -> Link] /\ \A x \in Conns : link'[x] = IF x = k THEN NewLink ELSE link[x]
    BY <1>1, <1>2, Sentinels DEF TypeOK
  <1>4. (\A d \in Calls : conn[d] # k) /\ (\A i \in 1..Len(idle) : idle[i] # k)
    BY <1>1, Sentinels DEF Ownership
  <1>5. TypeOK'
    BY <1>1, <1>2, <1>3 DEF TypeOK
  <1>6. Ownership'
    <2>1. \A d \in Calls : conn'[d] = IF d = c THEN k ELSE conn[d]
      BY <1>2 DEF TypeOK
    <2>2. \A d \in Calls : conn'[d] \in Conns <=> pc'[d] \in Attached
      BY <1>1, <2>1 DEF Ownership, Attached, TypeOK
    <2>3. \A d, e \in Calls : conn'[d] = conn'[e] /\ conn'[d] \in Conns => d = e
      BY <1>4, <2>1 DEF Ownership
    <2>4. \A i, j \in 1..Len(idle') : idle'[i] = idle'[j] => i = j
      BY DEF Ownership
    <2>5. \A d \in Calls, i \in 1..Len(idle') : conn'[d] # idle'[i]
      BY <1>4, <2>1 DEF Ownership
    <2>6. \A d \in Calls : conn'[d] \in Conns => link'[conn'[d]].next > 0
      BY <1>3, <2>1, Sentinels DEF Ownership
    <2>7. \A i \in 1..Len(idle') : link'[idle'[i]].next > 0
      BY <1>3, <1>4 DEF Ownership, TypeOK
    <2>8. \A x \in Conns : link'[x] # NoLink =>
             (\E d \in Calls : conn'[d] = x) \/ (\E i \in 1..Len(idle') : idle'[i] = x)
      <3>1. \A x \in Conns : x # k /\ link'[x] # NoLink =>
               (\E d \in Calls : conn[d] = x /\ d # c) \/ (\E i \in 1..Len(idle) : idle[i] = x)
        <4>1. conn[c] \notin Conns
          BY DEF Ownership, Attached
        <4> QED BY <1>3, <4>1 DEF Ownership
      <3> QED BY <2>1, <3>1
    <2> QED BY <2>2, <2>3, <2>4, <2>5, <2>6, <2>7, <2>8 DEF Ownership
  <1>7. Queueing'
    <2>1. \A i \in 1..Len(queue) : queue[i] \in Calls /\ queue[i] # c
      BY DEF Queueing, TypeOK
    <2>2. \A d \in Calls : d # c => pc'[d] = pc[d]
      BY DEF TypeOK
    <2> QED BY <2>1, <2>2 DEF Queueing
  <1>8. Permits'
    <2>1. "sending" \in PcStates /\ "sending" \in Holding /\ "dialing" \in Holding /\ pc \in [Calls -> PcStates]
      BY DEF TypeOK
    <2> HIDE DEF PcStates, Holding
    <2>2. Cardinality(HoldersOf(pc')) = Cardinality(HoldersOf(pc))
      BY <2>1, HolderChange
    <2> QED BY <2>2 DEF Permits, Holders, HoldersOf
  <1>9. Wire'
    <2>1. \A d \in Calls : pc'[d] = "reading" =>
             pc[d] = "reading" /\ conn'[d] = conn[d] /\ conn[d] \in Conns /\ conn[d] # k
      BY <1>2, <1>4 DEF TypeOK, Ownership, Attached
    <2>2. \A d \in Calls : pc'[d] = "reading" => stream'[d] = link'[conn'[d]].next - 1
      BY <1>3, <2>1 DEF Wire
    <2>3. \A x \in Conns : link'[x].request \in Calls =>
             pc'[link'[x].request] = "reading" /\ conn'[link'[x].request] = x
      <3>1. \A x \in Conns : link'[x].request \in Calls => x # k /\ link'[x] = link[x]
        BY <1>3, Sentinels
      <3>2. \A x \in Conns : link[x].request \in Calls => link[x].request # c
        BY DEF Wire
      <3> QED BY <1>2, <3>1, <3>2 DEF Wire, TypeOK
    <2>4. ASSUME NEW x \in Conns, NEW i \in 1..Len(link'[x].packets)
          PROVE  LET p == link'[x].packets[i] IN
                 /\ p.stream < link'[x].next
                 /\ p.stream = link'[x].next - 1 => link'[x].request = NoCall
                 /\ \A d \in Calls : pc'[d] = "reading" /\ conn'[d] = x /\ p.stream = stream'[d] => p.call = d
      <3>1. link'[x] = link[x]
        BY <1>3, <2>4, Sentinels
      <3> QED BY <2>1, <2>4, <3>1 DEF Wire
    <2> QED BY <2>2, <2>3, <2>4 DEF Wire
  <1>10. AppliedExact'
    <2>1. \A x \in Conns : link'[x].request \in Calls => link'[x] = link[x]
      BY <1>3, Sentinels
    <2>2. \A x \in Conns : \A i \in 1..Len(link'[x].packets) : link'[x] = link[x]
      BY <1>3, Sentinels
    <2>3. \A d \in Calls \ Idempotent :
             /\ pc'[d] # "backoff"
             /\ applied'[d] <= 1
             /\ pc'[d] \in {"new", "waiting", "dialing", "sending"} => applied'[d] = 0
             /\ \A x \in Conns : link'[x].request = d => applied'[d] = 0
      BY <2>1 DEF AppliedExact, TypeOK
    <2>4. \A d \in Calls : pc'[d] \in {"closing", "ok"} => applied'[d] >= 1
      BY DEF AppliedExact, TypeOK
    <2> QED BY <2>2, <2>3, <2>4 DEF AppliedExact
  <1>11. OwnAnswer'
    BY DEF OwnAnswer
  <1> QED BY <1>5, <1>6, <1>7, <1>8, <1>9, <1>10, <1>11

-----------------------------------------------------------------------------
(* The exchange *)

\* A request goes out on a stream id above every packet still to be read.
LEMMA SendInv ==
    ASSUME Inv, NEW c \in Calls, Send(c)
    PROVE  Inv'
  <1> USE DEF Inv, Done, Holding, PcStates
  <1> DEFINE k == conn[c]
  <1>1. k \in Conns /\ pc[c] = "sending"
    BY DEF Send, Ownership, Attached
  <1>2. /\ stream' = [stream EXCEPT ![c] = link[k].next]
        /\ link' = [link EXCEPT ![k].next = @ + 1, ![k].request = c]
        /\ pc' = [pc EXCEPT ![c] = "reading"]
        /\ decided' = [decided EXCEPT ![c] = NoCall]
        /\ UNCHANGED <<attempt, conn, queue, idle, applied>>
    BY DEF Send
  <1>3. /\ link[k] \in Link /\ link[k].next \in Nat /\ link[k].next > 0
        /\ link[k].packets \in Seq(Packet)
        /\ link[k].request = NoCall
    BY <1>1, Sentinels DEF Ownership, TypeOK, Link, Requests, Wire
  <1> HIDE DEF k
  <1>4. /\ link' \in [Conns -> Link]
        /\ \A x \in Conns : x # k => link'[x] = link[x]
        /\ link'[k].packets = link[k].packets
        /\ link'[k].next = link[k].next + 1 /\ link'[k].request = c
    <2>1. link \in [Conns -> Link] /\ c \in Requests
      BY DEF TypeOK, Requests
    <2>2. link' = [link EXCEPT ![k].next = @ + 1, ![k].request = c]
      BY <1>2
    <2> DEFINE h == [link EXCEPT ![k].next = @ + 1]
    <2>3. h \in [Conns -> Link]
      BY <1>1, <2>1 DEF Link
    <2>4. link' = [h EXCEPT ![k].request = c]
      BY <1>1, <2>1, <2>2 DEF Link
    <2>5. link' \in [Conns -> Link]
      BY <1>1, <2>1, <2>3, <2>4 DEF Link
    <2>6. /\ \A x \in Conns : x # k => link'[x] = link[x]
          /\ link'[k].packets = link[k].packets
          /\ link'[k].next = link[k].next + 1 /\ link'[k].request = c
      BY <1>1, <2>1, <2>2 DEF Link
    <2> QED BY <2>5, <2>6
  <1>5. link'[k].next = link[k].next + 1 /\ link'[k].request = c
        /\ \A x \in Conns : link'[x].packets = link[x].packets
    BY <1>4
  <1>6. TypeOK'
    BY <1>1, <1>2, <1>3, <1>4 DEF TypeOK
  <1>7. Ownership'
    <2>1. \A d \in Calls : pc'[d] \in Attached <=> pc[d] \in Attached
      BY <1>1, <1>2 DEF Attached, TypeOK
    <2>2. \A x \in Conns : link[x].next > 0 => link'[x].next > 0
      BY <1>3, <1>4, <1>5
    <2>3. \A x \in Conns : link'[x] # NoLink => link[x] # NoLink
      BY <1>3, <1>4, Sentinels
    <2>4. \A d \in Calls : conn[d] \in Conns => link'[conn[d]].next > 0
      BY <2>2 DEF Ownership
    <2>5. \A i \in 1..Len(idle) : link'[idle[i]].next > 0
      BY <2>2 DEF Ownership, TypeOK
    <2>6. \A x \in Conns : link'[x] # NoLink =>
             (\E d \in Calls : conn[d] = x) \/ (\E i \in 1..Len(idle) : idle[i] = x)
      BY <2>3 DEF Ownership
    <2>7. conn' = conn /\ idle' = idle
      BY <1>2
    <2> QED BY <2>1, <2>4, <2>5, <2>6, <2>7 DEF Ownership
  <1>8. Queueing'
    <2>1. \A i \in 1..Len(queue) : queue[i] \in Calls /\ queue[i] # c
      BY <1>1 DEF Queueing, TypeOK
    <2>2. \A d \in Calls : d # c => pc'[d] = pc[d]
      BY <1>2 DEF TypeOK
    <2>3. queue' = queue
      BY <1>2
    <2> QED BY <2>1, <2>2, <2>3 DEF Queueing
  <1>9. Permits'
    <2>1. "reading" \in PcStates /\ "reading" \in Holding /\ "sending" \in Holding /\ pc \in [Calls -> PcStates]
      BY DEF TypeOK
    <2> HIDE DEF PcStates, Holding
    <2>2. Cardinality(HoldersOf(pc')) = Cardinality(HoldersOf(pc))
      BY <1>1, <1>2, <2>1, HolderChange
    <2> QED BY <1>2, <2>2 DEF Permits, Holders, HoldersOf
  <1>10. Wire'
    <2>1. \A d \in Calls : d # c /\ pc'[d] = "reading" =>
             pc[d] = "reading" /\ conn[d] \in Conns /\ conn[d] # k /\ stream'[d] = stream[d]
      BY <1>1, <1>2 DEF TypeOK, Ownership, Attached, k
    <2>2. stream'[c] = link'[k].next - 1 /\ stream'[c] = link[k].next
      <3>1. stream'[c] = link[k].next
        BY <1>2 DEF TypeOK
      <3> QED BY <1>3, <1>5, <3>1
    <2>3. \A d \in Calls : pc'[d] = "reading" => stream'[d] = link'[conn'[d]].next - 1
      <3>1. conn'[c] = k
        BY <1>2 DEF k
      <3> QED BY <1>2, <1>4, <2>1, <2>2, <3>1 DEF Wire
    <2>4. \A x \in Conns : link'[x].request \in Calls =>
             pc'[link'[x].request] = "reading" /\ conn'[link'[x].request] = x
      <3>1. pc'[c] = "reading" /\ conn'[c] = k
        BY <1>2 DEF TypeOK, k
      <3>2. \A x \in Conns : x # k /\ link[x].request \in Calls => link[x].request # c
        BY <1>1 DEF Wire
      <3> QED BY <1>2, <1>4, <1>5, <3>1, <3>2 DEF Wire, TypeOK
    <2>5. ASSUME NEW x \in Conns, NEW i \in 1..Len(link'[x].packets)
          PROVE  LET p == link'[x].packets[i] IN
                 /\ p.stream < link'[x].next
                 /\ p.stream = link'[x].next - 1 => link'[x].request = NoCall
                 /\ \A d \in Calls : pc'[d] = "reading" /\ conn'[d] = x /\ p.stream = stream'[d] => p.call = d
      <3> DEFINE p == link[x].packets[i]
      <3>1. link'[x].packets[i] = p /\ i \in 1..Len(link[x].packets)
        BY <1>5, <2>5
      <3>2. p \in Packet
        BY <3>1 DEF TypeOK, Link
      <3>3. p.stream \in Nat /\ p.stream < link[x].next
        BY <3>1, <3>2 DEF Wire, Packet
      <3> HIDE DEF p
      <3>4. CASE x = k
        <4>1. p.stream < link'[x].next /\ p.stream # link'[x].next - 1
          BY <1>3, <1>5, <3>3, <3>4
        <4>2. \A d \in Calls : pc'[d] = "reading" /\ conn'[d] = x => d = c
          BY <1>2, <2>1, <3>4
        <4>3. p.stream # stream'[c]
          BY <2>2, <3>3, <3>4, <1>3
        <4> QED BY <3>1, <4>1, <4>2, <4>3
      <3>5. CASE x # k
        <4>1. link'[x] = link[x]
          BY <1>4, <3>5
        <4>2. \A d \in Calls : pc'[d] = "reading" /\ conn'[d] = x => d # c
          BY <1>2, <3>5 DEF k
        <4>3. /\ p.stream < link[x].next
              /\ p.stream = link[x].next - 1 => link[x].request = NoCall
              /\ \A d \in Calls : pc[d] = "reading" /\ conn[d] = x /\ p.stream = stream[d] => p.call = d
          BY <3>1 DEF Wire, p
        <4> QED BY <1>2, <2>1, <3>1, <4>1, <4>2, <4>3
      <3> QED BY <3>4, <3>5
    <2> QED BY <2>3, <2>4, <2>5 DEF Wire
  <1>11. AppliedExact'
    <2>1. c \notin Idempotent => applied[c] = 0
      BY <1>1 DEF AppliedExact
    <2>2. \A d \in Calls \ Idempotent :
             /\ pc'[d] # "backoff"
             /\ applied'[d] <= 1
             /\ pc'[d] \in {"new", "waiting", "dialing", "sending"} => applied'[d] = 0
      BY <1>1, <1>2 DEF AppliedExact, TypeOK
    <2>3. \A d \in Calls \ Idempotent : \A x \in Conns : link'[x].request = d => applied'[d] = 0
      BY <1>2, <1>4, <1>5, <2>1 DEF AppliedExact
    <2>4. \A d \in Calls : pc'[d] \in {"closing", "ok"} => applied'[d] >= 1
      BY <1>2 DEF AppliedExact, TypeOK
    <2> QED BY <1>2, <1>5, <2>2, <2>3, <2>4 DEF AppliedExact
  <1>12. OwnAnswer'
    BY <1>2 DEF OwnAnswer, TypeOK
  <1> QED BY <1>6, <1>7, <1>8, <1>9, <1>10, <1>11, <1>12

\* The satellite's answer: the packets of the exchange under way follow those
\* that are still to be read, and its request is gone.
LEMMA ServeInv ==
    ASSUME Inv, NEW k \in Conns, Serve(k)
    PROVE  Inv'
  <1> USE DEF Inv, Done, Holding, PcStates
  <1> DEFINE c == link[k].request
             packet(kind) == [stream |-> link[k].next - 1, kind |-> kind, call |-> c]
  <1>1. /\ c \in Calls /\ pc[c] = "reading" /\ conn[c] = k
        /\ link[k].next \in Nat /\ link[k].next > 0
        /\ stream[c] = link[k].next - 1
        /\ link[k].packets \in Seq(Packet)
    BY DEF Serve, Wire, Ownership, TypeOK, Link
  <1>2. UNCHANGED <<pc, attempt, conn, stream, queue, idle, decided>>
    BY DEF Serve
  <1>3. \A kind \in {"message", "close", "error"} : packet(kind) \in Packet
    BY <1>1 DEF Packet
  <1>4. PICK new \in Seq(Packet) :
          /\ \A j \in 1..Len(new) : new[j].stream = link[k].next - 1 /\ new[j].call = c
          /\ link' = [link EXCEPT ![k].request = NoCall, ![k].packets = link[k].packets \o new]
          /\ \/ applied' = [applied EXCEPT ![c] = @ + 1]
             \/ applied' = applied /\ \A j \in 1..Len(new) : new[j].kind # "message"
    <2>1. CASE /\ link' = [link EXCEPT ![k].request = NoCall,
                             ![k].packets = @ \o <<packet("message"), packet("close")>>]
               /\ applied' = [applied EXCEPT ![c] = @ + 1]
      <3> DEFINE new == <<packet("message"), packet("close")>>
      <3>1. new \in Seq(Packet) /\ \A j \in 1..Len(new) : new[j].stream = link[k].next - 1 /\ new[j].call = c
        BY <1>3
      <3>2. link' = [link EXCEPT ![k].request = NoCall, ![k].packets = link[k].packets \o new]
        BY <1>1, <2>1 DEF TypeOK, Link
      <3> QED BY <2>1, <3>1, <3>2
    <2>2. CASE /\ link' = [link EXCEPT ![k].request = NoCall,
                             ![k].packets = Append(@, packet("error"))]
               /\ UNCHANGED applied
      <3> DEFINE new == <<packet("error")>>
      <3>1. /\ new \in Seq(Packet)
            /\ \A j \in 1..Len(new) : new[j].stream = link[k].next - 1 /\ new[j].call = c
                                      /\ new[j].kind # "message"
        BY <1>3
      <3>2. Append(link[k].packets, packet("error")) = link[k].packets \o new
        BY <1>1, <1>3, AppendIsConcat
      <3>3. link' = [link EXCEPT ![k].request = NoCall, ![k].packets = link[k].packets \o new]
        BY <1>1, <2>2, <3>2 DEF TypeOK, Link
      <3> QED BY <2>2, <3>1, <3>3
    <2> QED BY <2>1, <2>2 DEF Serve
  <1> DEFINE all == link[k].packets \o new
  <1>5. /\ all \in Seq(Packet)
        /\ \A i \in 1..Len(all) :
              \/ i \in 1..Len(link[k].packets) /\ all[i] = link[k].packets[i]
              \/ \E j \in 1..Len(new) : all[i] = new[j]
    <2> DEFINE old == link[k].packets
    <2>1. /\ all \in Seq(Packet)
          /\ Len(all) = Len(old) + Len(new)
          /\ Len(old) \in Nat /\ Len(new) \in Nat
          /\ \A i \in 1..(Len(old) + Len(new)) :
                all[i] = IF i <= Len(old) THEN old[i] ELSE new[i - Len(old)]
      BY <1>1, ConcatProperties
    <2> HIDE DEF all, old
    <2>2. \A i \in 1..Len(all) : i <= Len(old) => i \in 1..Len(old)
      BY <2>1
    <2>3. \A i \in 1..Len(all) : ~(i <= Len(old)) => i - Len(old) \in 1..Len(new)
      BY <2>1
    <2> QED BY <2>1, <2>2, <2>3 DEF old
  <1>6. /\ link' \in [Conns -> Link]
        /\ \A x \in Conns : x # k => link'[x] = link[x]
        /\ link'[k].packets = all /\ link'[k].next = link[k].next /\ link'[k].request = NoCall
    <2>1. link \in [Conns -> Link] /\ NoCall \in Requests
      BY DEF TypeOK, Requests
    <2> DEFINE h == [link EXCEPT ![k].request = NoCall]
    <2>2. h \in [Conns -> Link]
      BY <2>1 DEF Link
    <2>3. link' = [h EXCEPT ![k].packets = all]
      BY <1>4, <2>1 DEF Link
    <2> HIDE DEF all
    <2>4. link' \in [Conns -> Link]
      BY <1>5, <2>2, <2>3 DEF Link
    <2>5. /\ \A x \in Conns : x # k => link'[x] = link[x]
          /\ link'[k].packets = all /\ link'[k].next = link[k].next /\ link'[k].request = NoCall
      BY <1>4, <2>1 DEF Link, all
    <2> QED BY <2>4, <2>5
  <1> HIDE DEF all, c
  <1>7. applied' \in [Calls -> Nat] /\ \A d \in Calls : applied'[d] >= applied[d] /\ (d # c => applied'[d] = applied[d])
    BY <1>1, <1>4 DEF TypeOK
  <1>8. TypeOK'
    BY <1>2, <1>6, <1>7 DEF TypeOK
  <1>9. Ownership'
    <2>1. \A x \in Conns : link'[x].next = link[x].next /\ (link'[x] # NoLink => link[x] # NoLink)
      BY <1>1, <1>6, Sentinels
    <2>2. \A d \in Calls : conn[d] \in Conns => link'[conn[d]].next > 0
      BY <2>1 DEF Ownership
    <2>3. \A i \in 1..Len(idle) : link'[idle[i]].next > 0
      <3>1. \A i \in 1..Len(idle) : idle[i] \in Conns
        BY DEF TypeOK
      <3> QED BY <2>1, <3>1 DEF Ownership
    <2>4. \A x \in Conns : link'[x] # NoLink =>
             (\E d \in Calls : conn[d] = x) \/ (\E i \in 1..Len(idle) : idle[i] = x)
      BY <2>1 DEF Ownership
    <2>5. conn' = conn /\ idle' = idle /\ pc' = pc
      BY <1>2
    <2> QED BY <2>2, <2>3, <2>4, <2>5 DEF Ownership
  <1>10. Queueing' /\ Permits' /\ OwnAnswer'
    BY <1>2 DEF Queueing, Permits, OwnAnswer, Holders
  <1>11. Wire'
    <2>1. pc' = pc /\ conn' = conn /\ stream' = stream
      BY <1>2
    <2>2. \A d \in Calls : pc[d] = "reading" => stream[d] = link'[conn[d]].next - 1
      <3>1. \A d \in Calls : pc[d] = "reading" => conn[d] \in Conns
        BY DEF Ownership, Attached
      <3> QED BY <1>6, <3>1 DEF Wire
    <2>3. \A x \in Conns : link'[x].request \in Calls =>
             pc[link'[x].request] = "reading" /\ conn[link'[x].request] = x
      BY <1>6, Sentinels DEF Wire
    <2>4. ASSUME NEW x \in Conns, NEW i \in 1..Len(link'[x].packets)
          PROVE  LET p == link'[x].packets[i] IN
                 /\ p.stream < link'[x].next
                 /\ p.stream = link'[x].next - 1 => link'[x].request = NoCall
                 /\ \A d \in Calls : pc[d] = "reading" /\ conn[d] = x /\ p.stream = stream[d] => p.call = d
      <3>1. CASE x # k
        BY <1>6, <2>4, <3>1 DEF Wire
      <3>2. CASE x = k /\ i \in 1..Len(link[k].packets) /\ all[i] = link[k].packets[i]
        BY <1>6, <2>4, <3>2 DEF Wire
      <3>3. CASE x = k /\ \E j \in 1..Len(new) : all[i] = new[j]
        <4>1. all[i].stream = link[k].next - 1 /\ all[i].call = c
          BY <1>4, <3>3 DEF c
        <4>2. \A d \in Calls : conn[d] = x => d = c
          BY <1>1, <3>3 DEF Ownership
        <4>3. all[i].stream < link[k].next
          BY <1>1, <4>1
        <4> QED BY <1>6, <3>3, <4>1, <4>2, <4>3
      <3> QED BY <1>5, <1>6, <2>4, <3>1, <3>2, <3>3
    <2> QED BY <2>1, <2>2, <2>3, <2>4 DEF Wire
  <1>12. AppliedExact'
    <2>1. c \notin Idempotent => applied[c] = 0
      BY <1>1 DEF AppliedExact, c
    <2>2. \A x \in Conns : link'[x].request = c => FALSE
      <3>1. \A x \in Conns : x # k => link[x].request # c
        BY <1>1 DEF Wire
      <3> QED BY <1>1, <1>6, <3>1, Sentinels
    <2>3. ASSUME NEW d \in Calls \ Idempotent
          PROVE  /\ pc'[d] # "backoff"
                 /\ applied'[d] <= 1
                 /\ pc'[d] \in {"new", "waiting", "dialing", "sending"} => applied'[d] = 0
                 /\ \A x \in Conns : link'[x].request = d => applied'[d] = 0
      <3>1. CASE d = c
        <4>1. applied'[d] <= 1
          BY <1>1, <1>4, <2>1, <3>1 DEF TypeOK, c
        <4> QED BY <1>1, <1>2, <2>2, <3>1, <4>1
      <3>2. CASE d # c
        <4>1. applied'[d] = applied[d] /\ pc'[d] = pc[d]
          BY <1>2, <1>7, <3>2
        <4>2. \A x \in Conns : link'[x].request = d => link[x].request = d
          BY <1>6, Sentinels
        <4> QED BY <4>1, <4>2 DEF AppliedExact
      <3> QED BY <3>1, <3>2
    <2>4. ASSUME NEW x \in Conns, NEW i \in 1..Len(link'[x].packets),
                 link'[x].packets[i].kind = "message"
          PROVE  applied'[link'[x].packets[i].call] >= 1
      <3> DEFINE p == link'[x].packets[i]
      <3>1. p \in Packet
        BY <1>6 DEF Link
      <3>2. p.call \in Calls
        BY <3>1 DEF Packet
      <3>3. CASE x # k \/ (i \in 1..Len(link[k].packets) /\ all[i] = link[k].packets[i])
        <4>1. applied[p.call] >= 1
          BY <1>6, <2>4, <3>3 DEF AppliedExact
        <4>2. applied'[p.call] >= applied[p.call] /\ applied[p.call] \in Nat /\ applied'[p.call] \in Nat
          BY <1>7, <3>2 DEF TypeOK
        <4> QED BY ONLY <4>1, <4>2
      <3>4. CASE x = k /\ \E j \in 1..Len(new) : all[i] = new[j]
        <4>1. p.call = c /\ \E j \in 1..Len(new) : new[j].kind = "message"
          BY <1>4, <1>6, <2>4, <3>4 DEF c
        <4>2. applied' = [applied EXCEPT ![c] = @ + 1]
          BY <1>4, <4>1 DEF c
        <4>3. applied'[c] >= 1
          BY <1>1, <4>2 DEF TypeOK
        <4> QED BY <4>1, <4>3
      <3> QED BY <1>5, <1>6, <2>4, <3>3, <3>4
    <2>5. \A d \in Calls : pc'[d] \in {"closing", "ok"} => applied'[d] >= 1
      BY <1>2, <1>7 DEF AppliedExact, TypeOK
    <2> QED BY <2>3, <2>4, <2>5 DEF AppliedExact
  <1> QED BY <1>8, <1>9, <1>10, <1>11, <1>12

-----------------------------------------------------------------------------
(* Reading *)

\* Reading takes packets off a connection and changes nothing else of it.
Shrunk ==
    /\ link' \in [Conns -> Link]
    /\ \A x \in Conns :
          /\ link'[x].next = link[x].next /\ link'[x].request = link[x].request
          /\ link'[x] # NoLink => link[x] # NoLink
          /\ \A i \in 1..Len(link'[x].packets) :
                \E j \in 1..Len(link[x].packets) : link'[x].packets[i] = link[x].packets[j]

\* Taking the first packet off the connection of a call shrinks it.
LEMMA TailShrinks ==
    ASSUME Inv, NEW k \in Conns, link[k] # NoLink, link[k].packets # <<>>,
           link' = [link EXCEPT ![k].packets = Tail(@)]
    PROVE  Shrunk
  <1>1. link \in [Conns -> Link] /\ link[k].packets \in Seq(Packet)
    BY DEF Inv, TypeOK, Link
  <1> DEFINE q == Tail(link[k].packets)
  <1>2. /\ q \in Seq(Packet)
        /\ \A i \in 1..Len(q) : \E j \in 1..Len(link[k].packets) : q[i] = link[k].packets[j]
    <2>1. /\ Len(q) = Len(link[k].packets) - 1 /\ Len(link[k].packets) \in Nat
          /\ q \in Seq(Packet)
          /\ \A i \in 1..Len(q) : q[i] = link[k].packets[i + 1]
      BY <1>1
    <2> HIDE DEF q
    <2>2. \A i \in 1..Len(q) : i + 1 \in 1..Len(link[k].packets)
      BY <2>1
    <2> QED BY <2>1, <2>2
  <1> HIDE DEF q
  <1>3. link' = [link EXCEPT ![k].packets = q]
    BY DEF q
  <1>4. link' \in [Conns -> Link]
    BY <1>1, <1>2, <1>3 DEF Link
  <1>5. /\ \A x \in Conns : x # k => link'[x] = link[x]
        /\ link'[k].next = link[k].next /\ link'[k].request = link[k].request
        /\ link'[k].packets = q
    BY <1>1, <1>3 DEF Link
  <1>6. ASSUME NEW x \in Conns
        PROVE  /\ link'[x].next = link[x].next /\ link'[x].request = link[x].request
               /\ link'[x] # NoLink => link[x] # NoLink
               /\ \A i \in 1..Len(link'[x].packets) :
                     \E j \in 1..Len(link[x].packets) : link'[x].packets[i] = link[x].packets[j]
    <2>1. CASE x # k
      BY <1>5, <2>1
    <2>2. CASE x = k
      BY <1>2, <1>5, <2>2
    <2> QED BY <2>1, <2>2
  <1> QED BY <1>4, <1>6 DEF Shrunk

\* What is true of every packet stays true of those that are left.
LEMMA ShrunkPackets ==
    ASSUME Inv, Shrunk, NEW x \in Conns, NEW i \in 1..Len(link'[x].packets)
    PROVE  LET p == link'[x].packets[i] IN
           /\ p \in Packet
           /\ p.stream < link'[x].next
           /\ p.stream = link'[x].next - 1 => link'[x].request = NoCall
           /\ \A d \in Calls : pc[d] = "reading" /\ conn[d] = x /\ p.stream = stream[d] => p.call = d
           /\ p.kind = "message" => applied[p.call] >= 1
  <1>1. PICK j \in 1..Len(link[x].packets) : link'[x].packets[i] = link[x].packets[j]
    BY DEF Shrunk
  <1> DEFINE p == link[x].packets[j]
  <1>2. p \in Packet
    BY DEF Inv, TypeOK, Link
  <1>3. /\ p.stream < link[x].next
        /\ p.stream = link[x].next - 1 => link[x].request = NoCall
        /\ \A d \in Calls : pc[d] = "reading" /\ conn[d] = x /\ p.stream = stream[d] => p.call = d
    BY DEF Inv, Wire
  <1>4. p.kind = "message" => applied[p.call] >= 1
    BY DEF Inv, AppliedExact
  <1>5. link'[x].next = link[x].next /\ link'[x].request = link[x].request
    BY DEF Shrunk
  <1> QED BY <1>1, <1>2, <1>3, <1>4, <1>5

\* A call that holds a connection moves on, or stays, with packets read.
LEMMA ReadOnInv ==
    ASSUME Inv, Shrunk, NEW c \in Calls, pc[c] = "reading",
           \/ pc' = pc
           \/ /\ pc' = [pc EXCEPT ![c] = "closing"]
              /\ applied[c] >= 1 /\ link[conn[c]].request = NoCall,
           decided' \in [Calls -> Calls \cup {NoCall}], OwnAnswer',
           UNCHANGED <<attempt, conn, stream, queue, idle, applied>>
    PROVE  Inv'
  <1> USE DEF Inv, Done, Holding, PcStates
  <1>1. \A d \in Calls : /\ d # c => pc'[d] = pc[d]
                         /\ pc'[c] \in {"reading", "closing"}
    BY DEF TypeOK
  <1>2. TypeOK'
    BY DEF TypeOK, Shrunk
  <1>3. Ownership'
    <2>1. \A d \in Calls : pc'[d] \in Attached <=> pc[d] \in Attached
      BY <1>1 DEF Attached
    <2>2. \A d \in Calls : conn[d] \in Conns => link'[conn[d]].next > 0
      BY DEF Ownership, Shrunk
    <2>3. \A i \in 1..Len(idle) : link'[idle[i]].next > 0
      <3>1. \A i \in 1..Len(idle) : idle[i] \in Conns
        BY DEF TypeOK
      <3> QED BY <3>1 DEF Ownership, Shrunk
    <2>4. \A x \in Conns : link'[x] # NoLink =>
             (\E d \in Calls : conn[d] = x) \/ (\E i \in 1..Len(idle) : idle[i] = x)
      BY DEF Ownership, Shrunk
    <2> QED BY <2>1, <2>2, <2>3, <2>4 DEF Ownership
  <1>4. Queueing'
    <2>1. \A i \in 1..Len(queue) : pc'[queue[i]] = "waiting"
      BY <1>1 DEF Queueing, TypeOK
    <2> QED BY <2>1 DEF Queueing
  <1>5. Permits'
    <2>1. Holders' = Holders
      BY <1>1 DEF Holders
    <2> QED BY <2>1 DEF Permits
  <1>6. Wire'
    <2>1. \A d \in Calls : pc'[d] = "reading" => pc[d] = "reading" /\ conn[d] \in Conns
      BY <1>1 DEF Ownership, Attached
    <2>2. \A d \in Calls : pc'[d] = "reading" => stream[d] = link'[conn[d]].next - 1
      BY <2>1 DEF Wire, Shrunk
    <2>3. ASSUME NEW x \in Conns, link'[x].request \in Calls
          PROVE  pc'[link'[x].request] = "reading" /\ conn[link'[x].request] = x
      <3>1. link'[x].request = link[x].request
        BY DEF Shrunk
      <3>2. pc[link[x].request] = "reading" /\ conn[link[x].request] = x
        BY <2>3, <3>1 DEF Wire
      <3>3. pc' = pc \/ link[x].request # c
        BY <2>3, <3>1, <3>2, Sentinels
      <3> QED BY <1>1, <2>3, <3>1, <3>2, <3>3
    <2>4. ASSUME NEW x \in Conns, NEW i \in 1..Len(link'[x].packets)
          PROVE  LET p == link'[x].packets[i] IN
                 /\ p.stream < link'[x].next
                 /\ p.stream = link'[x].next - 1 => link'[x].request = NoCall
                 /\ \A d \in Calls : pc'[d] = "reading" /\ conn'[d] = x /\ p.stream = stream'[d] => p.call = d
      BY <2>1, <2>4, ShrunkPackets
    <2> QED BY <2>2, <2>3, <2>4 DEF Wire
  <1>7. AppliedExact'
    <2>1. ASSUME NEW d \in Calls \ Idempotent
          PROVE  /\ pc'[d] # "backoff"
                 /\ applied'[d] <= 1
                 /\ pc'[d] \in {"new", "waiting", "dialing", "sending"} => applied'[d] = 0
                 /\ \A x \in Conns : link'[x].request = d => applied'[d] = 0
      BY <1>1 DEF AppliedExact, Shrunk
    <2>2. \A x \in Conns : \A i \in 1..Len(link'[x].packets) :
             link'[x].packets[i].kind = "message" => applied'[link'[x].packets[i].call] >= 1
      BY ShrunkPackets
    <2>3. \A d \in Calls : pc'[d] \in {"closing", "ok"} => applied'[d] >= 1
      BY <1>1 DEF AppliedExact
    <2> QED BY <2>1, <2>2, <2>3 DEF AppliedExact
  <1> QED BY <1>2, <1>3, <1>4, <1>5, <1>6, <1>7

\* A call is over and its connection, with no request under way on it, joins
\* the idle ones.
LEMMA RecycleInv ==
    ASSUME Inv, Shrunk, NEW c \in Calls, pc[c] \in {"reading", "closing"},
           NEW v \in {"backoff", "err", "ok"},
           v = "backoff" => c \in Idempotent, v = "ok" => applied[c] >= 1,
           link[conn[c]].request = NoCall, Recycle(c, v),
           decided' \in [Calls -> Calls \cup {NoCall}], OwnAnswer',
           UNCHANGED <<attempt, stream, queue, applied>>
    PROVE  Inv'
  <1> USE DEF Inv, Done, Holding, PcStates
  <1> DEFINE k == conn[c]
  <1>1. k \in Conns /\ link[k].next > 0
    BY DEF Ownership, Attached
  <1>2. /\ \A d \in Calls : pc'[d] = IF d = c THEN v ELSE pc[d]
        /\ \A d \in Calls : conn'[d] = IF d = c THEN NoConn ELSE conn[d]
        /\ pc' \in [Calls -> PcStates] /\ conn' \in [Calls -> Conns \cup {NoConn}]
    BY DEF Recycle, TypeOK
  <1>3. /\ idle' \in Seq(Conns) /\ Len(idle) \in Nat /\ Len(idle') = Len(idle) + 1
        /\ \A i \in 1..Len(idle) : idle'[i] = idle[i]
        /\ idle'[Len(idle) + 1] = k
    BY <1>1, AppendProperties DEF Recycle, TypeOK
  <1> HIDE DEF k
  <1>4. \A i \in 1..Len(idle') : i \in 1..Len(idle) \/ i = Len(idle) + 1
    BY <1>3
  <1>5. TypeOK'
    BY <1>2, <1>3 DEF TypeOK, Shrunk
  <1>6. Ownership'
    <2>1. \A d \in Calls : conn'[d] \in Conns <=> pc'[d] \in Attached
      BY <1>2, Sentinels DEF Ownership, Attached
    <2>2. \A d, e \in Calls : conn'[d] = conn'[e] /\ conn'[d] \in Conns => d = e
      BY <1>2, Sentinels DEF Ownership
    <2>3. \A i \in 1..Len(idle) : idle[i] # k /\ idle[i] \in Conns
      BY DEF Ownership, k, TypeOK
    <2>4. \A i, j \in 1..Len(idle') : idle'[i] = idle'[j] => i = j
      BY <1>3, <1>4, <2>3 DEF Ownership
    <2>5. \A d \in Calls : d # c => conn[d] # k
      BY <1>1 DEF Ownership, k
    <2>6. \A d \in Calls, i \in 1..Len(idle') : conn'[d] # idle'[i]
      <3>1. \A i \in 1..Len(idle') : idle'[i] # NoConn
        BY <1>1, <1>3, <1>4, <2>3, Sentinels
      <3>2. \A d \in Calls, i \in 1..Len(idle') : d # c => conn[d] # idle'[i]
        BY <1>3, <1>4, <2>5 DEF Ownership
      <3> QED BY <1>2, <3>1, <3>2
    <2>7. \A d \in Calls : conn'[d] \in Conns => link'[conn'[d]].next > 0
      BY <1>2, Sentinels DEF Ownership, Shrunk
    <2>8. \A i \in 1..Len(idle') : link'[idle'[i]].next > 0
      <3>1. \A i \in 1..Len(idle) : link'[idle[i]].next > 0
        BY <2>3 DEF Ownership, Shrunk
      <3>2. link'[k].next > 0
        BY <1>1 DEF Shrunk
      <3> QED BY <1>3, <1>4, <3>1, <3>2
    <2>9. ASSUME NEW x \in Conns, link'[x] # NoLink
          PROVE  (\E d \in Calls : conn'[d] = x) \/ (\E i \in 1..Len(idle') : idle'[i] = x)
      <3>1. (\E d \in Calls : conn[d] = x) \/ (\E i \in 1..Len(idle) : idle[i] = x)
        BY <2>9 DEF Ownership, Shrunk
      <3>2. Len(idle) + 1 \in 1..Len(idle') /\ \A i \in 1..Len(idle) : i \in 1..Len(idle')
        BY <1>3
      <3>3. CASE x = k
        BY <1>3, <3>2, <3>3
      <3>4. CASE x # k
        BY <1>2, <1>3, <3>1, <3>2, <3>4 DEF k
      <3> QED BY <3>3, <3>4
    <2> QED BY <2>1, <2>2, <2>4, <2>6, <2>7, <2>8, <2>9 DEF Ownership
  <1>7. Queueing'
    <2>1. \A i \in 1..Len(queue) : queue[i] \in Calls /\ pc[queue[i]] = "waiting"
      BY DEF Queueing, TypeOK
    <2>2. \A i \in 1..Len(queue) : pc'[queue[i]] = "waiting"
      BY <1>2, <2>1
    <2> QED BY <2>2 DEF Queueing
  <1>8. Permits'
    <2>1. /\ v \in PcStates /\ v \notin Holding /\ pc[c] \in Holding /\ pc \in [Calls -> PcStates]
          /\ pc' = [pc EXCEPT ![c] = v]
      BY DEF Recycle, TypeOK
    <2> HIDE DEF PcStates, Holding
    <2>2. /\ Cardinality(HoldersOf(pc)) \in Nat
          /\ Cardinality(HoldersOf(pc')) = Cardinality(HoldersOf(pc)) - 1
      BY <2>1, HolderChange
    <2> QED BY <1>3, <2>2, MetainfoAssumption DEF Permits, Holders, HoldersOf
  <1>9. Wire'
    <2>1. \A d \in Calls : pc'[d] = "reading" =>
             d # c /\ pc[d] = "reading" /\ conn'[d] = conn[d] /\ conn[d] \in Conns
      BY <1>2 DEF Ownership, Attached
    <2>2. \A d \in Calls : pc'[d] = "reading" => stream'[d] = link'[conn'[d]].next - 1
      BY <2>1 DEF Wire, Shrunk
    <2>3. ASSUME NEW x \in Conns, link'[x].request \in Calls
          PROVE  pc'[link'[x].request] = "reading" /\ conn'[link'[x].request] = x
      <3>1. link'[x].request = link[x].request
        BY DEF Shrunk
      <3>2. pc[link[x].request] = "reading" /\ conn[link[x].request] = x
        BY <2>3, <3>1 DEF Wire
      <3>3. link[x].request # c
        BY <2>3, <3>1, <3>2, Sentinels
      <3> QED BY <1>2, <2>3, <3>1, <3>2, <3>3
    <2>4. ASSUME NEW x \in Conns, NEW i \in 1..Len(link'[x].packets)
          PROVE  LET p == link'[x].packets[i] IN
                 /\ p.stream < link'[x].next
                 /\ p.stream = link'[x].next - 1 => link'[x].request = NoCall
                 /\ \A d \in Calls : pc'[d] = "reading" /\ conn'[d] = x /\ p.stream = stream'[d] => p.call = d
      BY <2>1, <2>4, ShrunkPackets
    <2> QED BY <2>2, <2>3, <2>4 DEF Wire
  <1>10. AppliedExact'
    <2>1. ASSUME NEW d \in Calls \ Idempotent
          PROVE  /\ pc'[d] # "backoff"
                 /\ applied'[d] <= 1
                 /\ pc'[d] \in {"new", "waiting", "dialing", "sending"} => applied'[d] = 0
                 /\ \A x \in Conns : link'[x].request = d => applied'[d] = 0
      BY <1>2 DEF AppliedExact, Shrunk
    <2>2. \A x \in Conns : \A i \in 1..Len(link'[x].packets) :
             link'[x].packets[i].kind = "message" => applied'[link'[x].packets[i].call] >= 1
      BY ShrunkPackets
    <2>3. \A d \in Calls : pc'[d] \in {"closing", "ok"} => applied'[d] >= 1
      BY <1>2 DEF AppliedExact
    <2> QED BY <2>1, <2>2, <2>3 DEF AppliedExact
  <1> QED BY <1>5, <1>6, <1>7, <1>8, <1>9, <1>10

\* MetainfoClient::close drops idle connections, on which nothing is under way.
LEMMA CloseInv ==
    ASSUME Inv, Close
    PROVE  Inv'
  <1> USE DEF Inv, Done, Holding, PcStates
  <1>1. UNCHANGED <<pc, attempt, conn, stream, queue, applied, decided>> /\ idle' = <<>>
    BY DEF Close
  <1>2. \A x \in Conns : x \in Range(idle) <=> \E i \in 1..Len(idle) : idle[i] = x
    BY DEF Range, TypeOK
  <1>3. \A x \in Conns : link'[x] = IF \E i \in 1..Len(idle) : idle[i] = x THEN NoLink ELSE link[x]
    BY <1>2 DEF Close
  <1>4. TypeOK'
    <2>1. link' \in [Conns -> Link]
      BY Sentinels DEF Close, TypeOK
    <2> QED BY <1>1, <2>1 DEF TypeOK
  <1>5. \A d \in Calls : conn[d] \in Conns => link'[conn[d]] = link[conn[d]]
    BY <1>3 DEF Ownership
  <1>6. Ownership'
    <2>1. Len(idle') = 0
      BY <1>1
    <2>2. \A x \in Conns : link'[x] # NoLink => \E d \in Calls : conn[d] = x
      BY <1>3 DEF Ownership
    <2> QED BY <1>1, <1>5, <2>1, <2>2 DEF Ownership
  <1>7. Queueing' /\ OwnAnswer'
    BY <1>1 DEF Queueing, OwnAnswer
  <1>8. Permits'
    <2>1. Cardinality(Holders) \in Nat /\ Len(idle) \in Nat /\ Len(idle') = 0
      BY <1>1, HolderNat DEF TypeOK
    <2>2. Holders' = Holders
      BY <1>1 DEF Holders
    <2> QED BY <2>1, <2>2, MetainfoAssumption DEF Permits
  <1>9. Wire'
    <2>1. \A d \in Calls : pc[d] = "reading" => conn[d] \in Conns
      BY DEF Ownership, Attached
    <2>2. \A x \in Conns : link'[x].request \in Calls => link'[x] = link[x]
      BY <1>3, Sentinels
    <2>3. \A x \in Conns : \A i \in 1..Len(link'[x].packets) : link'[x] = link[x]
      BY <1>3, Sentinels
    <2>4. \A d \in Calls : pc'[d] = "reading" => stream'[d] = link'[conn'[d]].next - 1
      BY <1>1, <1>5, <2>1 DEF Wire
    <2>5. \A x \in Conns : link'[x].request \in Calls =>
             pc'[link'[x].request] = "reading" /\ conn'[link'[x].request] = x
      BY <1>1, <2>2 DEF Wire
    <2> QED BY <1>1, <2>3, <2>4, <2>5 DEF Wire
  <1>10. AppliedExact'
    <2>1. \A x \in Conns : link'[x].request \in Calls => link'[x] = link[x]
      BY <1>3, Sentinels
    <2>2. \A x \in Conns : \A i \in 1..Len(link'[x].packets) : link'[x] = link[x]
      BY <1>3, Sentinels
    <2> QED BY <1>1, <2>1, <2>2 DEF AppliedExact
  <1> QED BY <1>4, <1>6, <1>7, <1>8, <1>9, <1>10

-----------------------------------------------------------------------------
(* Every step *)

\* The only request on the connection of a call is the call's own.
LEMMA OwnRequest ==
    ASSUME Inv, NEW c \in Calls, conn[c] # NoConn
    PROVE  /\ conn[c] \in Conns
           /\ link[conn[c]].request \in Calls => link[conn[c]].request = c
  <1>1. conn[c] \in Conns
    BY DEF Inv, TypeOK
  <1>2. ASSUME link[conn[c]].request \in Calls PROVE link[conn[c]].request = c
    <2> DEFINE d == link[conn[c]].request
    <2>1. conn[d] = conn[c]
      BY <1>1, <1>2 DEF Inv, Wire
    <2> QED BY <1>1, <1>2, <2>1 DEF Inv, Ownership
  <1> QED BY <1>1, <1>2

\* Dropping a call's connection may apply the call's own request, no other.
LEMMA DropApplies ==
    ASSUME Inv, NEW c \in Calls, conn[c] # NoConn, Drop(conn[c])
    PROVE  \/ applied' = applied
           \/ /\ applied' = [applied EXCEPT ![c] = @ + 1]
              /\ \E k \in Conns : link[k].request = c
  BY OwnRequest DEF Drop

\* An attempt that fails without a usable connection.
LEMMA FailDeadInv ==
    ASSUME Inv, NEW c \in Calls, NEW retryable \in BOOLEAN, pc[c] \in Holding,
           FailDead(c, retryable), UNCHANGED stream,
           decided' \in [Calls -> Calls \cup {NoCall}], OwnAnswer'
    PROVE  Inv'
  <1> DEFINE v == AfterFailure(c, retryable)
  <1>1. v \in {"backoff", "err", "cancelled"} /\ (v = "backoff" => c \in Idempotent)
    BY DEF AfterFailure, MayRetry
  <1> HIDE DEF v
  <1>2. /\ pc' = [pc EXCEPT ![c] = v]
        /\ conn' = [conn EXCEPT ![c] = NoConn]
        /\ UNCHANGED <<attempt, queue, idle>>
        /\ conn[c] = NoConn => link' = link /\ applied' = applied
        /\ conn[c] # NoConn => Drop(conn[c])
    BY DEF FailDead, v
  <1>3. \/ applied' = applied
        \/ /\ applied' = [applied EXCEPT ![c] = @ + 1]
           /\ pc[c] = "sending" \/ (\E k \in Conns : link[k].request = c)
    BY <1>2, DropApplies
  <1>4. conn[c] # NoConn => link' = [link EXCEPT ![conn[c]] = NoLink]
    BY <1>2 DEF Drop
  <1>5. pc[c] # "waiting"
    BY DEF Holding
  <1> QED BY <1>1, <1>2, <1>3, <1>4, <1>5, LeavesInv

\* The first packet that is not stale answers the call that reads it, and its
\* request is no longer under way.
LEMMA FirstPacket ==
    ASSUME Inv, NEW c \in Calls, pc[c] = "reading", link[conn[c]].packets # <<>>,
           ~Stale(c, Head(link[conn[c]].packets))
    PROVE  LET p == Head(link[conn[c]].packets) IN
           /\ p.call = c
           /\ p.kind = "message" => applied[c] >= 1
           /\ link[conn[c]].request = NoCall
  <1> DEFINE k == conn[c]
             p == Head(link[k].packets)
  <1>1. k \in Conns /\ stream[c] = link[k].next - 1 /\ stream[c] \in Nat
    BY DEF Inv, Ownership, Attached, Wire, TypeOK
  <1>2. link[k] \in Link
    BY <1>1 DEF Inv, TypeOK
  <1>3. link[k].packets \in Seq(Packet) /\ link[k].next \in Nat
    BY <1>2 DEF Link
  <1>4. 1 \in 1..Len(link[k].packets) /\ p = link[k].packets[1] /\ p \in Packet
    BY <1>3
  <1>5. p.stream \in Nat
    BY <1>4 DEF Packet
  <1>6. /\ p.stream < link[k].next
        /\ p.stream = link[k].next - 1 => link[k].request = NoCall
        /\ p.stream = stream[c] => p.call = c
    BY <1>1, <1>4 DEF Inv, Wire
  <1>7. p.stream = stream[c]
    BY <1>1, <1>3, <1>5, <1>6 DEF Stale
  <1>8. p.kind = "message" => applied[p.call] >= 1
    BY <1>1, <1>4 DEF Inv, AppliedExact
  <1> QED BY <1>1, <1>6, <1>7, <1>8

\* A packet is read: skipped, delivered, or the end of the attempt.
LEMMA ReadPacketInv ==
    ASSUME Inv, NEW c \in Calls, ReadPacket(c)
    PROVE  Inv'
  <1> DEFINE k == conn[c]
             p == Head(link[k].packets)
  <1>1. /\ pc[c] = "reading" /\ link[k].packets # <<>> /\ UNCHANGED stream
        /\ k \in Conns /\ link[k] # NoLink
        /\ decided \in [Calls -> Calls \cup {NoCall}]
    BY Sentinels DEF ReadPacket, Inv, Ownership, Attached, TypeOK
  <1>2. link' = [link EXCEPT ![k].packets = Tail(@)] => Shrunk
    BY <1>1, TailShrinks
  <1>3. CASE Stale(c, p)
    <2>1. /\ link' = [link EXCEPT ![k].packets = Tail(@)]
          /\ UNCHANGED <<pc, attempt, conn, queue, idle, applied, decided>>
      BY <1>3 DEF ReadPacket
    <2>2. OwnAnswer'
      BY <2>1 DEF Inv, OwnAnswer
    <2>3. decided' \in [Calls -> Calls \cup {NoCall}]
      BY <1>1, <2>1
    <2> QED BY <1>1, <1>2, <2>1, <2>2, <2>3, ReadOnInv
  <1>4. CASE ~Stale(c, p)
    <2>1. /\ p.call = c /\ link[k].request = NoCall
          /\ p.kind = "message" => applied[c] >= 1
      BY <1>1, <1>4, FirstPacket
    <2>2. decided' = [decided EXCEPT ![c] = c]
      BY <1>4, <2>1 DEF ReadPacket
    <2>3. decided' \in [Calls -> Calls \cup {NoCall}] /\ OwnAnswer'
      BY <1>1, <2>2 DEF Inv, OwnAnswer
    <2>4. CASE p.kind = "message"
      <3>1. /\ pc' = [pc EXCEPT ![c] = "closing"]
            /\ link' = [link EXCEPT ![k].packets = Tail(@)]
            /\ UNCHANGED <<attempt, conn, queue, idle, applied>>
        BY <1>4, <2>4 DEF ReadPacket
      <3> QED BY <1>1, <1>2, <2>1, <2>3, <2>4, <3>1, ReadOnInv
    <2>5. CASE p.kind = "error"
      <3>1. /\ \E retryable \in BOOLEAN : Recycle(c, AfterFailure(c, retryable))
            /\ link' = [link EXCEPT ![k].packets = Tail(@)]
            /\ UNCHANGED <<attempt, queue, applied>>
        BY <1>4, <2>5 DEF ReadPacket
      <3>2. PICK retryable \in BOOLEAN : Recycle(c, AfterFailure(c, retryable))
        BY <3>1
      <3> DEFINE v == AfterFailure(c, retryable)
      <3>3. v \in {"backoff", "err", "ok"} /\ (v = "backoff" => c \in Idempotent) /\ v # "ok"
        BY DEF AfterFailure, MayRetry
      <3> HIDE DEF v
      <3>4. Recycle(c, v)
        BY <3>2 DEF v
      <3> QED BY <1>1, <1>2, <2>1, <2>3, <3>1, <3>3, <3>4, RecycleInv
    <2>6. CASE p.kind \notin {"message", "error"}
      <3>1. FailDead(c, TRUE)
        BY <1>4, <2>6 DEF ReadPacket
      <3>2. pc[c] \in Holding
        BY <1>1 DEF Holding
      <3> QED BY <1>1, <2>3, <3>1, <3>2, FailDeadInv
    <2> QED BY <2>4, <2>5, <2>6
  <1> QED BY <1>3, <1>4

\* Every step of the client and of the satellite preserves the invariant.
LEMMA NextInv == Inv /\ [Next]_vars => Inv'
  <1> SUFFICES ASSUME Inv, [Next]_vars PROVE Inv'
    OBVIOUS
  <1>0. decided \in [Calls -> Calls \cup {NoCall}] /\ OwnAnswer
    BY DEF Inv, TypeOK
  <1>1. CASE Acquire
    BY <1>1, AcquireInv
  <1>2. CASE Close
    BY <1>2, CloseInv
  <1>3. CASE UNCHANGED vars
    BY <1>3 DEF vars, Inv, TypeOK, Ownership, Queueing, Permits, Holders, Wire, AppliedExact, OwnAnswer
  <1>4. ASSUME NEW c \in Calls, Call(c) PROVE Inv'
    BY <1>4, WaitInv DEF Call
  <1>5. ASSUME NEW c \in Calls, DialEnds(c) PROVE Inv'
    <2>1. CASE FailDead(c, TRUE)
      <3>1. decided' = decided /\ stream' = stream /\ pc[c] \in Holding
        BY <1>5 DEF DialEnds, Holding
      <3>2. OwnAnswer' /\ decided' \in [Calls -> Calls \cup {NoCall}]
        BY <1>0, <3>1 DEF OwnAnswer
      <3> QED BY <2>1, <3>1, <3>2, FailDeadInv
    <2>2. CASE ~FailDead(c, TRUE)
      BY <1>5, <2>2, DialedInv DEF DialEnds
    <2> QED BY <2>1, <2>2
  <1>6. ASSUME NEW c \in Calls, BackoffEnds(c) PROVE Inv'
    BY <1>6, WaitInv DEF BackoffEnds
  <1>7. ASSUME NEW c \in Calls, Send(c) PROVE Inv'
    BY <1>7, SendInv
  <1>8. ASSUME NEW c \in Calls, SendFails(c) PROVE Inv'
    <2> DEFINE v == AfterFailure(c, TRUE)
    <2>1. v \in {"backoff", "err", "cancelled"} /\ (v = "backoff" => c \in Idempotent)
      BY DEF AfterFailure, MayRetry
    <2> HIDE DEF v
    <2>2. /\ pc[c] = "sending"
          /\ pc' = [pc EXCEPT ![c] = v]
          /\ conn' = [conn EXCEPT ![c] = NoConn]
          /\ link' = [link EXCEPT ![conn[c]] = NoLink]
          /\ applied' = applied \/ applied' = [applied EXCEPT ![c] = @ + 1]
          /\ UNCHANGED <<attempt, stream, queue, idle, decided>>
      BY <1>8 DEF SendFails, v
    <2>3. conn[c] # NoConn
      BY <2>2, Sentinels DEF Inv, Ownership, Attached
    <2>4. OwnAnswer' /\ decided' \in [Calls -> Calls \cup {NoCall}] /\ pc[c] \in Holding /\ pc[c] # "waiting"
      BY <1>0, <2>2 DEF OwnAnswer, Holding
    <2> QED BY <2>1, <2>2, <2>3, <2>4, LeavesInv
  <1>9. ASSUME NEW c \in Calls, ReadPacket(c) PROVE Inv'
    BY <1>9, ReadPacketInv
  <1>10. ASSUME NEW c \in Calls, ReadFails(c) PROVE Inv'
    <2>1. decided' = decided /\ stream' = stream /\ pc[c] \in Holding
      BY <1>10 DEF ReadFails, Holding
    <2>2. OwnAnswer' /\ decided' \in [Calls -> Calls \cup {NoCall}]
      BY <1>0, <2>1 DEF OwnAnswer
    <2>3. PICK retryable \in BOOLEAN : FailDead(c, retryable)
      BY <1>10 DEF ReadFails
    <2> QED BY <2>1, <2>2, <2>3, FailDeadInv
  <1>11. ASSUME NEW c \in Calls, CloseWritten(c) PROVE Inv'
    <2>1. pc[c] = "closing" /\ Recycle(c, "ok") /\ UNCHANGED <<attempt, stream, queue, link, applied, decided>>
      BY <1>11 DEF CloseWritten
    <2>2. applied[c] >= 1
      BY <2>1 DEF Inv, AppliedExact
    <2>3. conn[c] \in Conns
      BY <2>1 DEF Inv, Ownership, Attached
    <2>4. link[conn[c]].request \in Requests
      BY <2>3 DEF Inv, TypeOK, Link
    <2>5. link[conn[c]].request = NoCall
      BY <2>1, <2>3, <2>4, OwnRequest, Sentinels DEF Inv, Wire, Requests
    <2>6. Shrunk
      BY <2>1 DEF Shrunk, Inv, TypeOK
    <2>7. OwnAnswer' /\ decided' \in [Calls -> Calls \cup {NoCall}]
      BY <1>0, <2>1 DEF OwnAnswer
    <2> QED BY <2>1, <2>2, <2>5, <2>6, <2>7, RecycleInv
  <1>12. ASSUME NEW c \in Calls, CloseFails(c) PROVE Inv'
    <2>1. decided' = decided /\ stream' = stream /\ pc[c] \in Holding /\ FailDead(c, TRUE)
      BY <1>12 DEF CloseFails, Holding
    <2>2. OwnAnswer' /\ decided' \in [Calls -> Calls \cup {NoCall}]
      BY <1>0, <2>1 DEF OwnAnswer
    <2> QED BY <2>1, <2>2, FailDeadInv
  <1>13. ASSUME NEW c \in Calls, Cancel(c) PROVE Inv'
    <2>1. /\ pc[c] \in Holding \cup {"waiting", "backoff"}
          /\ pc' = [pc EXCEPT ![c] = "cancelled"]
          /\ conn' = [conn EXCEPT ![c] = NoConn]
          /\ queue' = RemoveFirst(queue, c)
          /\ UNCHANGED <<attempt, stream, decided, idle>>
          /\ conn[c] = NoConn => link' = link /\ applied' = applied
          /\ conn[c] # NoConn => Drop(conn[c])
      BY <1>13 DEF Cancel, Abandon
    <2>2. \/ applied' = applied
          \/ /\ applied' = [applied EXCEPT ![c] = @ + 1]
             /\ pc[c] = "sending" \/ (\E k \in Conns : link[k].request = c)
      BY <2>1, DropApplies
    <2>3. conn[c] # NoConn => link' = [link EXCEPT ![conn[c]] = NoLink]
      BY <2>1 DEF Drop
    <2>4. OwnAnswer' /\ decided' \in [Calls -> Calls \cup {NoCall}]
      BY <1>0, <2>1 DEF OwnAnswer
    <2> QED BY <2>1, <2>2, <2>3, <2>4, LeavesInv
  <1>14. ASSUME NEW k \in Conns, Serve(k) PROVE Inv'
    BY <1>14, ServeInv
  <1> QED BY <1>1, <1>2, <1>3, <1>4, <1>5, <1>6, <1>7, <1>8, <1>9, <1>10, <1>11, <1>12, <1>13, <1>14
          DEF Next, Idle

-----------------------------------------------------------------------------
(* Theorems *)

\* Connections, requests and answers stay in their places along every
\* behaviour of the client and the satellite.
THEOREM InvHolds == Spec => []Inv
  BY InitInv, NextInv, PTL DEF Spec

\* invoke_with: a mutating request is applied at most once and a call that
\* succeeded was applied; every exchange is decided by its own answer; idle,
\* used and dialled connections together never exceed the permits.
THEOREM CallsExactHolds == Spec => []CallsExact
  <1>1. Inv => CallsExact
    BY CapFromInv DEF CallsExact, AppliedOnce, Inv, AppliedExact
  <1> QED BY <1>1, InvHolds, PTL
=============================================================================
