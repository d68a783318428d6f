------------------------ MODULE SegmentUploadProofs -------------------------
(***************************************************************************)
(* Proofs about the upload of one segment: the pool of storage-node        *)
(* connections (SnPool), then the long-tail upload whose piece tasks take  *)
(* their connections from it (LongTailUpload).  The two are proved apart:  *)
(* neither part's argument uses the other's variables.                     *)
(*                                                                         *)
(* The pool, for every number of tasks, nodes and connections.  The cap    *)
(* (WithinCap) is not inductive by itself: checkout compares the hand-kept *)
(* counters with the cap, so the argument needs them to be exact           *)
(* (CountersExact), and exactness of idle_count needs returned connections *)
(* to be distinct, which the instants provide (IdlePast).                  *)
(*                                                                         *)
(* The long tail, for every set of pieces, number of rounds and placement  *)
(* requirement: the client's limits stay the satellite's, only current     *)
(* limits are used and reported, and every piece that was stored is        *)
(* reported.  UploadInv is the inductive invariant.  ReportMatchesSegment  *)
(* alone is not inductive: it needs that all assignments follow the        *)
(* satellite (InStep), that results were produced under the assignments    *)
(* still in force (ResultsCurrent), which in turn needs that a failed      *)
(* piece has no result (Apart), since only failed pieces get new limits.   *)
(***************************************************************************)
EXTENDS SnPool, LongTailUpload, FiniteSetTheorems, WellFoundedInduction,
        SequenceTheorems, TLAPS

-----------------------------------------------------------------------------
(* The pool: its inductive invariant *)

\* Every idle connection was returned at a past instant, and there are
\* finitely many.
IdlePast ==
    /\ IsFiniteSet(idle)
    /\ \A c \in idle : c.since <= clock

\* The inductive invariant behind the cap.
CapInv ==
    /\ PoolTypeOK
    /\ IdlePast
    /\ CountersExact
    /\ WithinCap

Owning(f) == {t \in Tasks : f[t] \in {"dialing", "rpc"}}

-----------------------------------------------------------------------------
(* Lemmas about sets and counters *)

\* Removing part of a finite set lowers its cardinality by the part's.
LEMMA RemoveCardinality ==
    ASSUME NEW S, NEW G, IsFiniteSet(S), G \subseteq S
    PROVE  /\ IsFiniteSet(S \ G)
           /\ IsFiniteSet(G)
           /\ Cardinality(S) \in Nat
           /\ Cardinality(G) \in Nat
           /\ Cardinality(G) <= Cardinality(S)
           /\ Cardinality(S \ G) = Cardinality(S) - Cardinality(G)
           /\ Cardinality(S \ G) \in Nat
  <1>1. IsFiniteSet(G) /\ Cardinality(G) <= Cardinality(S)
    BY FS_Subset
  <1>2. IsFiniteSet(S \ G)
    BY FS_Subset
  <1>3. /\ Cardinality(S) \in Nat
        /\ Cardinality(G) \in Nat
        /\ Cardinality(S \ G) \in Nat
    BY <1>1, <1>2, FS_CardinalityType
  <1>4. (S \ G) \cup G = S /\ (S \ G) \cap G = {}
    OBVIOUS
  <1>5. Cardinality(S) = Cardinality(S \ G) + Cardinality(G) - Cardinality({})
    BY <1>1, <1>2, <1>4, FS_Union
  <1> QED
    BY <1>1, <1>2, <1>3, <1>5, FS_EmptySet

\* A task that takes a slot is one more owner; one that leaves it, one less.
LEMMA OwnerChange ==
    ASSUME NEW f \in [Tasks -> PcStates], NEW t \in Tasks, NEW v \in PcStates
    PROVE  LET g == [f EXCEPT ![t] = v] IN
           /\ Cardinality(Owning(f)) \in Nat
           /\ t \notin Owning(f) /\ v \in {"dialing", "rpc"} =>
                 Cardinality(Owning(g)) = Cardinality(Owning(f)) + 1
           /\ t \in Owning(f) /\ v \notin {"dialing", "rpc"} =>
                 /\ Cardinality(Owning(g)) = Cardinality(Owning(f)) - 1
                 /\ Cardinality(Owning(f)) > 0
           /\ (t \in Owning(f) <=> v \in {"dialing", "rpc"}) =>
                 Cardinality(Owning(g)) = Cardinality(Owning(f))
  <1> DEFINE g == [f EXCEPT ![t] = v]
  <1>1. IsFiniteSet(Owning(f))
    BY PoolAssumption, FS_Subset DEF Owning
  <1>2. Cardinality(Owning(f)) \in Nat
    BY <1>1, FS_CardinalityType
  <1>3. ASSUME t \notin Owning(f), v \in {"dialing", "rpc"}
        PROVE  Cardinality(Owning(g)) = Cardinality(Owning(f)) + 1
    <2>1. Owning(g) = Owning(f) \cup {t}
      BY <1>3 DEF Owning
    <2> QED BY <1>1, <1>3, <2>1, FS_AddElement
  <1>4. ASSUME t \in Owning(f), v \notin {"dialing", "rpc"}
        PROVE  /\ Cardinality(Owning(g)) = Cardinality(Owning(f)) - 1
               /\ Cardinality(Owning(f)) > 0
    <2>1. Owning(g) = Owning(f) \ {t}
      BY <1>4 DEF Owning
    <2>2. Owning(f) # {}
      BY <1>4
    <2>3. Cardinality(Owning(f)) # 0
      BY <1>1, <2>2, FS_EmptySet
    <2>4. Cardinality(Owning(f) \ {t}) = Cardinality(Owning(f)) - 1
      BY <1>1, <1>4, FS_RemoveElement
    <2>5. Cardinality(Owning(f)) > 0
      BY <1>2, <2>3
    <2> QED BY <2>1, <2>4, <2>5
  <1>5. ASSUME t \in Owning(f) <=> v \in {"dialing", "rpc"}
        PROVE  Cardinality(Owning(g)) = Cardinality(Owning(f))
    <2>1. Owning(g) = Owning(f)
      BY <1>5 DEF Owning
    <2> QED BY <2>1
  <1> QED BY <1>2, <1>3, <1>4, <1>5

\* A set of natural numbers that is not empty has a least element.
LEMMA LeastNat ==
    ASSUME NEW T, T \subseteq Nat, T # {}
    PROVE  \E m \in T : \A y \in T : m <= y
  <1>1. PICK m \in T : \A y \in T : ~(<<y, m>> \in OpToRel(<, Nat))
    BY ONLY T \subseteq Nat, T # {}, NatLessThanWellFounded, WFMin
  <1>2. \A y \in T : ~(y < m)
    BY <1>1 DEF OpToRel
  <1>3. \A y \in T : m <= y
    BY <1>2
  <1> QED BY <1>3

\* pop_idle finds a connection whenever the node has a fresh one.
LEMMA FreshIsFound ==
    ASSUME PoolTypeOK, NEW n, NEW d \in IdleOf(n), Fresh(d)
    PROVE  PopFound(n) # {}
  <1> DEFINE T == {e.since : e \in {x \in IdleOf(n) : Fresh(x)}}
  <1>1. T \subseteq Nat /\ T # {}
    BY DEF PoolTypeOK, IdleConn, IdleOf
  <1> HIDE DEF T
  <1>2. PICK m \in T : \A y \in T : m <= y
    BY <1>1, LeastNat
  <1>3. PICK e \in IdleOf(n) : Fresh(e) /\ e.since = m
    BY <1>2 DEF T
  <1>4. ASSUME NEW x \in IdleOf(n), Fresh(x) PROVE e.since <= x.since
    BY <1>2, <1>3, <1>4 DEF T
  <1>5. e \in PopFound(n)
    BY <1>3, <1>4 DEF PopFound
  <1> QED BY <1>5

\* pop_idle removes idle connections only; when the node has any, it removes
\* at least one; when it finds none, it has removed them all.
LEMMA PopRemovedProps ==
    ASSUME PoolTypeOK, NEW n
    PROVE  /\ PopRemoved(n) \subseteq IdleOf(n)
           /\ PopRemoved(n) \subseteq idle
           /\ PopFound(n) \subseteq PopRemoved(n)
           /\ IdleOf(n) # {} => PopRemoved(n) # {}
           /\ PopFound(n) = {} => PopRemoved(n) = IdleOf(n)
  <1>1. /\ PopRemoved(n) \subseteq IdleOf(n)
        /\ PopRemoved(n) \subseteq idle
        /\ PopFound(n) \subseteq PopRemoved(n)
    BY DEF PopRemoved, PopFound, IdleOf
  <1>2. ASSUME PopFound(n) = {} PROVE PopRemoved(n) = IdleOf(n)
    BY <1>1, <1>2, FreshIsFound DEF PopRemoved
  <1> QED BY <1>1, <1>2

-----------------------------------------------------------------------------
(* Type correctness *)

\* notify_one keeps the waiter list and the program counters well typed.
LEMMA NotifyOneType ==
    ASSUME NEW f \in [Tasks -> PcStates], permit \in BOOLEAN, waiters \in Seq(Tasks),
           NotifyOne(waiters, f)
    PROVE  /\ permit' \in BOOLEAN
           /\ waiters' \in Seq(Tasks)
           /\ pc' \in [Tasks -> PcStates]
  <1>1. CASE waiters = <<>>
    BY <1>1 DEF NotifyOne
  <1>2. CASE waiters # <<>>
    BY <1>2, HeadTailProperties DEF NotifyOne, PcStates
  <1> QED BY <1>1, <1>2

LEMMA SatSubType ==
    ASSUME NEW a \in Nat, NEW b \in Nat
    PROVE  SatSub(a, b) \in Nat
  BY DEF SatSub

\* GiveBack keeps the types and IdlePast.
LEMMA GiveBackType ==
    ASSUME PoolTypeOK, NEW t \in Tasks, NEW r \in BOOLEAN, NEW q \in BOOLEAN, GiveBack(t, r, q)
    PROVE  PoolTypeOK'
  <1> DEFINE conn == [node |-> node[t], since |-> clock + 1, quiet |-> q]
  <1>1. inUse' \in Nat
    BY DEF PoolTypeOK, GiveBack, SatSub
  <1>2. pc' \in [Tasks -> PcStates]
    BY DEF PoolTypeOK, GiveBack, PcStates
  <1>3. clock' \in Nat /\ idleCount' \in Nat
    BY DEF PoolTypeOK, GiveBack
  <1>4. conn \in IdleConn
    BY DEF PoolTypeOK, IdleConn
  <1>5. idle' \subseteq IdleConn
    BY <1>4 DEF PoolTypeOK, GiveBack
  <1> QED BY <1>1, <1>2, <1>3, <1>5 DEF PoolTypeOK, GiveBack

\* The counters after RemoveIdle, for connections that really are idle.
LEMMA RemoveIdleProps ==
    ASSUME PoolTypeOK, IdlePast, idleCount = Cardinality(idle),
           NEW gone \in SUBSET idle, RemoveIdle(gone)
    PROVE  /\ idle' = idle \ gone
           /\ idle' \subseteq IdleConn
           /\ IsFiniteSet(idle')
           /\ idleCount' \in Nat
           /\ Cardinality(gone) \in Nat
           /\ idleCount' = idleCount - Cardinality(gone)
           /\ idleCount' = Cardinality(idle')
           /\ gone # {} => Cardinality(gone) >= 1
  <1>1. /\ IsFiniteSet(idle \ gone)
        /\ IsFiniteSet(gone)
        /\ Cardinality(gone) \in Nat
        /\ Cardinality(idle) \in Nat
        /\ Cardinality(gone) <= Cardinality(idle)
        /\ Cardinality(idle \ gone) = Cardinality(idle) - Cardinality(gone)
    BY RemoveCardinality DEF IdlePast
  <1>2. idle' = idle \ gone /\ idleCount' = idleCount - Cardinality(gone)
    BY <1>1 DEF RemoveIdle, SatSub
  <1>3. gone # {} => Cardinality(gone) # 0
    BY <1>1, FS_EmptySet
  <1> QED BY <1>1, <1>2, <1>3 DEF PoolTypeOK

-----------------------------------------------------------------------------
(* The cap *)

\* One turn of the checkout loop keeps the counters exact and the cap.
LEMMA CheckoutCap ==
    ASSUME CapInv, NEW t \in Tasks, Checkout(t)
    PROVE  CapInv'
  <1> USE DEF CapInv
  <1> DEFINE n == node[t]
  <1>1. /\ PopRemoved(n) \subseteq idle
        /\ PopFound(n) \subseteq PopRemoved(n)
    BY PopRemovedProps
  <1>2. /\ pc \in [Tasks -> PcStates]
        /\ t \notin Owning(pc)
        /\ inUse = Cardinality(Owning(pc))
        /\ idleCount = Cardinality(idle)
        /\ inUse \in Nat /\ idleCount \in Nat
    BY DEF PoolTypeOK, Checkout, Owning, CountersExact, Holders
  <1>3. MaxConnections \in Nat
    BY PoolAssumption
  <1>4. ASSUME NEW gone \in SUBSET idle, RemoveIdle(gone),
               NEW v \in {"rpc", "dialing", "parking"}, pc' = [pc EXCEPT ![t] = v],
               inUse' = IF v = "parking" THEN inUse ELSE inUse + 1,
               inUse' + idleCount' <= MaxConnections
        PROVE  CapInv'
    <2>1. /\ idle' \subseteq idle
          /\ idle' \subseteq IdleConn
          /\ IsFiniteSet(idle')
          /\ idleCount' \in Nat
          /\ idleCount' = Cardinality(idle')
      BY <1>2, <1>4, RemoveIdleProps
    <2>2. v \in PcStates
      BY DEF PcStates
    <2>3. inUse' = Cardinality(Owning(pc'))
      BY <1>2, <1>4, <2>2, OwnerChange
    <2>4. PoolTypeOK'
      BY <1>2, <1>4, <2>1, <2>2 DEF PoolTypeOK, Checkout
    <2>5. IdlePast'
      BY <2>1 DEF IdlePast, Checkout
    <2> QED BY <2>1, <2>3, <2>4, <2>5, <1>4 DEF CountersExact, WithinCap, Holders, Owning
  <1>5. CASE CheckoutReuse(t)
    <2>1. PopRemoved(n) # {}
      BY <1>1, <1>5 DEF CheckoutReuse
    <2>2. RemoveIdle(PopRemoved(n))
      BY <1>5 DEF CheckoutReuse
    <2>3. /\ Cardinality(PopRemoved(n)) \in Nat
          /\ idleCount' = idleCount - Cardinality(PopRemoved(n))
          /\ Cardinality(PopRemoved(n)) >= 1
      BY <1>1, <1>2, <2>1, <2>2, RemoveIdleProps
    <2>4. inUse' + idleCount' <= MaxConnections
      BY <1>2, <1>3, <1>5, <2>3 DEF CheckoutReuse, WithinCap
    <2> QED BY <1>1, <1>4, <1>5, <2>2, <2>4 DEF CheckoutReuse
  <1>6. CASE CheckoutDial(t)
    <2> DEFINE left == SatSub(idleCount, Cardinality(PopRemoved(n)))
    <2>1. PICK evicted \in IF inUse + left >= MaxConnections THEN EvictOneIdle(n) ELSE {{}} :
             RemoveIdle(PopRemoved(n) \cup evicted)
      BY <1>6 DEF CheckoutDial
    <2> DEFINE gone == PopRemoved(n) \cup evicted
    <2>2. evicted = {} \/ \E c \in AfterMiss(n) : evicted = PopRemoved(c.node)
      BY <2>1 DEF EvictOneIdle
    <2>3. gone \subseteq idle
      BY <1>1, <2>2, PopRemovedProps
    <2>4. /\ Cardinality(gone) \in Nat
          /\ idleCount' = idleCount - Cardinality(gone)
          /\ idleCount' = Cardinality(idle')
          /\ idle' = idle \ gone
          /\ idleCount' \in Nat
      BY <1>2, <2>1, <2>3, RemoveIdleProps
    <2>5. /\ Cardinality(PopRemoved(n)) \in Nat
          /\ Cardinality(idle \ PopRemoved(n)) = left
          /\ left \in Nat
          /\ IsFiniteSet(idle \ PopRemoved(n))
      <3>1. /\ Cardinality(PopRemoved(n)) \in Nat
            /\ Cardinality(PopRemoved(n)) <= Cardinality(idle)
            /\ Cardinality(idle \ PopRemoved(n)) = Cardinality(idle) - Cardinality(PopRemoved(n))
            /\ Cardinality(idle \ PopRemoved(n)) \in Nat
            /\ IsFiniteSet(idle \ PopRemoved(n))
        BY <1>1, RemoveCardinality DEF IdlePast
      <3> QED BY <1>2, <3>1 DEF SatSub
    <2>6. inUse < MaxConnections /\ inUse' = inUse + 1
      BY <1>6 DEF CheckoutDial
    <2>7. inUse + left <= MaxConnections
      <3>1. left <= idleCount
        BY <1>2, <2>5 DEF SatSub
      <3> QED BY <1>2, <1>3, <2>5, <3>1 DEF WithinCap
    <2>8. inUse' + idleCount' <= MaxConnections
      <3>1. CASE inUse + left < MaxConnections
        <4>1. evicted = {}
          BY <1>2, <1>3, <2>1, <2>5, <3>1
        <4>2. idleCount' = left
          BY <2>4, <2>5, <4>1
        <4> QED BY <1>2, <1>3, <2>5, <2>6, <3>1, <4>2
      <3>2. CASE inUse + left >= MaxConnections
        <4>1. left # 0
          BY <1>2, <1>3, <2>5, <2>6, <3>2
        <4>2. AfterMiss(n) # {}
          BY <2>5, <4>1, FS_EmptySet DEF AfterMiss
        <4>3. PICK c \in AfterMiss(n) : evicted = PopRemoved(c.node)
          BY <2>1, <3>2, <4>2 DEF EvictOneIdle
        <4>4. c \in idle /\ c \in IdleOf(c.node) /\ c.node # n
          <5>1. c \in idle /\ c \notin PopRemoved(n)
            BY <4>3 DEF AfterMiss
          <5>2. PopFound(n) = {}
            BY <1>6 DEF CheckoutDial
          <5>3. IdleOf(n) \subseteq PopRemoved(n)
            BY <5>2, PopRemovedProps
          <5> QED BY <5>1, <5>3 DEF IdleOf
        <4>5. evicted # {}
          BY <4>3, <4>4, PopRemovedProps
        <4>6. evicted \subseteq idle \ PopRemoved(n)
          BY <4>3, <4>4, <1>1, PopRemovedProps DEF IdleOf
        <4>7. /\ Cardinality((idle \ PopRemoved(n)) \ evicted) =
                    Cardinality(idle \ PopRemoved(n)) - Cardinality(evicted)
              /\ Cardinality(evicted) \in Nat
              /\ IsFiniteSet(evicted)
          BY <2>5, <4>6, RemoveCardinality
        <4>8. Cardinality(evicted) # 0
          BY <4>5, <4>7, FS_EmptySet
        <4>9. (idle \ PopRemoved(n)) \ evicted = idle \ gone
          OBVIOUS
        <4>10. idleCount' = left - Cardinality(evicted)
          BY <2>4, <2>5, <4>7, <4>9
        <4> QED BY <1>2, <1>3, <2>5, <2>6, <2>7, <4>7, <4>8, <4>10
      <3> QED BY <1>2, <1>3, <2>5, <3>1, <3>2
    <2> QED BY <1>4, <1>6, <2>1, <2>3, <2>8 DEF CheckoutDial
  <1>7. CASE CheckoutWait(t)
    <2>1. RemoveIdle(PopRemoved(n)) /\ inUse' = inUse
      BY <1>7 DEF CheckoutWait
    <2>2. /\ Cardinality(PopRemoved(n)) \in Nat
          /\ idleCount' = idleCount - Cardinality(PopRemoved(n))
      BY <1>1, <1>2, <2>1, RemoveIdleProps
    <2>3. inUse' + idleCount' <= MaxConnections
      BY <1>2, <1>3, <2>1, <2>2 DEF WithinCap
    <2> QED BY <1>1, <1>4, <1>7, <2>1, <2>3 DEF CheckoutWait
  <1> QED BY <1>5, <1>6, <1>7 DEF Checkout

\* Giving a slot back, with or without its connection, keeps both.
LEMMA GiveBackCap ==
    ASSUME CapInv, NEW t \in Tasks, t \in Holders,
           NEW r \in BOOLEAN, NEW q \in BOOLEAN, GiveBack(t, r, q)
    PROVE  CapInv'
  <1> USE DEF CapInv
  <1> DEFINE conn == [node |-> node[t], since |-> clock + 1, quiet |-> q]
  <1>1. PoolTypeOK'
    BY GiveBackType
  <1>2. /\ inUse = Cardinality(Owning(pc)) /\ t \in Owning(pc)
        /\ pc \in [Tasks -> PcStates] /\ pc' = [pc EXCEPT ![t] = "notifying"]
        /\ "notifying" \in PcStates \ {"dialing", "rpc"}
        /\ inUse \in Nat /\ idleCount \in Nat /\ clock \in Nat
    BY DEF CountersExact, Holders, Owning, PoolTypeOK, GiveBack, PcStates
  <1>3. Cardinality(Owning(pc')) = inUse - 1 /\ inUse > 0
    BY <1>2, OwnerChange
  <1>4. inUse' = inUse - 1 /\ inUse' = Cardinality(Holders')
    BY <1>2, <1>3 DEF GiveBack, SatSub, Holders, Owning
  <1>5. CASE r
    <2>1. idle' = idle \cup {conn} /\ idleCount' = idleCount + 1 /\ clock' = clock + 1
      BY <1>5 DEF GiveBack
    <2>2. conn \notin idle
      <3> SUFFICES ASSUME conn \in idle PROVE FALSE
        OBVIOUS
      <3>1. conn.since <= clock
        BY DEF IdlePast
      <3> QED BY <1>2, <3>1
    <2>3. IsFiniteSet(idle') /\ Cardinality(idle') = Cardinality(idle) + 1
      <3> HIDE DEF conn
      <3> QED BY <2>1, <2>2, FS_AddElement DEF IdlePast
    <2>4. \A c \in idle' : c.since <= clock'
      <3>1. \A c \in idle : c.since \in Nat /\ c.since <= clock
        BY DEF IdlePast, PoolTypeOK, IdleConn
      <3>2. conn.since = clock + 1
        OBVIOUS
      <3> HIDE DEF conn
      <3> QED BY <1>2, <2>1, <3>1, <3>2
    <2> QED BY <1>1, <1>2, <1>3, <1>4, <2>1, <2>3, <2>4, PoolAssumption
            DEF CountersExact, IdlePast, WithinCap
  <1>6. CASE ~r
    <2>1. idle' = idle /\ idleCount' = idleCount /\ clock' = clock
      BY <1>6 DEF GiveBack
    <2> QED BY <1>1, <1>2, <1>3, <1>4, <2>1, PoolAssumption
            DEF CountersExact, IdlePast, WithinCap
  <1> QED BY <1>5, <1>6

\* notify_one changes who is woken, never who owns a slot.
LEMMA NotifyOwners ==
    ASSUME NEW f \in [Tasks -> PcStates], NotifyOne(waiters, f),
           waiters \in Seq(Tasks),
           \A i \in DOMAIN waiters : f[waiters[i]] \notin {"dialing", "rpc"}
    PROVE  Owning(pc') = Owning(f)
  <1>1. CASE waiters = <<>>
    BY <1>1 DEF NotifyOne
  <1>2. CASE waiters # <<>>
    <2>1. Head(waiters) \in Tasks /\ f[Head(waiters)] \notin {"dialing", "rpc"}
      BY <1>2
    <2> QED BY <1>2, <2>1 DEF NotifyOne, Owning
  <1> QED BY <1>1, <1>2

-----------------------------------------------------------------------------
(* The waiter list *)

\* w lists exactly the tasks that f says are parked, each once.
Lists(w, f) ==
    /\ \A u \in Tasks : f[u] = "parked" <=> \E i \in DOMAIN w : w[i] = u
    /\ \A i, j \in DOMAIN w : w[i] = w[j] => i = j

LEMMA NotifyLists ==
    ASSUME NEW f \in [Tasks -> PcStates], waiters \in Seq(Tasks), permit \in BOOLEAN,
           Lists(waiters, f), permit => waiters = <<>>, NotifyOne(waiters, f)
    PROVE  WaitersParked'
  <1>1. CASE waiters = <<>>
    BY <1>1 DEF NotifyOne, WaitersParked, Lists
  <1>2. CASE waiters # <<>>
    <2> DEFINE h == Head(waiters)
    <2>1. /\ waiters' = Tail(waiters) /\ permit' = permit
          /\ pc' = [f EXCEPT ![h] = "woken"]
      BY <1>2 DEF NotifyOne
    <2>2. /\ Len(waiters) \in Nat /\ Len(waiters) >= 1
          /\ DOMAIN waiters = 1..Len(waiters)
          /\ DOMAIN waiters' = 1..(Len(waiters) - 1)
          /\ h = waiters[1]
          /\ h \in Tasks
          /\ \A i \in DOMAIN waiters' : waiters'[i] = waiters[i + 1]
      BY <1>2, <2>1, HeadTailProperties
    <2>3. \A i, j \in DOMAIN waiters' : waiters'[i] = waiters'[j] => i = j
      <3> SUFFICES ASSUME NEW i \in DOMAIN waiters', NEW j \in DOMAIN waiters',
                          waiters'[i] = waiters'[j]
                   PROVE  i = j
        OBVIOUS
      <3>1. i + 1 \in DOMAIN waiters /\ j + 1 \in DOMAIN waiters
        BY <2>2
      <3>2. waiters[i + 1] = waiters[j + 1]
        BY <2>2
      <3>3. i + 1 = j + 1
        BY <3>1, <3>2 DEF Lists
      <3> QED BY <2>2, <3>3
    <2>4. ASSUME NEW u \in Tasks
          PROVE  pc'[u] = "parked" <=> \E i \in DOMAIN waiters' : waiters'[i] = u
      <3>1. CASE u = h
        <4>1. pc'[u] # "parked"
          BY <2>1, <2>2, <3>1
        <4>2. ASSUME NEW i \in DOMAIN waiters', waiters'[i] = u PROVE FALSE
          <5>1. waiters[i + 1] = waiters[1] /\ i + 1 \in DOMAIN waiters /\ 1 \in DOMAIN waiters
            BY <2>2, <3>1, <4>2
          <5>2. i + 1 = 1
            BY <5>1 DEF Lists
          <5> QED BY <2>2, <5>2
        <4> QED BY <4>1, <4>2
      <3>2. CASE u # h
        <4>1. pc'[u] = f[u]
          BY <2>1, <3>2
        <4>2. ASSUME NEW i \in DOMAIN waiters, waiters[i] = u
              PROVE  \E j \in DOMAIN waiters' : waiters'[j] = u
          <5>1. i # 1
            BY <2>2, <3>2, <4>2
          <5>2. i - 1 \in DOMAIN waiters' /\ waiters'[i - 1] = waiters[(i - 1) + 1]
            BY <2>2, <5>1
          <5>3. (i - 1) + 1 = i
            BY <2>2
          <5> QED BY <4>2, <5>2, <5>3
        <4>3. ASSUME NEW i \in DOMAIN waiters', waiters'[i] = u
              PROVE  \E j \in DOMAIN waiters : waiters[j] = u
          BY <2>2, <4>3
        <4> QED BY <4>1, <4>2, <4>3 DEF Lists
      <3> QED BY <3>1, <3>2
    <2>5. permit' => waiters' = <<>>
      BY <1>2, <2>1
    <2> QED BY <2>3, <2>4, <2>5 DEF WaitersParked
  <1> QED BY <1>1, <1>2

\* A task that moves between states other than "parked" leaves the list alone.
LEMMA SameLists ==
    ASSUME NEW f \in [Tasks -> PcStates], NEW w, NEW t \in Tasks, NEW v,
           Lists(w, f), f[t] # "parked", v # "parked"
    PROVE  Lists(w, [f EXCEPT ![t] = v])
  BY DEF Lists

\* Cutting element k out of a sequence moves the later ones down by one.
LEMMA CutProps ==
    ASSUME NEW w \in Seq(Tasks), NEW k \in 1..Len(w)
    PROVE  LET c == SubSeq(w, 1, k - 1) \o SubSeq(w, k + 1, Len(w)) IN
           /\ c \in Seq(Tasks)
           /\ DOMAIN c = 1..(Len(w) - 1)
           /\ \A i \in 1..(Len(w) - 1) : c[i] = IF i < k THEN w[i] ELSE w[i + 1]
  <1> DEFINE a == SubSeq(w, 1, k - 1)
             b == SubSeq(w, k + 1, Len(w))
  <1>1. Len(w) \in Nat /\ k \in Nat /\ k >= 1 /\ k <= Len(w)
    OBVIOUS
  <1>2. /\ a \in Seq(Tasks) /\ Len(a) = k - 1
        /\ \A i \in 1..(k - 1) : a[i] = w[i]
    BY <1>1, SubSeqProperties
  <1>3. /\ b \in Seq(Tasks) /\ Len(b) = Len(w) - k
        /\ \A i \in 1..(Len(w) - k) : b[i] = w[k + i]
    BY <1>1, SubSeqProperties
  <1> HIDE DEF a, b
  <1>4. /\ a \o b \in Seq(Tasks) /\ Len(a \o b) = Len(a) + Len(b)
        /\ \A i \in 1..(Len(a) + Len(b)) :
              (a \o b)[i] = IF i <= Len(a) THEN a[i] ELSE b[i - Len(a)]
    BY <1>2, <1>3, ConcatProperties
  <1>5. DOMAIN (a \o b) = 1..(Len(w) - 1)
    BY <1>1, <1>2, <1>3, <1>4
  <1>6. ASSUME NEW i \in 1..(Len(w) - 1)
        PROVE  (a \o b)[i] = IF i < k THEN w[i] ELSE w[i + 1]
    <2>1. CASE i < k
      BY <1>1, <1>2, <1>3, <1>4, <2>1
    <2>2. CASE i >= k
      <3>1. (a \o b)[i] = b[i - (k - 1)] /\ i - (k - 1) \in 1..(Len(w) - k)
        BY <1>1, <1>2, <1>3, <1>4, <2>2
      <3>2. b[i - (k - 1)] = w[k + (i - (k - 1))]
        BY <1>3, <3>1
      <3>3. k + (i - (k - 1)) = i + 1
        BY <1>1
      <3> QED BY <1>1, <2>2, <3>1, <3>2, <3>3
    <2>3. i < k \/ i >= k
      BY <1>1
    <2> QED BY <2>1, <2>2, <2>3
  <1> QED BY <1>4, <1>5, <1>6 DEF a, b

\* Cutting a parked task out of the list when it is cancelled.
LEMMA CutLists ==
    ASSUME NEW f \in [Tasks -> PcStates], NEW w, NEW n \in Nat, DOMAIN w = 1..n,
           NEW t \in Tasks, NEW k \in 1..n, w[k] = t, Lists(w, f),
           NEW c, DOMAIN c = 1..(n - 1),
           \A i \in 1..(n - 1) : c[i] = IF i < k THEN w[i] ELSE w[i + 1]
    PROVE  Lists(c, [f EXCEPT ![t] = "done"])
  <1> DEFINE At(i) == IF i < k THEN i ELSE i + 1
  <1>1. \A i \in 1..(n - 1) : At(i) \in 1..n /\ At(i) # k /\ c[i] = w[At(i)]
    OBVIOUS
  <1>2. \A i, j \in 1..(n - 1) : At(i) = At(j) => i = j
    OBVIOUS
  <1>3. \A i \in 1..n : i # k => \E j \in 1..(n - 1) : At(j) = i
    <2> SUFFICES ASSUME NEW i \in 1..n, i # k PROVE \E j \in 1..(n - 1) : At(j) = i
      OBVIOUS
    <2>1. CASE i < k
      <3>1. i \in 1..(n - 1) /\ At(i) = i
        BY <2>1
      <3> QED BY <3>1
    <2>2. CASE i > k
      <3>1. i - 1 \in 1..(n - 1) /\ At(i - 1) = i
        BY <2>2
      <3> QED BY <3>1
    <2> QED BY <2>1, <2>2
  <1> HIDE DEF At
  <1>4. \A i, j \in 1..n : w[i] = w[j] => i = j
    BY DEF Lists
  <1>5. \A i, j \in DOMAIN c : c[i] = c[j] => i = j
    BY <1>1, <1>2, <1>4
  <1>6. ASSUME NEW u \in Tasks
        PROVE  [f EXCEPT ![t] = "done"][u] = "parked" <=> \E i \in DOMAIN c : c[i] = u
    <2>1. CASE u = t
      BY <1>1, <1>4, <2>1
    <2>2. CASE u # t
      <3>1. (\E i \in 1..n : w[i] = u) <=> \E i \in 1..(n - 1) : c[i] = u
        <4>1. ASSUME NEW i \in 1..n, w[i] = u PROVE \E j \in 1..(n - 1) : c[j] = u
          <5>1. PICK j \in 1..(n - 1) : At(j) = i
            BY <1>3, <2>2, <4>1
          <5> QED BY <1>1, <4>1, <5>1
        <4>2. ASSUME NEW i \in 1..(n - 1), c[i] = u PROVE \E j \in 1..n : w[j] = u
          BY <1>1, <4>2
        <4> QED BY <4>1, <4>2
      <3> QED BY <2>2, <3>1 DEF Lists
    <2> QED BY <2>1, <2>2
  <1> QED BY <1>5, <1>6 DEF Lists

LEMMA QueueStep ==
    ASSUME PoolTypeOK, WaitersParked, NEW t \in Tasks, TaskStep(t) \/ Cancel(t)
    PROVE  WaitersParked'
  <1> USE DEF PoolTypeOK
  <1>1. /\ Lists(waiters, pc) /\ (permit => waiters = <<>>)
        /\ pc \in [Tasks -> PcStates] /\ waiters \in Seq(Tasks) /\ permit \in BOOLEAN
    BY DEF Lists, WaitersParked
  <1>2. ASSUME NEW v, pc[t] # "parked", v # "parked", pc' = [pc EXCEPT ![t] = v],
               waiters' = waiters, permit' = permit
        PROVE  WaitersParked'
    <2>1. Lists(waiters, [pc EXCEPT ![t] = v])
      BY <1>1, <1>2, SameLists
    <2> QED BY <1>1, <1>2, <2>1 DEF Lists, WaitersParked
  <1>3. ASSUME pc[t] # "parked", NotifyOne(waiters, [pc EXCEPT ![t] = "done"])
        PROVE  WaitersParked'
    <2>1. [pc EXCEPT ![t] = "done"] \in [Tasks -> PcStates]
      BY <1>1 DEF PcStates
    <2>2. Lists(waiters, [pc EXCEPT ![t] = "done"])
      BY <1>1, <1>3, SameLists
    <2> QED BY <1>1, <1>3, <2>1, <2>2, NotifyLists
  <1>4. ASSUME NEW r, NEW q, pc[t] # "parked", GiveBack(t, r, q)
        PROVE  WaitersParked'
    BY <1>2, <1>4 DEF GiveBack
  <1>5. CASE Checkout(t)
    BY <1>2, <1>5 DEF Checkout, CheckoutReuse, CheckoutDial, CheckoutWait
  <1>6. CASE Park(t)
    <2>1. CASE permit
      <3>1. /\ pc' = [pc EXCEPT ![t] = "retry"] /\ waiters' = waiters
            /\ permit' = FALSE /\ pc[t] # "parked"
        BY <1>6, <2>1 DEF Park
      <3>2. Lists(waiters, [pc EXCEPT ![t] = "retry"])
        BY <1>1, <3>1, SameLists
      <3> QED BY <3>1, <3>2 DEF Lists, WaitersParked
    <2>2. CASE ~permit
      <3>1. /\ pc' = [pc EXCEPT ![t] = "parked"] /\ waiters' = Append(waiters, t)
            /\ permit' = FALSE /\ pc[t] # "parked"
        BY <1>1, <1>6, <2>2 DEF Park
      <3>2. /\ DOMAIN waiters = 1..Len(waiters) /\ Len(waiters) \in Nat
            /\ DOMAIN waiters' = 1..(Len(waiters) + 1)
            /\ waiters'[Len(waiters) + 1] = t
            /\ \A i \in DOMAIN waiters : waiters'[i] = waiters[i]
        BY <1>1, <3>1, AppendProperties
      <3>3. \A i \in DOMAIN waiters : waiters[i] # t
        BY <1>1, <3>1 DEF Lists
      <3>4. \A i, j \in DOMAIN waiters' : waiters'[i] = waiters'[j] => i = j
        BY <1>1, <3>2, <3>3 DEF Lists
      <3>5. ASSUME NEW u \in Tasks
            PROVE  pc'[u] = "parked" <=> \E i \in DOMAIN waiters' : waiters'[i] = u
        <4>1. CASE u = t
          BY <1>1, <3>1, <3>2, <4>1
        <4>2. CASE u # t
          BY <1>1, <3>1, <3>2, <4>2 DEF Lists
        <4> QED BY <4>1, <4>2
      <3> QED BY <3>1, <3>4, <3>5 DEF WaitersParked
    <2> QED BY <2>1, <2>2
  <1>7. CASE DialOk(t)
    BY <1>2, <1>7 DEF DialOk
  <1>8. CASE DialErr(t)
    BY <1>4, <1>8 DEF DialErr
  <1>9. CASE RpcReturns(t)
    BY <1>4, <1>9 DEF RpcReturns
  <1>10. CASE Notify(t)
    BY <1>3, <1>10 DEF Notify
  <1>11. CASE Cancel(t)
    <2>1. CASE pc[t] = "spawned"
      BY <1>2, <1>11, <2>1 DEF Cancel
    <2>2. CASE pc[t] = "parked"
      <3>1. PICK k \in DOMAIN waiters :
              /\ waiters[k] = t
              /\ waiters' = SubSeq(waiters, 1, k - 1) \o SubSeq(waiters, k + 1, Len(waiters))
        BY <1>11, <2>2 DEF Cancel
      <3>2. pc' = [pc EXCEPT ![t] = "done"] /\ permit' = permit
        BY <1>11, <2>2 DEF Cancel
      <3>3. DOMAIN waiters = 1..Len(waiters) /\ Len(waiters) \in Nat /\ k \in 1..Len(waiters)
        BY <1>1
      <3>4. /\ DOMAIN waiters' = 1..(Len(waiters) - 1)
            /\ \A i \in 1..(Len(waiters) - 1) :
                  waiters'[i] = IF i < k THEN waiters[i] ELSE waiters[i + 1]
        BY <1>1, <3>1, <3>3, CutProps
      <3>5. waiters # <<>> /\ ~permit
        BY <1>1, <3>3
      <3>6. waiters[k] = t
        BY <3>1
      <3>7. Lists(waiters', pc')
        <4>1. pc \in [Tasks -> PcStates] /\ Lists(waiters, pc)
          BY <1>1
        <4>2. Lists(waiters', [pc EXCEPT ![t] = "done"])
          BY ONLY <3>3, <3>4, <3>6, <4>1, CutLists, t \in Tasks
        <4> QED BY <3>2, <4>2
      <3> QED BY <3>2, <3>5, <3>7 DEF WaitersParked, Lists
    <2>3. CASE pc[t] = "woken"
      BY <1>3, <1>11, <2>3 DEF Cancel
    <2>4. CASE pc[t] \in {"dialing", "rpc"}
      BY <1>4, <1>11, <2>4 DEF Cancel
    <2> QED BY <1>11, <2>1, <2>2, <2>3, <2>4 DEF Cancel
  <1> QED BY <1>5, <1>6, <1>7, <1>8, <1>9, <1>10, <1>11 DEF TaskStep

-----------------------------------------------------------------------------
(* Every step keeps the cap *)

LEMMA CapStep ==
    ASSUME CapInv, WaitersParked, [PoolNext]_poolVars
    PROVE  CapInv'
  <1> USE DEF CapInv
  <1>1. ASSUME NEW f \in [Tasks -> PcStates], NEW t \in Tasks, f = [pc EXCEPT ![t] = "done"],
               t \notin Holders, pc[t] # "parked", NotifyOne(waiters, f),
               UNCHANGED <<idle, idleCount, inUse, clock, horizon, node>>
        PROVE  CapInv'
    <2>1. \A i \in DOMAIN waiters : f[waiters[i]] \notin {"dialing", "rpc"}
      <3> SUFFICES ASSUME NEW i \in DOMAIN waiters PROVE f[waiters[i]] \notin {"dialing", "rpc"}
        OBVIOUS
      <3>1. waiters[i] \in Tasks
        BY DEF PoolTypeOK
      <3>2. pc[waiters[i]] = "parked"
        BY <3>1 DEF WaitersParked
      <3> QED BY <1>1, <3>1, <3>2 DEF PoolTypeOK
    <2>2. Owning(pc') = Owning(f)
      BY <1>1, <2>1, NotifyOwners DEF PoolTypeOK
    <2>3. Owning(f) = Owning(pc)
      BY <1>1 DEF Owning, Holders, PoolTypeOK
    <2>4. PoolTypeOK'
      BY <1>1, NotifyOneType DEF PoolTypeOK
    <2> QED BY <1>1, <2>2, <2>3, <2>4 DEF IdlePast, CountersExact, WithinCap, Holders, Owning
  <1>2. ASSUME NEW t \in Tasks, Park(t) PROVE CapInv'
    <2>1. PoolTypeOK'
      <3>1. pc' \in [Tasks -> PcStates]
        BY <1>2 DEF Park, PoolTypeOK, PcStates
      <3>2. permit' \in BOOLEAN
        BY <1>2 DEF Park, PoolTypeOK
      <3>3. waiters' \in Seq(Tasks)
        BY <1>2, AppendProperties DEF Park, PoolTypeOK
      <3> QED BY <1>2, <3>1, <3>2, <3>3 DEF Park, PoolTypeOK
    <2>2. Holders' = Holders
      BY <1>2 DEF Park, Holders, PoolTypeOK
    <2> QED BY <1>2, <2>1, <2>2 DEF Park, IdlePast, CountersExact, WithinCap
  <1>3. ASSUME NEW t \in Tasks, DialOk(t) PROVE CapInv'
    <2>1. PoolTypeOK'
      BY <1>3 DEF DialOk, PoolTypeOK, PcStates
    <2>2. Holders' = Holders
      BY <1>3 DEF DialOk, Holders, PoolTypeOK
    <2> QED BY <1>3, <2>1, <2>2 DEF DialOk, IdlePast, CountersExact, WithinCap
  <1>4. ASSUME NEW t \in Tasks, DialErr(t) PROVE CapInv'
    BY <1>4, GiveBackCap DEF DialErr, Holders
  <1>5. ASSUME NEW t \in Tasks, RpcReturns(t) PROVE CapInv'
    <2>1. PICK result \in RpcResults, poisoned \in BOOLEAN :
             GiveBack(t, Keep(result, poisoned), result = "ok" /\ ~poisoned)
      BY <1>5 DEF RpcReturns
    <2>2. Keep(result, poisoned) \in BOOLEAN /\ (result = "ok" /\ ~poisoned) \in BOOLEAN
      BY DEF Keep, PutBack
    <2> QED BY <1>5, <2>1, <2>2, GiveBackCap DEF RpcReturns, Holders
  <1>6. ASSUME NEW t \in Tasks, Notify(t) PROVE CapInv'
    <2>1. [pc EXCEPT ![t] = "done"] \in [Tasks -> PcStates]
      BY DEF PoolTypeOK, PcStates
    <2> QED BY <1>1, <1>6, <2>1 DEF Notify, Holders
  <1>7. ASSUME NEW t \in Tasks, Cancel(t) PROVE CapInv'
    <2>0. [pc EXCEPT ![t] = "done"] \in [Tasks -> PcStates]
      BY DEF PoolTypeOK, PcStates
    <2>1. CASE pc[t] = "spawned"
      <3>1. PoolTypeOK' /\ Holders' = Holders
        BY <1>7, <2>0, <2>1 DEF Cancel, PoolTypeOK, Holders
      <3> QED BY <1>7, <2>1, <3>1 DEF Cancel, IdlePast, CountersExact, WithinCap
    <2>2. CASE pc[t] = "parked"
      <3>1. PICK k \in DOMAIN waiters :
              waiters' = SubSeq(waiters, 1, k - 1) \o SubSeq(waiters, k + 1, Len(waiters))
        BY <1>7, <2>2 DEF Cancel
      <3>2. waiters' \in Seq(Tasks)
        <4>1. waiters \in Seq(Tasks) /\ k \in 1..Len(waiters)
          BY DEF PoolTypeOK
        <4> QED BY <3>1, <4>1, CutProps
      <3>3. /\ pc' = [pc EXCEPT ![t] = "done"]
            /\ UNCHANGED <<idle, idleCount, inUse, clock, horizon, permit, node>>
        BY <1>7, <2>2 DEF Cancel
      <3>4. PoolTypeOK' /\ Holders' = Holders
        BY <2>0, <2>2, <3>2, <3>3 DEF PoolTypeOK, Holders
      <3> QED BY <3>3, <3>4 DEF IdlePast, CountersExact, WithinCap
    <2>3. CASE pc[t] = "woken"
      BY <1>1, <1>7, <2>0, <2>3 DEF Cancel, Holders
    <2>4. CASE pc[t] = "dialing"
      BY <1>7, <2>4, GiveBackCap DEF Cancel, Holders
    <2>5. CASE pc[t] = "rpc"
      BY <1>7, <2>5, GiveBackCap DEF Cancel, Holders, HeldKeep
    <2> QED BY <1>7, <2>1, <2>2, <2>3, <2>4, <2>5 DEF Cancel
  <1>8. CASE Tick
    <2>1. PoolTypeOK'
      BY <1>8 DEF Tick, PoolTypeOK
    <2> QED BY <1>8, <2>1 DEF Tick, IdlePast, CountersExact, WithinCap, Holders
  <1>9. CASE UNCHANGED poolVars
    BY <1>9 DEF poolVars, PoolTypeOK, IdlePast, CountersExact, WithinCap, Holders
  <1> QED
    BY <1>2, <1>3, <1>4, <1>5, <1>6, <1>7, <1>8, <1>9, CheckoutCap DEF PoolNext, TaskStep

\* The waiter list over the whole next-state relation.
LEMMA QueueNext ==
    ASSUME PoolTypeOK, WaitersParked, [PoolNext]_poolVars
    PROVE  WaitersParked'
  <1>1. CASE Tick
    BY <1>1 DEF Tick, WaitersParked
  <1>2. CASE UNCHANGED poolVars
    BY <1>2 DEF poolVars, WaitersParked
  <1> QED BY <1>1, <1>2, QueueStep DEF PoolNext

-----------------------------------------------------------------------------
(* No stranded waiter *)

\* Whoever gives a slot back, or is woken, is the mover the other waiters need.
LEMMA WakeStep ==
    ASSUME CapInv, WaitersParked, NoStrandedWaiter, [PoolNext]_poolVars
    PROVE  NoStrandedWaiter'
  <1> USE DEF CapInv
  <1>0. /\ pc \in [Tasks -> PcStates] /\ waiters \in Seq(Tasks)
        /\ permit \in BOOLEAN /\ node \in [Tasks -> Nodes]
    BY DEF PoolTypeOK
  <1>1. ASSUME NEW t \in Tasks, NEW v \in {"dialing", "rpc", "notifying", "woken", "retry"},
               pc' = [pc EXCEPT ![t] = v]
        PROVE  NoStrandedWaiter'
    <2>1. t \in Movers'
      BY <1>0, <1>1 DEF Movers
    <2> QED BY <2>1 DEF NoStrandedWaiter
  <1>2. ASSUME NEW t \in Tasks, pc[t] # "parked", NotifyOne(waiters, [pc EXCEPT ![t] = "done"])
        PROVE  NoStrandedWaiter'
    <2>1. CASE waiters = <<>>
      BY <1>2, <2>1 DEF NotifyOne, NoStrandedWaiter
    <2>2. CASE waiters # <<>>
      <3>1. Head(waiters) \in Tasks
        BY <1>0, <2>2
      <3>2. Head(waiters) \in Movers'
        BY <1>0, <1>2, <2>2, <3>1 DEF NotifyOne, Movers
      <3> QED BY <3>2 DEF NoStrandedWaiter
    <2> QED BY <2>1, <2>2
  <1>3. ASSUME NEW t \in Tasks, NEW r, NEW q, GiveBack(t, r, q) PROVE NoStrandedWaiter'
    BY <1>1, <1>3 DEF GiveBack
  <1>4. ASSUME NEW t \in Tasks, Checkout(t) PROVE NoStrandedWaiter'
    <2>1. CASE CheckoutReuse(t)
      BY <1>1, <2>1 DEF CheckoutReuse
    <2>2. CASE CheckoutDial(t)
      BY <1>1, <2>2 DEF CheckoutDial
    <2>3. CASE CheckoutWait(t)
      <3>1. inUse >= MaxConnections /\ pc' = [pc EXCEPT ![t] = "parking"]
        BY <2>3 DEF CheckoutWait
      <3>2. Cardinality(Holders) # 0
        BY <3>1, PoolAssumption DEF CountersExact, PoolTypeOK
      <3>3. PICK u \in Tasks : pc[u] \in {"dialing", "rpc"}
        BY <3>2, FS_EmptySet DEF Holders
      <3>4. u # t
        BY <1>4, <3>3 DEF Checkout
      <3>5. u \in Movers'
        BY <1>0, <3>1, <3>3, <3>4 DEF Movers
      <3> QED BY <3>5 DEF NoStrandedWaiter
    <2> QED BY <1>4, <2>1, <2>2, <2>3 DEF Checkout
  <1>5. ASSUME NEW t \in Tasks, Park(t) PROVE NoStrandedWaiter'
    <2>1. CASE permit
      BY <1>1, <1>5, <2>1 DEF Park
    <2>2. CASE ~permit
      <3>1. pc[t] = "parking" /\ pc' = [pc EXCEPT ![t] = "parked"] /\ permit' = permit
        BY <1>5, <2>2 DEF Park
      <3>2. t \in Waiting
        BY <3>1 DEF Waiting
      <3>3. PICK u \in Movers : TRUE
        BY <2>2, <3>2 DEF NoStrandedWaiter
      <3>4. u \in Movers'
        BY <1>0, <3>1, <3>3 DEF Movers
      <3> QED BY <3>4 DEF NoStrandedWaiter
    <2> QED BY <2>1, <2>2
  <1>6. ASSUME NEW t \in Tasks, Cancel(t) PROVE NoStrandedWaiter'
    <2>1. CASE pc[t] \in {"spawned", "parked"}
      <3>1. pc' = [pc EXCEPT ![t] = "done"] /\ permit' = permit
        BY <1>6, <2>1 DEF Cancel
      <3>2. Waiting' \subseteq Waiting
        BY <1>0, <3>1 DEF Waiting
      <3>3. Movers \subseteq Movers'
        BY <1>0, <2>1, <3>1 DEF Movers
      <3> QED BY <3>1, <3>2, <3>3 DEF NoStrandedWaiter
    <2>2. CASE pc[t] = "woken"
      BY <1>2, <1>6, <2>2 DEF Cancel
    <2>3. CASE pc[t] \in {"dialing", "rpc"}
      BY <1>3, <1>6, <2>3 DEF Cancel
    <2> QED BY <1>6, <2>1, <2>2, <2>3 DEF Cancel
  <1>7. ASSUME NEW t \in Tasks, TaskStep(t) PROVE NoStrandedWaiter'
    <2>1. CASE DialOk(t)
      BY <1>1, <2>1 DEF DialOk
    <2>2. CASE DialErr(t)
      BY <1>3, <2>2 DEF DialErr
    <2>3. CASE RpcReturns(t)
      BY <1>3, <2>3 DEF RpcReturns
    <2>4. CASE Notify(t)
      BY <1>2, <2>4 DEF Notify
    <2> QED BY <1>4, <1>5, <1>7, <2>1, <2>2, <2>3, <2>4 DEF TaskStep
  <1>8. CASE Tick
    BY <1>8 DEF Tick, NoStrandedWaiter, Waiting, Movers
  <1>9. CASE UNCHANGED poolVars
    BY <1>9 DEF poolVars, NoStrandedWaiter, Waiting, Movers
  <1> QED BY <1>6, <1>7, <1>8, <1>9 DEF PoolNext

-----------------------------------------------------------------------------
(* Only quiet connections are recycled *)

LEMMA QuietStep ==
    ASSUME PoolTypeOK, IdleQuiet, [PoolNext]_poolVars
    PROVE  IdleQuiet'
  <1>1. ASSUME idle' \subseteq idle PROVE IdleQuiet'
    BY <1>1 DEF IdleQuiet
  <1>2. ASSUME NEW t \in Tasks, NEW r \in BOOLEAN, NEW q, r => q, GiveBack(t, r, q)
        PROVE  IdleQuiet'
    BY <1>2 DEF GiveBack, IdleQuiet
  <1>3. ASSUME NEW t \in Tasks, Cancel(t) PROVE IdleQuiet'
    BY <1>1, <1>2, <1>3 DEF Cancel, HeldKeep
  <1>4. ASSUME NEW t \in Tasks, TaskStep(t) PROVE IdleQuiet'
    <2>1. CASE Checkout(t)
      BY <1>1, <2>1 DEF Checkout, CheckoutReuse, CheckoutDial, CheckoutWait, RemoveIdle
    <2>2. CASE Park(t) \/ DialOk(t) \/ Notify(t)
      BY <1>1, <2>2 DEF Park, DialOk, Notify
    <2>3. CASE DialErr(t)
      BY <1>2, <2>3 DEF DialErr
    <2>4. CASE RpcReturns(t)
      <3>1. PICK result \in RpcResults, poisoned \in BOOLEAN :
               GiveBack(t, Keep(result, poisoned), result = "ok" /\ ~poisoned)
        BY <2>4 DEF RpcReturns
      <3>2. /\ Keep(result, poisoned) \in BOOLEAN
            /\ Keep(result, poisoned) => result = "ok" /\ ~poisoned
        BY DEF Keep, PutBack
      <3> QED BY <1>2, <3>1, <3>2
    <2> QED BY <1>4, <2>1, <2>2, <2>3, <2>4 DEF TaskStep
  <1>5. CASE Tick
    BY <1>1, <1>5 DEF Tick
  <1>6. CASE UNCHANGED poolVars
    BY <1>1, <1>6 DEF poolVars
  <1> QED BY <1>3, <1>4, <1>5, <1>6 DEF PoolNext

-----------------------------------------------------------------------------
(* The theorems *)

PoolInv == CapInv /\ WaitersParked /\ NoStrandedWaiter /\ IdleQuiet

LEMMA PoolInvInit == PoolInit => PoolInv
  <1> SUFFICES ASSUME PoolInit PROVE PoolInv
    OBVIOUS
  <1>1. PoolTypeOK
    <2>1. pc \in [Tasks -> PcStates]
      BY DEF PoolInit, PcStates
    <2>2. waiters \in Seq(Tasks)
      BY EmptySeq DEF PoolInit
    <2>3. permit \in BOOLEAN
      BY DEF PoolInit
    <2> QED BY <2>1, <2>2, <2>3 DEF PoolInit, PoolTypeOK
  <1>2. IdlePast /\ Holders = {}
    BY FS_EmptySet DEF PoolInit, IdlePast, Holders
  <1>3. CountersExact /\ WithinCap
    BY <1>2, FS_EmptySet, PoolAssumption DEF PoolInit, CountersExact, WithinCap
  <1>4. WaitersParked
    BY DEF PoolInit, WaitersParked
  <1>5. NoStrandedWaiter
    BY DEF PoolInit, NoStrandedWaiter, Waiting
  <1>6. IdleQuiet
    BY DEF PoolInit, IdleQuiet
  <1> QED BY <1>1, <1>2, <1>3, <1>4, <1>5, <1>6 DEF PoolInv, CapInv

LEMMA PoolInvariant == PoolSpec => []PoolInv
  <1>1. PoolInv /\ [PoolNext]_poolVars => PoolInv'
    BY CapStep, QueueNext, WakeStep, QuietStep DEF PoolInv, CapInv
  <1> QED BY <1>1, PoolInvInit, PTL DEF PoolSpec

\* The pool's variables keep their types, whatever the tasks do.
THEOREM PoolTypeCorrect == PoolSpec => []PoolTypeOK
  BY PoolInvariant, PTL DEF PoolInv, CapInv

\* in_use and idle_count are exact in every reachable state, for any number of
\* tasks, nodes and connections.
THEOREM CountersStayExact == PoolSpec => []CountersExact
  BY PoolInvariant, PTL DEF PoolInv, CapInv

\* Idle and in-use connections together never exceed max_connections.
THEOREM CapHolds == PoolSpec => []WithinCap
  BY PoolInvariant, PTL DEF PoolInv, CapInv

\* The pool's books (types, counters, cap) are right in every reachable state.
THEOREM AccountsExact == PoolSpec => []PoolAccounting
  BY PoolTypeCorrect, CountersStayExact, CapHolds, PTL DEF PoolAccounting

\* No interleaving of releases, wake-ups and cancellations strands a waiter.
THEOREM WaitersNotStranded == PoolSpec => []NoStrandedWaiter
  BY PoolInvariant, PTL DEF PoolInv

\* The Notify list holds exactly the parked tasks.
THEOREM WaiterListExact == PoolSpec => []WaitersParked
  BY PoolInvariant, PTL DEF PoolInv

\* No connection with an unfinished or failed RPC is ever offered for reuse.
THEOREM IdleStaysQuiet == PoolSpec => []IdleQuiet
  BY PoolInvariant, PTL DEF PoolInv

-----------------------------------------------------------------------------
(* The long tail: its inductive invariant *)

\* The client's segment id and assignments are the satellite's.
InStep ==
    /\ segmentId = sat.id
    /\ \A p \in Pieces : asg[p] = sat.limits[p]

\* Segment ids are rotated at most once a round.
IdsBounded ==
    /\ segmentId <= attempts
    /\ phase \in {"round", "drain", "retry"} => segmentId < attempts

\* An assignment is for its piece.
OwnPiece == \A p \in Pieces : asg[p] # NoLimit => asg[p].piece = p

\* Results were produced under the assignments in force.
ResultsCurrent == \A l \in successes \cup roundOk : asg[l.piece] = l

\* A piece is in one place: its task, a result, or the failures.
Apart ==
    /\ \A p \in Pieces : task[p] # "none" =>
          /\ asg[p] # NoLimit
          /\ p \notin failed
          /\ \A l \in successes \cup roundOk : l.piece # p
    /\ \A l \in successes \cup roundOk : l.piece \notin failed

\* Between rounds no task is left and the round's results are taken over.
BetweenRounds ==
    phase \in {"head", "retry", "committable"} =>
        /\ \A p \in Pieces : task[p] = "none"
        /\ roundOk \subseteq successes

\* What was stored has a result or a finished task.
StoredKept ==
    phase # "error" =>
        stored = successes \cup roundOk \cup {asg[p] : p \in {q \in Pieces : task[q] = "ok"}}

UploadInv ==
    /\ TypeOK
    /\ InStep
    /\ IdsBounded
    /\ OwnPiece
    /\ ResultsCurrent
    /\ Apart
    /\ BetweenRounds
    /\ StoredKept

-----------------------------------------------------------------------------
LEMMA InitInv == Init => UploadInv
  <1> SUFFICES ASSUME Init PROVE UploadInv OBVIOUS
  <1> USE LongTailUploadAssumption DEF Init
  <1>1. TypeOK
    <2>1. asg \in [Pieces -> Limit] BY DEF Limit
    <2>2. sat \in [id : 0..MaxAttempts, limits : [Pieces -> Limit \cup {NoLimit}]] BY <2>1
    <2> QED BY <2>1, <2>2 DEF TypeOK, Done, Outcomes
  <1>2. InStep BY DEF InStep
  <1>3. IdsBounded BY DEF IdsBounded
  <1>4. OwnPiece BY DEF OwnPiece
  <1>5. ResultsCurrent /\ Apart /\ BetweenRounds
    BY DEF ResultsCurrent, Apart, BetweenRounds
  <1>6. StoredKept BY DEF StoredKept
  <1> QED BY <1>1, <1>2, <1>3, <1>4, <1>5, <1>6 DEF UploadInv

LEMMA StartRoundInv == UploadInv /\ StartRound => UploadInv'
  <1> SUFFICES ASSUME UploadInv, StartRound PROVE UploadInv' OBVIOUS
  <1> USE LongTailUploadAssumption DEF StartRound, job
  <1>1. TypeOK' BY DEF UploadInv, TypeOK, Done, Outcomes
  <1>2. InStep' BY DEF UploadInv, InStep
  <1>3. IdsBounded' BY DEF UploadInv, TypeOK, IdsBounded
  <1>4. OwnPiece' BY DEF UploadInv, OwnPiece
  <1>5. ResultsCurrent' BY DEF UploadInv, ResultsCurrent
  <1>6. Apart' BY DEF UploadInv, Apart, Pending, Numbers, TypeOK
  <1>7. BetweenRounds' BY DEF BetweenRounds
  <1>8. StoredKept'
    <2>1. stored = successes BY DEF UploadInv, StoredKept, BetweenRounds
    <2>2. ~\E q \in Pieces : task'[q] = "ok" OBVIOUS
    <2> QED BY <2>1, <2>2 DEF StoredKept
  <1> QED BY <1>1, <1>2, <1>3, <1>4, <1>5, <1>6, <1>7, <1>8 DEF UploadInv

LEMMA LeaveAtHeadInv == UploadInv /\ LeaveAtHead => UploadInv'
  <1> SUFFICES ASSUME UploadInv, LeaveAtHead PROVE UploadInv' OBVIOUS
  <1> USE LongTailUploadAssumption DEF LeaveAtHead, Leave, Fail, job, round
  <1>0. /\ phase = "head"
        /\ phase' \in Done
        /\ cause' \in {cause, "threshold"}
        /\ met' \in {met, TRUE}
        /\ attempts' \in {attempts, attempts + 1} /\ (attempts' = attempts + 1 => attempts < MaxAttempts)
        /\ UNCHANGED <<segmentId, asg, task, roundOk, failed, successes, sat, stored>>
    BY DEF Done
  <1>1. TypeOK'
    <2>1. met' \in BOOLEAN BY <1>0 DEF UploadInv, TypeOK
    <2>2. attempts' \in 0..MaxAttempts BY <1>0 DEF UploadInv, TypeOK
    <2> QED BY <1>0, <2>1, <2>2 DEF UploadInv, TypeOK, Done
  <1>2. InStep' BY <1>0 DEF UploadInv, InStep
  <1>3. IdsBounded' BY <1>0 DEF UploadInv, TypeOK, IdsBounded, Done
  <1>4. OwnPiece' BY <1>0 DEF UploadInv, OwnPiece
  <1>5. ResultsCurrent' BY <1>0 DEF UploadInv, ResultsCurrent
  <1>6. Apart' BY <1>0 DEF UploadInv, Apart
  <1>7. BetweenRounds' BY <1>0 DEF UploadInv, BetweenRounds
  <1>8. StoredKept' BY <1>0 DEF UploadInv, StoredKept
  <1> QED BY <1>1, <1>2, <1>3, <1>4, <1>5, <1>6, <1>7, <1>8 DEF UploadInv

LEMMA TaskEndsInv == ASSUME NEW p \in Pieces PROVE UploadInv /\ TaskEnds(p) => UploadInv'
  <1> SUFFICES ASSUME UploadInv, TaskEnds(p) PROVE UploadInv' OBVIOUS
  <1> USE LongTailUploadAssumption DEF TaskEnds, job
  <1>1. TypeOK'
    <2>1. asg[p] \in Limit BY DEF UploadInv, TypeOK, Apart
    <2> QED BY <2>1 DEF UploadInv, TypeOK, Outcomes
  <1>2. InStep' BY DEF UploadInv, InStep
  <1>3. IdsBounded' BY DEF UploadInv, IdsBounded
  <1>4. OwnPiece' BY DEF UploadInv, OwnPiece
  <1>5. ResultsCurrent' BY DEF UploadInv, ResultsCurrent
  <1>6. Apart' BY DEF UploadInv, Apart, TypeOK
  <1>7. BetweenRounds' BY DEF UploadInv, BetweenRounds
  <1>8. StoredKept'
    <2>1. PICK out \in Outcomes :
             /\ task' = [task EXCEPT ![p] = out]
             /\ stored' = IF out = "ok" THEN stored \cup {asg[p]} ELSE stored
      OBVIOUS
    <2>2. \A q \in Pieces : task'[q] = IF q = p THEN out ELSE task[q]
      BY <2>1 DEF UploadInv, TypeOK
    <2>3. phase # "error" OBVIOUS
    <2>4. stored = successes \cup roundOk \cup {asg[q] : q \in {r \in Pieces : task[r] = "ok"}}
      BY <2>3 DEF UploadInv, StoredKept
    <2>5. CASE out = "ok"
      <3>1. {q \in Pieces : task'[q] = "ok"} = {q \in Pieces : task[q] = "ok"} \cup {p}
        BY <2>2, <2>5
      <3> QED BY <2>1, <2>4, <2>5, <3>1 DEF StoredKept
    <2>6. CASE out # "ok"
      <3>1. {q \in Pieces : task'[q] = "ok"} = {q \in Pieces : task[q] = "ok"}
        BY <2>2, <2>6
      <3> QED BY <2>1, <2>4, <2>6, <3>1 DEF StoredKept
    <2> QED BY <2>5, <2>6
  <1> QED BY <1>1, <1>2, <1>3, <1>4, <1>5, <1>6, <1>7, <1>8 DEF UploadInv

LEMMA JoinOkInv == ASSUME NEW p \in Pieces PROVE UploadInv /\ JoinOk(p) => UploadInv'
  <1> SUFFICES ASSUME UploadInv, JoinOk(p) PROVE UploadInv' OBVIOUS
  <1> USE LongTailUploadAssumption DEF JoinOk, Joined, job
  <1>0. /\ phase = "round" /\ task[p] = "ok"
        /\ phase' \in {"round", "drain"}
        /\ met' \in {met, TRUE}
        /\ task' = [task EXCEPT ![p] = "none"]
        /\ roundOk' = roundOk \cup {asg[p]}
        /\ UNCHANGED <<attempts, segmentId, asg, failed, successes, sat, cause, stored>>
    OBVIOUS
  <1>p. asg[p] \in Limit /\ asg[p].piece = p /\ p \notin failed
    BY <1>0 DEF UploadInv, TypeOK, Apart, OwnPiece
  <1>t. \A q \in Pieces : task'[q] = IF q = p THEN "none" ELSE task[q]
    BY <1>0 DEF UploadInv, TypeOK
  <1>1. TypeOK'
    <2> HIDE DEF JoinOk, Joined
    <2>0. TypeOK BY DEF UploadInv
    <2>1. met' \in BOOLEAN BY ONLY <1>0, <2>0 DEF TypeOK
    <2>2. task' \in [Pieces -> {"none", "running"} \cup Outcomes]
      BY ONLY <1>0, <2>0 DEF TypeOK
    <2>3. roundOk' \in SUBSET Limit BY ONLY <1>0, <1>p, <2>0 DEF TypeOK
    <2> QED BY ONLY <1>0, <2>0, <2>1, <2>2, <2>3 DEF TypeOK, job
  <1>2. InStep' BY <1>0 DEF UploadInv, InStep
  <1>3. IdsBounded' BY <1>0 DEF UploadInv, IdsBounded
  <1>4. OwnPiece' BY <1>0 DEF UploadInv, OwnPiece
  <1>5. ResultsCurrent' BY <1>0, <1>p DEF UploadInv, ResultsCurrent
  <1>6. Apart' BY <1>0, <1>p, <1>t DEF UploadInv, Apart
  <1>7. BetweenRounds' BY <1>0 DEF BetweenRounds
  <1>8. StoredKept'
    <2>1. stored = successes \cup roundOk \cup {asg[q] : q \in {r \in Pieces : task[r] = "ok"}}
      BY <1>0 DEF UploadInv, StoredKept
    <2>2. {q \in Pieces : task[q] = "ok"} = {q \in Pieces : task'[q] = "ok"} \cup {p}
      BY <1>0, <1>t
    <2> QED BY <1>0, <2>1, <2>2 DEF StoredKept
  <1> QED BY <1>1, <1>2, <1>3, <1>4, <1>5, <1>6, <1>7, <1>8 DEF UploadInv

LEMMA JoinErrInv == ASSUME NEW p \in Pieces PROVE UploadInv /\ JoinErr(p) => UploadInv'
  <1> SUFFICES ASSUME UploadInv, JoinErr(p) PROVE UploadInv' OBVIOUS
  <1> USE LongTailUploadAssumption DEF JoinErr, Joined, job
  <1>t. \A q \in Pieces : task'[q] = IF q = p THEN "none" ELSE task[q]
    BY DEF UploadInv, TypeOK
  <1>1. TypeOK' BY DEF UploadInv, TypeOK
  <1>2. InStep' BY DEF UploadInv, InStep
  <1>3. IdsBounded' BY DEF UploadInv, IdsBounded
  <1>4. OwnPiece' BY DEF UploadInv, OwnPiece
  <1>5. ResultsCurrent' BY DEF UploadInv, ResultsCurrent
  <1>6. Apart' BY <1>t DEF UploadInv, Apart
  <1>7. BetweenRounds' BY DEF BetweenRounds
  <1>8. StoredKept'
    <2>1. {q \in Pieces : task'[q] = "ok"} = {q \in Pieces : task[q] = "ok"}
      BY <1>t
    <2> QED BY <2>1 DEF UploadInv, StoredKept
  <1> QED BY <1>1, <1>2, <1>3, <1>4, <1>5, <1>6, <1>7, <1>8 DEF UploadInv

LEMMA JoinPanicInv == ASSUME NEW p \in Pieces PROVE UploadInv /\ JoinPanic(p) => UploadInv'
  <1> SUFFICES ASSUME UploadInv, JoinPanic(p) PROVE UploadInv' OBVIOUS
  <1> USE LongTailUploadAssumption DEF JoinPanic, Fail, job
  <1>1. TypeOK' BY DEF UploadInv, TypeOK, Done
  <1>2. InStep' BY DEF UploadInv, InStep
  <1>3. IdsBounded' BY DEF UploadInv, IdsBounded
  <1>4. OwnPiece' BY DEF UploadInv, OwnPiece
  <1>5. ResultsCurrent' BY DEF UploadInv, ResultsCurrent
  <1>6. Apart' BY DEF UploadInv, Apart
  <1>7. BetweenRounds' BY DEF BetweenRounds
  <1>8. StoredKept' BY DEF StoredKept
  <1> QED BY <1>1, <1>2, <1>3, <1>4, <1>5, <1>6, <1>7, <1>8 DEF UploadInv

LEMMA DrainInv == ASSUME NEW p \in Pieces PROVE UploadInv /\ Drain(p) => UploadInv'
  <1> SUFFICES ASSUME UploadInv, Drain(p) PROVE UploadInv' OBVIOUS
  <1> USE LongTailUploadAssumption DEF Drain, DrainKeeps, Joined, job
  <1>p. asg[p] \in Limit /\ asg[p].piece = p /\ p \notin failed
    BY DEF UploadInv, TypeOK, Apart, OwnPiece
  <1>t. \A q \in Pieces : task'[q] = IF q = p THEN "none" ELSE task[q]
    BY DEF UploadInv, TypeOK
  <1>1. TypeOK' BY <1>p DEF UploadInv, TypeOK
  <1>2. InStep' BY DEF UploadInv, InStep
  <1>3. IdsBounded' BY DEF UploadInv, IdsBounded
  <1>4. OwnPiece' BY DEF UploadInv, OwnPiece
  <1>5. ResultsCurrent' BY <1>p DEF UploadInv, ResultsCurrent
  <1>6. Apart' BY <1>p, <1>t DEF UploadInv, Apart
  <1>7. BetweenRounds' BY DEF BetweenRounds
  <1>8. StoredKept'
    <2>1. stored = successes \cup roundOk \cup {asg[q] : q \in {r \in Pieces : task[r] = "ok"}}
      BY DEF UploadInv, StoredKept
    <2>2. CASE task[p] = "ok"
      <3>1. {q \in Pieces : task[q] = "ok"} = {q \in Pieces : task'[q] = "ok"} \cup {p}
        BY <1>t, <2>2
      <3> QED BY <2>1, <2>2, <3>1 DEF StoredKept
    <2>3. CASE task[p] # "ok"
      <3>1. {q \in Pieces : task[q] = "ok"} = {q \in Pieces : task'[q] = "ok"}
        BY <1>t, <2>3
      <3> QED BY <2>1, <2>3, <3>1 DEF StoredKept
    <2> QED BY <2>2, <2>3
  <1> QED BY <1>1, <1>2, <1>3, <1>4, <1>5, <1>6, <1>7, <1>8 DEF UploadInv

LEMMA EndRoundInv == UploadInv /\ EndRound => UploadInv'
  <1> SUFFICES ASSUME UploadInv, EndRound PROVE UploadInv' OBVIOUS
  <1> USE LongTailUploadAssumption DEF EndRound, Leave, Fail, job, round
  <1>0. /\ phase \in {"round", "drain"}
        /\ \A p \in Pieces : task[p] = "none"
        /\ phase' \in {"committable", "error", "retry"}
        /\ cause' \in {cause, "threshold"}
        /\ met' \in {met, TRUE}
        /\ successes' = successes \cup roundOk
        /\ UNCHANGED <<attempts, segmentId, asg, task, roundOk, failed, sat, stored>>
    OBVIOUS
  <1>1. TypeOK' BY <1>0 DEF UploadInv, TypeOK, Done
  <1>2. InStep' BY <1>0 DEF UploadInv, InStep
  <1>3. IdsBounded' BY <1>0 DEF UploadInv, IdsBounded
  <1>4. OwnPiece' BY <1>0 DEF UploadInv, OwnPiece
  <1>5. ResultsCurrent' BY <1>0 DEF UploadInv, ResultsCurrent
  <1>6. Apart' BY <1>0 DEF UploadInv, Apart
  <1>7. BetweenRounds' BY <1>0 DEF BetweenRounds
  <1>8. StoredKept' BY <1>0 DEF UploadInv, StoredKept
  <1> QED BY <1>1, <1>2, <1>3, <1>4, <1>5, <1>6, <1>7, <1>8 DEF UploadInv

LEMMA RetryAnsweredInv == UploadInv /\ RetryAnswered => UploadInv'
  <1> SUFFICES ASSUME UploadInv, RetryAnswered PROVE UploadInv' OBVIOUS
  <1> USE LongTailUploadAssumption
  <1>0. PICK R \in SUBSET failed :
           /\ sat' = Rotated(R)
           /\ segmentId' = sat'.id
           /\ asg' = [p \in Pieces |-> IF p \in failed THEN sat'.limits[p] ELSE asg[p]]
    BY DEF RetryAnswered, NewSegmentId, NewLimit
  <1>u. /\ phase = "retry" /\ phase' = "head"
        /\ UNCHANGED <<attempts, task, roundOk, failed, successes, cause, met, stored>>
    BY DEF RetryAnswered, round
  <1>i. /\ segmentId + 1 \in 0..MaxAttempts
        /\ segmentId + 1 <= attempts
    BY <1>u DEF UploadInv, IdsBounded, TypeOK
  <1>s. /\ sat'.id = segmentId + 1
        /\ sat'.limits \in [Pieces -> Limit \cup {NoLimit}]
        /\ sat' \in [id : 0..MaxAttempts, limits : [Pieces -> Limit \cup {NoLimit}]]
        /\ \A p \in Pieces : sat'.limits[p] =
              IF p \in R THEN [piece |-> p, id |-> segmentId + 1]
              ELSE IF p \in failed THEN NoLimit ELSE sat.limits[p]
    BY <1>0, <1>i DEF Rotated, UploadInv, TypeOK, Limit
  <1>a. \A p \in Pieces : asg'[p] =
              IF p \in R THEN [piece |-> p, id |-> segmentId + 1]
              ELSE IF p \in failed THEN NoLimit ELSE asg[p]
    BY <1>0, <1>s
  <1>1. TypeOK'
    BY <1>0, <1>u, <1>i, <1>s DEF UploadInv, TypeOK
  <1>2. InStep' BY <1>0, <1>s, <1>a DEF UploadInv, InStep
  <1>3. IdsBounded' BY <1>0, <1>u, <1>i, <1>s DEF IdsBounded
  <1>4. OwnPiece'
    <2> SUFFICES ASSUME NEW p \in Pieces, asg'[p] # NoLimit PROVE asg'[p].piece = p
      BY DEF OwnPiece
    <2>1. CASE p \in R
      <3>1. asg'[p] = [piece |-> p, id |-> segmentId + 1] BY <1>a, <2>1
      <3> QED BY <3>1
    <2>2. CASE p \notin R
      <3>1. p \notin failed BY <1>a, <2>2
      <3>2. asg'[p] = asg[p] BY <1>a, <2>2, <3>1
      <3> QED BY <3>2 DEF UploadInv, OwnPiece
    <2> QED BY <2>1, <2>2
  <1>5. ResultsCurrent'
    <2> SUFFICES ASSUME NEW l \in successes \cup roundOk PROVE asg'[l.piece] = l
      BY <1>u DEF ResultsCurrent
    <2>1. l.piece \in Pieces BY DEF UploadInv, TypeOK, Limit
    <2>2. l.piece \notin failed BY DEF UploadInv, Apart
    <2> QED BY <1>a, <2>1, <2>2 DEF UploadInv, ResultsCurrent
  <1>6. Apart' BY <1>u DEF UploadInv, Apart, BetweenRounds
  <1>7. BetweenRounds' BY <1>u DEF UploadInv, BetweenRounds
  <1>8. StoredKept'
    <2>1. stored = successes BY <1>u DEF UploadInv, StoredKept, BetweenRounds
    <2> QED BY <1>u, <2>1 DEF UploadInv, StoredKept, BetweenRounds
  <1> QED BY <1>1, <1>2, <1>3, <1>4, <1>5, <1>6, <1>7, <1>8 DEF UploadInv

LEMMA RetryFailsInv == UploadInv /\ RetryFails => UploadInv'
  <1> SUFFICES ASSUME UploadInv, RetryFails PROVE UploadInv' OBVIOUS
  <1> USE LongTailUploadAssumption DEF RetryFails, Fail, job, round
  <1>1. TypeOK' BY DEF UploadInv, TypeOK, Done
  <1>2. InStep' BY DEF UploadInv, InStep
  <1>3. IdsBounded' BY DEF UploadInv, IdsBounded
  <1>4. OwnPiece' BY DEF UploadInv, OwnPiece
  <1>5. ResultsCurrent' BY DEF UploadInv, ResultsCurrent
  <1>6. Apart' BY DEF UploadInv, Apart
  <1>7. BetweenRounds' /\ StoredKept' BY DEF BetweenRounds, StoredKept
  <1> QED BY <1>1, <1>2, <1>3, <1>4, <1>5, <1>6, <1>7 DEF UploadInv

LEMMA StutterInv == UploadInv /\ UNCHANGED vars => UploadInv'
  BY DEF UploadInv, vars, job, round, TypeOK, InStep, IdsBounded, OwnPiece, ResultsCurrent,
         Apart, BetweenRounds, StoredKept

LEMMA NextInv == UploadInv /\ [Next]_vars => UploadInv'
  <1> SUFFICES ASSUME UploadInv, [Next]_vars PROVE UploadInv' OBVIOUS
  <1>1. CASE StartRound BY <1>1, StartRoundInv
  <1>2. CASE LeaveAtHead BY <1>2, LeaveAtHeadInv
  <1>3. CASE \E p \in Pieces : TaskEnds(p) BY <1>3, TaskEndsInv
  <1>4. CASE \E p \in Pieces : JoinOk(p) BY <1>4, JoinOkInv
  <1>5. CASE \E p \in Pieces : JoinErr(p) BY <1>5, JoinErrInv
  <1>6. CASE \E p \in Pieces : JoinPanic(p) BY <1>6, JoinPanicInv
  <1>7. CASE \E p \in Pieces : Drain(p) BY <1>7, DrainInv
  <1>8. CASE EndRound BY <1>8, EndRoundInv
  <1>9. CASE RetryAnswered BY <1>9, RetryAnsweredInv
  <1>10. CASE RetryFails BY <1>10, RetryFailsInv
  <1>11. CASE UNCHANGED vars \/ Returned BY <1>11, StutterInv DEF Returned
  <1> QED BY <1>1, <1>2, <1>3, <1>4, <1>5, <1>6, <1>7, <1>8, <1>9, <1>10, <1>11 DEF Next

\* The inductive invariant holds in every reachable state.
THEOREM Inductive == Spec => []UploadInv
  BY InitInv, NextInv, PTL DEF Spec

-----------------------------------------------------------------------------
\* The state keeps its type; segment ids are rotated at most once a round.
THEOREM TypeCorrect == Spec => []TypeOK
  <1>1. UploadInv => TypeOK BY DEF UploadInv
  <1> QED BY Inductive, <1>1, PTL

\* Running uploads use the limits of the satellite's latest segment id and
\* never repeat a stored piece.
THEOREM UploadsStayCurrent == Spec => []UploadsCurrent
  <1>1. UploadInv => UploadsCurrent
    BY DEF UploadInv, UploadsCurrent, InStep, Apart, Numbers
  <1> QED BY Inductive, <1>1, PTL

\* CommitSegment is sent results of the latest segment id, one per piece.
THEOREM ReportMatches == Spec => []ReportMatchesSegment
  <1>1. UploadInv => ReportMatchesSegment
    <2> SUFFICES ASSUME UploadInv, phase = "committable", NEW l \in successes
                 PROVE  segmentId = sat.id /\ l = sat.limits[l.piece]
      BY DEF ReportMatchesSegment, UploadInv, InStep
    <2>1. l.piece \in Pieces BY DEF UploadInv, TypeOK, Limit
    <2> QED BY <2>1 DEF UploadInv, InStep, ResultsCurrent
  <1> QED BY Inductive, <1>1, PTL

\* Every piece whose upload finished, also during the drain, is reported.
THEOREM AllFinishedReported == Spec => []FinishedReported
  <1>1. UploadInv => FinishedReported
    <2> SUFFICES ASSUME UploadInv, phase = "committable" PROVE stored = successes
      BY DEF FinishedReported
    <2> QED BY DEF UploadInv, StoredKept, BetweenRounds
  <1> QED BY Inductive, <1>1, PTL

\* Limits, segment id and results stay in step with the satellite and every
\* finished piece is reported, for any set of pieces and number of rounds.
THEOREM ReportingHolds == Spec => []Reporting
  BY TypeCorrect, UploadsStayCurrent, ReportMatches, AllFinishedReported, PTL DEF Reporting

-----------------------------------------------------------------------------
(* Persistence, for steady placement requirements *)

\* A round that met the requirement is drained, and its results still meet it.
MetKept ==
    /\ met => phase \in {"drain", "committable"}
    /\ phase = "drain" => Verdicts(successes \cup roundOk) = {TRUE}

\* No assigned piece is forgotten in a round: it has a result, a task or is
\* among the failed.
AllTried ==
    phase = "round" =>
        \A p \in Pieces : asg[p] # NoLimit =>
            p \in Numbers(successes \cup roundOk) \/ task[p] # "none" \/ p \in failed

\* The cause is set with the error, and a threshold missed early is none.
CauseRight ==
    /\ cause # "none" => phase = "error"
    /\ NoEarlyGiveUp

PersistInv == UploadInv /\ MetKept /\ AllTried /\ CauseRight

\* The requirement is only ever asked about placements: the results produced
\* under the assignments in force, which are their own tags.
LEMMA AskedAboutResults ==
    ASSUME Steady, NEW S \in SUBSET Limit, \A l \in S : asg[l.piece] = l
    PROVE  /\ Tagged(S) = S
           /\ Verdicts(S) \in {{TRUE}, {FALSE}}
           /\ \A l \in Limit : l.piece \notin Numbers(S) /\ Verdicts(S) = {TRUE}
                                 => Verdicts(S \cup {l}) = {TRUE}
<1>1. \A l \in S : l \in Limit /\ l.piece \in Pieces /\ asg[l.piece] = l
  BY DEF Limit
<1>2. Tagged(S) = S
  BY <1>1 DEF Tagged, Numbers, Limit, NoLimit
<1> DEFINE P == Numbers(S)
           f == [p \in Pieces |-> IF p \in P THEN asg[p].id ELSE 0]
<1>3. P \in SUBSET Pieces
  BY <1>1 DEF Numbers
<1>4. \A p \in P : asg[p] \in Limit /\ asg[p].piece = p /\ asg[p] \in S
  BY <1>1 DEF Numbers
<1>5. f \in [Pieces -> 0..MaxAttempts]
  BY <1>4, LongTailUploadAssumption DEF Limit
<1>6. \A p \in P : [piece |-> p, id |-> f[p]] = asg[p]
  BY <1>3, <1>4 DEF Limit
<1>7. \A l \in S : l.piece \in P
  BY DEF Numbers
<1> HIDE DEF P, f
<1>8. S = {[piece |-> p, id |-> f[p]] : p \in P}
  <2>1. \A l \in S : \E p \in P : l = [piece |-> p, id |-> f[p]]
    BY <1>1, <1>6, <1>7
  <2>2. \A p \in P : [piece |-> p, id |-> f[p]] \in S
    BY <1>4, <1>6
  <2> QED BY <2>1, <2>2
<1>9. S \in Placements
  BY <1>3, <1>5, <1>8 DEF Placements
<1> QED BY <1>2, <1>9 DEF Steady

\* The same for the results at hand, and for one more.
LEMMA AskedNow ==
    ASSUME Steady, UploadInv
    PROVE  /\ Tagged(successes \cup roundOk) = successes \cup roundOk
           /\ Verdicts(successes \cup roundOk) \in {{TRUE}, {FALSE}}
           /\ \A p \in Pieces : task[p] # "none" =>
                LET S == successes \cup (roundOk \cup {asg[p]})
                IN  /\ Tagged(S) = S
                    /\ Verdicts(S) \in {{TRUE}, {FALSE}}
                    /\ Verdicts(successes \cup roundOk) = {TRUE} => Verdicts(S) = {TRUE}
<1> DEFINE R == successes \cup roundOk
<1>1. R \in SUBSET Limit /\ \A l \in R : asg[l.piece] = l
  BY DEF UploadInv, TypeOK, ResultsCurrent
<1>2. ASSUME NEW p \in Pieces, task[p] # "none"
      PROVE  /\ asg[p] \in Limit /\ asg[p].piece = p /\ p \notin Numbers(R)
             /\ R \cup {asg[p]} \in SUBSET Limit /\ \A l \in R \cup {asg[p]} : asg[l.piece] = l
  BY <1>1, <1>2 DEF UploadInv, TypeOK, Apart, OwnPiece, Numbers
<1>3. \A p \in Pieces : successes \cup (roundOk \cup {asg[p]}) = R \cup {asg[p]}
  OBVIOUS
<1> HIDE DEF R
<1>4. /\ Tagged(R) = R /\ Verdicts(R) \in {{TRUE}, {FALSE}}
      /\ \A l \in Limit : l.piece \notin Numbers(R) /\ Verdicts(R) = {TRUE}
                            => Verdicts(R \cup {l}) = {TRUE}
  BY <1>1, AskedAboutResults
<1>5. ASSUME NEW p \in Pieces, task[p] # "none"
      PROVE  /\ Tagged(R \cup {asg[p]}) = R \cup {asg[p]}
             /\ Verdicts(R \cup {asg[p]}) \in {{TRUE}, {FALSE}}
             /\ Verdicts(R) = {TRUE} => Verdicts(R \cup {asg[p]}) = {TRUE}
  <2>1. /\ Tagged(R \cup {asg[p]}) = R \cup {asg[p]}
        /\ Verdicts(R \cup {asg[p]}) \in {{TRUE}, {FALSE}}
    BY <1>2, <1>5, AskedAboutResults
  <2> QED BY <1>2, <1>4, <1>5, <2>1
<1> QED BY <1>3, <1>4, <1>5 DEF R

\* A steady verdict is not reconsidered: what Leave returns is what the loop or
\* the round just saw.
LEMMA LeaveDecides ==
    ASSUME NEW S, Leave(S)
    PROVE  /\ Verdicts(Tagged(S)) = {TRUE} =>
                phase' = "committable" /\ cause' = cause /\ met' = TRUE
           /\ Verdicts(Tagged(S)) = {FALSE} =>
                phase' = "error" /\ cause' = "threshold" /\ met' = met
<1>1. PICK v \in Verdicts(Tagged(S)) :
          /\ met' = IF v THEN TRUE ELSE met
          /\ IF v THEN phase' = "committable" /\ cause' = cause
             ELSE phase' = "error" /\ cause' = "threshold"
  BY Zenon DEF Leave, Fail
<1>2. CASE Verdicts(Tagged(S)) = {TRUE}
  <2>1. v = TRUE
    BY <1>1, <1>2, Zenon
  <2> QED BY <1>1, <1>2, <2>1, Zenon
<1>3. CASE Verdicts(Tagged(S)) = {FALSE}
  <2>1. v = FALSE
    BY <1>1, <1>3, Zenon
  <2> QED BY <1>1, <1>3, <2>1, Zenon
<1> QED BY <1>2, <1>3, Zenon

LEMMA PersistNext ==
    ASSUME Steady
    PROVE  PersistInv /\ [Next]_vars => PersistInv'
<1> SUFFICES ASSUME PersistInv, [Next]_vars PROVE PersistInv'
  OBVIOUS
<1>1. UploadInv /\ UploadInv'
  BY NextInv DEF PersistInv
<1>2. MetKept /\ AllTried /\ CauseRight
  BY DEF PersistInv
<1>3. phase = "head" => successes \cup roundOk = successes
  BY <1>1 DEF UploadInv, BetweenRounds
<1>4. ASSUME MetKept', AllTried', CauseRight' PROVE PersistInv'
  BY <1>1, <1>4 DEF PersistInv
<1> SUFFICES MetKept' /\ AllTried' /\ CauseRight'
  BY <1>4
<1> USE DEF job, round
<1>5. CASE StartRound
  <2>1. MetKept' /\ CauseRight'
    BY <1>2, <1>5 DEF StartRound, MetKept, CauseRight, NoEarlyGiveUp
  <2>2. AllTried'
    BY <1>5 DEF StartRound, AllTried, Pending, Numbers
  <2> QED BY <2>1, <2>2
<1>6. CASE LeaveAtHead
  <2>1. Tagged(successes) = successes /\ Verdicts(successes) \in {{TRUE}, {FALSE}} /\ phase = "head"
    BY <1>1, <1>3, <1>6, AskedNow DEF LeaveAtHead
  <2>2. CASE Verdicts(successes) = {TRUE}
    <3>1. phase' = "committable" /\ cause' = cause
      <4>1. Leave(successes) /\ Verdicts(Tagged(successes)) = {TRUE}
        BY <1>6, <2>1, <2>2 DEF LeaveAtHead
      <4> QED BY <4>1, LeaveDecides, Zenon
    <3> QED BY <1>2, <2>1, <3>1 DEF MetKept, AllTried, CauseRight, NoEarlyGiveUp
  <2>3. CASE Verdicts(successes) = {FALSE}
    <3>1. phase' = "error" /\ cause' = "threshold" /\ met' = met
      <4>1. Leave(successes) /\ Verdicts(Tagged(successes)) = {FALSE}
        BY <1>6, <2>1, <2>3 DEF LeaveAtHead
      <4> QED BY <4>1, LeaveDecides, Zenon
    <3>2. /\ attempts = MaxAttempts \/ Pending = {}
          /\ attempts' = IF attempts < MaxAttempts THEN attempts + 1 ELSE attempts
          /\ UNCHANGED <<asg, successes>>
      BY <1>6, <2>1, <2>3 DEF LeaveAtHead
    <3>3. attempts' = MaxAttempts \/ Pending' = {}
      BY <3>2, LongTailUploadAssumption DEF Pending
    <3> QED BY <1>2, <2>1, <3>1, <3>3 DEF MetKept, AllTried, CauseRight, NoEarlyGiveUp
  <2> QED BY <2>1, <2>2, <2>3
<1>7. ASSUME NEW p \in Pieces, TaskEnds(p) PROVE MetKept' /\ AllTried' /\ CauseRight'
  <2>1. \A q \in Pieces : task[q] # "none" => task'[q] # "none"
    BY <1>1, <1>7 DEF TaskEnds, UploadInv, TypeOK, Outcomes
  <2> QED BY <1>2, <1>7, <2>1 DEF TaskEnds, MetKept, AllTried, CauseRight, NoEarlyGiveUp, Pending
<1>8. ASSUME NEW p \in Pieces, JoinOk(p) PROVE MetKept' /\ AllTried' /\ CauseRight'
  <2> DEFINE S == successes \cup (roundOk \cup {asg[p]})
  <2>1. /\ phase = "round" /\ task[p] = "ok" /\ task' = [task EXCEPT ![p] = "none"]
        /\ roundOk' = roundOk \cup {asg[p]}
        /\ \E v \in Verdicts(Tagged(S)) : /\ met' = IF v THEN TRUE ELSE met
                                          /\ phase' = IF v THEN "drain" ELSE "round"
        /\ UNCHANGED <<attempts, asg, failed, successes, cause>>
    BY <1>8 DEF JoinOk, Joined
  <2>2. Tagged(S) = S /\ Verdicts(S) \in {{TRUE}, {FALSE}}
    BY <1>1, <2>1, AskedNow
  <2>3. successes' \cup roundOk' = S
    BY <2>1
  <2>4. asg[p].piece = p
    BY <1>1, <2>1 DEF UploadInv, Apart, OwnPiece
  <2>5. MetKept'
    <3> HIDE DEF S
    <3>1. \/ Verdicts(S) = {TRUE} /\ met' = TRUE /\ phase' = "drain"
          \/ Verdicts(S) = {FALSE} /\ met' = met /\ phase' = "round"
      <4>1. PICK v \in Verdicts(S) : /\ met' = IF v THEN TRUE ELSE met
                                     /\ phase' = IF v THEN "drain" ELSE "round"
        BY <2>1, <2>2
      <4>2. CASE Verdicts(S) = {TRUE}
        <5>1. v = TRUE
          BY <4>1, <4>2, Zenon
        <5> QED BY <4>1, <4>2, <5>1
      <4>3. CASE Verdicts(S) = {FALSE}
        <5>1. v = FALSE
          BY <4>1, <4>3, Zenon
        <5> QED BY <4>1, <4>3, <5>1
      <4> QED BY <2>2, <4>2, <4>3
    <3> QED BY <1>2, <2>1, <2>3, <3>1 DEF MetKept
  <2>6. AllTried'
    <3>1. \A q \in Pieces : q # p => task'[q] = task[q]
      BY <1>1, <2>1 DEF UploadInv, TypeOK
    <3>2. p \in Numbers(successes' \cup roundOk')
      BY <2>1, <2>4 DEF Numbers
    <3>3. Numbers(successes \cup roundOk) \subseteq Numbers(successes' \cup roundOk')
      BY <2>1 DEF Numbers
    <3> QED BY <1>2, <2>1, <3>1, <3>2, <3>3 DEF AllTried
  <2> QED BY <1>2, <2>1, <2>5, <2>6 DEF CauseRight, NoEarlyGiveUp
<1>9. ASSUME NEW p \in Pieces, JoinErr(p) PROVE MetKept' /\ AllTried' /\ CauseRight'
  <2>1. \A q \in Pieces : q # p => task'[q] = task[q]
    BY <1>1, <1>9 DEF JoinErr, Joined, UploadInv, TypeOK
  <2> QED BY <1>2, <1>9, <2>1 DEF JoinErr, MetKept, AllTried, CauseRight, NoEarlyGiveUp
<1>10. ASSUME NEW p \in Pieces, JoinPanic(p) PROVE MetKept' /\ AllTried' /\ CauseRight'
  BY <1>2, <1>10 DEF JoinPanic, Fail, MetKept, AllTried, CauseRight, NoEarlyGiveUp
<1>11. ASSUME NEW p \in Pieces, Drain(p) PROVE MetKept' /\ AllTried' /\ CauseRight'
  <2>1. /\ phase = "drain" /\ phase' = "drain" /\ task[p] # "none"
        /\ roundOk' \in {roundOk, roundOk \cup {asg[p]}}
        /\ UNCHANGED <<successes, met, cause, attempts, asg>>
    BY <1>11 DEF Drain, DrainKeeps
  <2>2. Verdicts(successes \cup roundOk) = {TRUE}
    BY <1>2, <2>1 DEF MetKept
  <2>3. Verdicts(successes' \cup roundOk') = {TRUE}
    BY <1>1, <2>1, <2>2, AskedNow
  <2> QED BY <1>2, <2>1, <2>3 DEF MetKept, AllTried, CauseRight, NoEarlyGiveUp
<1>12. CASE EndRound
  <2> DEFINE S == successes \cup roundOk
  <2>1. Tagged(S) = S /\ Verdicts(S) \in {{TRUE}, {FALSE}}
    BY <1>1, AskedNow
  <2>2. /\ phase \in {"round", "drain"} /\ successes' = S
        /\ \A p \in Pieces : task[p] = "none"
        /\ \E v \in Verdicts(Tagged(S)) : IF v \/ failed = {} THEN Leave(S)
                                          ELSE phase' = "retry" /\ cause' = cause /\ met' = met
        /\ UNCHANGED <<attempts, asg, task, roundOk, failed>>
    BY <1>12 DEF EndRound
  <2>3. CASE Leave(S) /\ Verdicts(S) = {TRUE}
    <3>1. phase' = "committable" /\ cause' = cause
      <4>1. Leave(S) /\ Verdicts(Tagged(S)) = {TRUE}
        BY <2>1, <2>3
      <4> QED BY <4>1, LeaveDecides, Zenon
    <3> QED BY <1>2, <2>2, <3>1 DEF MetKept, AllTried, CauseRight, NoEarlyGiveUp
  <2>4. CASE Leave(S) /\ Verdicts(S) = {FALSE} /\ failed = {}
    <3>1. phase' = "error" /\ cause' = "threshold" /\ met' = met
      <4>1. Leave(S) /\ Verdicts(Tagged(S)) = {FALSE}
        BY <2>1, <2>4
      <4> QED BY <4>1, LeaveDecides, Zenon
    <3>2. phase = "round"
      BY <1>2, <2>2, <2>4 DEF MetKept
    <3>3. Pending' = {}
      BY <1>2, <2>2, <2>4, <3>2 DEF AllTried, Pending
    <3> QED BY <1>2, <3>1, <3>2, <3>3 DEF MetKept, AllTried, CauseRight, NoEarlyGiveUp
  <2>5. CASE phase' = "retry" /\ cause' = cause /\ met' = met /\ Verdicts(S) = {FALSE}
    <3>1. phase = "round"
      BY <1>2, <2>2, <2>5 DEF MetKept
    <3> QED BY <1>2, <2>5, <3>1 DEF MetKept, AllTried, CauseRight, NoEarlyGiveUp
  <2> HIDE DEF S
  <2>6. PICK v \in Verdicts(S) : IF v \/ failed = {} THEN Leave(S)
                                 ELSE phase' = "retry" /\ cause' = cause /\ met' = met
    BY <2>1, <2>2
  <2>7. CASE Verdicts(S) = {TRUE}
    <3>1. v = TRUE
      BY <2>6, <2>7, Zenon
    <3> QED BY <2>3, <2>6, <2>7, <3>1
  <2>8. CASE Verdicts(S) = {FALSE}
    <3>1. v = FALSE
      BY <2>6, <2>8, Zenon
    <3> QED BY <2>4, <2>5, <2>6, <2>8, <3>1
  <2> QED BY <2>1, <2>7, <2>8
<1>13. CASE RetryAnswered
  BY <1>2, <1>13 DEF RetryAnswered, MetKept, AllTried, CauseRight, NoEarlyGiveUp
<1>14. CASE RetryFails
  BY <1>2, <1>14 DEF RetryFails, Fail, MetKept, AllTried, CauseRight, NoEarlyGiveUp
<1>15. CASE UNCHANGED vars
  BY <1>2, <1>15 DEF vars, MetKept, AllTried, CauseRight, NoEarlyGiveUp, Pending
<1> QED BY <1>5, <1>6, <1>7, <1>8, <1>9, <1>10, <1>11, <1>12, <1>13, <1>14, <1>15 DEF Next, Returned

\* upload_pieces_long_tail does not fail after its requirement was met, and not
\* for lack of pieces while a round and a piece are left, for any set of pieces
\* and number of rounds and every steady requirement.
THEOREM PersistenceHolds == ASSUME Steady PROVE Spec => []Persistence
<1>1. Init => PersistInv
  BY InitInv DEF PersistInv, Init, MetKept, AllTried, CauseRight, NoEarlyGiveUp
<1>2. PersistInv /\ [Next]_vars => PersistInv'
  BY PersistNext
<1>3. PersistInv => Persistence
  BY DEF PersistInv, MetKept, CauseRight, Persistence, MetMeansOk
<1> QED BY <1>1, <1>2, <1>3, PTL DEF Spec
=============================================================================
