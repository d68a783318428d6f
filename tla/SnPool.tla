------------------------------- MODULE SnPool -------------------------------
(***************************************************************************)
(* The storage-node connection pool (storj-uplink/src/pool.rs) together    *)
(* with the piece tasks that use it (upload_one_piece in segment.rs and    *)
(* its twin download_one_piece in download.rs).                            *)
(*                                                                         *)
(* Every piece task is one thread of control.  One step of the model is    *)
(* what the code does under one hold of the pool's mutex, or one operation *)
(* on its tokio Notify, or the end of one await.  The mutex is released    *)
(* before notify_one is called and before notified() is polled; those gaps *)
(* are states of their own ("notifying" and "parking").                    *)
(*                                                                         *)
(* Abstractions.  An idle connection is a record: its node, the moment     *)
(* `since` it was returned (a logical instant, unique because returns are  *)
(* serialised by the mutex) and whether its wire is quiet, that is, no RPC *)
(* was left unfinished or failed on it.  Time passes by moving `horizon`:  *)
(* an idle connection is stale (elapsed >= idle_timeout) iff it was        *)
(* returned at or before the horizon.                                      *)
(***************************************************************************)
EXTENDS Integers, Sequences, FiniteSets

CONSTANTS Tasks,           \* piece tasks that share the pool
          Nodes,           \* storage nodes
          MaxConnections   \* PoolConfig::max_connections

\* PoolConfig::for_redundancy_n_and_concurrency and ConnectionPool::new both
\* raise a zero cap to one.
ASSUME PoolAssumption ==
    /\ IsFiniteSet(Tasks)
    /\ MaxConnections \in Nat \ {0}

VARIABLES idle,        \* Inner.idle: the set of idle connections
          idleCount,   \* Inner.idle_count
          inUse,       \* Inner.in_use
          clock,       \* the instant of the latest push_idle
          horizon,     \* connections returned at or before it are stale
          permit,      \* the stored permit of the tokio Notify
          waiters,     \* tasks registered with the Notify, oldest first
          pc,          \* where each task is
          node         \* the node each task needs

poolVars == <<idle, idleCount, inUse, clock, horizon, permit, waiters, pc, node>>

IdleConn == [node : Nodes, since : Nat, quiet : BOOLEAN]

\* "retry" and "woken" both re-enter the checkout loop: the first consumed a
\* stored permit, the second was taken off the waiter list by notify_one.
PcStates == {"spawned", "parking", "parked", "woken", "retry",
             "dialing", "rpc", "notifying", "done"}

\* Tasks that own one of the pool's slots (Slot or Pooled).
Holders == {t \in Tasks : pc[t] \in {"dialing", "rpc"}}

-----------------------------------------------------------------------------
(* The idle map *)

SatSub(a, b) == IF a >= b THEN a - b ELSE 0

IdleOf(n) == {c \in idle : c.node = n}

Fresh(c) == c.since > horizon

\* What pop_idle hands out: it pops from the front of the node's deque, where
\* the oldest connection sits, until one is fresh.
PopFound(n) == {c \in IdleOf(n) : Fresh(c) /\ \A d \in IdleOf(n) : Fresh(d) => c.since <= d.since}

\* Everything that leaves the deque: the stale prefix and the one found.
PopRemoved(n) == {c \in IdleOf(n) : ~Fresh(c)} \cup PopFound(n)

\* Mutant: idle_count follows only the connection handed out, not the stale ones.
RemoveIdleUncounted(gone) ==
    /\ idle' = idle \ gone
    /\ idleCount' = SatSub(idleCount, 1)

\* Connections taken out and the counter that follows them.
RemoveIdle(gone) ==
    /\ idle' = idle \ gone
    /\ idleCount' = SatSub(idleCount, Cardinality(gone))

-----------------------------------------------------------------------------
(* tokio::sync::Notify *)

\* notify_one: the oldest registered waiter is woken; without one, a single
\* permit is stored, and storing it twice is the same as storing it once.
NotifyOne(ws, pcs) ==
    IF ws = <<>>
    THEN /\ permit' = TRUE
         /\ waiters' = ws
         /\ pc' = pcs
    ELSE /\ permit' = permit
         /\ waiters' = Tail(ws)
         /\ pc' = [pcs EXCEPT ![Head(ws)] = "woken"]

-----------------------------------------------------------------------------
PoolInit ==
    /\ idle = {}
    /\ idleCount = 0
    /\ inUse = 0
    /\ clock = 0
    /\ horizon = 0
    /\ permit = FALSE
    /\ waiters = <<>>
    /\ pc = [t \in Tasks |-> "spawned"]
    /\ node \in [Tasks -> Nodes]

\* Checkout::Reuse: a fresh idle connection of the node.
CheckoutReuse(t) ==
    /\ PopFound(node[t]) # {}
    /\ RemoveIdle(PopRemoved(node[t]))
    /\ inUse' = inUse + 1
    /\ pc' = [pc EXCEPT ![t] = "rpc"]

\* The idle connections left once pop_idle found nothing fresh and dropped the
\* node's stale ones; evict_one_idle works on those.
AfterMiss(n) == idle \ PopRemoved(n)

\* evict_one_idle: pop_idle on whichever key the HashMap yields first.
EvictOneIdle(n) ==
    IF AfterMiss(n) = {} THEN {{}} ELSE {PopRemoved(c.node) : c \in AfterMiss(n)}

\* Checkout::Dial: nothing to reuse, a slot is free, and one idle connection
\* makes room when idle and in-use together fill the pool.
CheckoutDial(t) ==
    LET n == node[t]
        left == SatSub(idleCount, Cardinality(PopRemoved(n)))
    IN /\ PopFound(n) = {}
       /\ inUse < MaxConnections
       /\ \E evicted \in IF inUse + left >= MaxConnections THEN EvictOneIdle(n) ELSE {{}} :
             RemoveIdle(PopRemoved(n) \cup evicted)
       /\ inUse' = inUse + 1
       /\ pc' = [pc EXCEPT ![t] = "dialing"]

\* Checkout::Wait: the decision is taken under the lock, the wait begins later.
CheckoutWait(t) ==
    /\ PopFound(node[t]) = {}
    /\ inUse >= MaxConnections
    /\ RemoveIdle(PopRemoved(node[t]))
    /\ inUse' = inUse
    /\ pc' = [pc EXCEPT ![t] = "parking"]

\* One turn of the loop in ConnectionPool::checkout.
Checkout(t) ==
    /\ pc[t] \in {"spawned", "woken", "retry"}
    /\ CheckoutReuse(t) \/ CheckoutDial(t) \/ CheckoutWait(t)
    /\ UNCHANGED <<clock, horizon, permit, waiters, node>>

\* First poll of notify.notified(): consume the permit or register.
Park(t) ==
    /\ pc[t] = "parking"
    /\ IF permit
       THEN /\ permit' = FALSE
            /\ waiters' = waiters
            /\ pc' = [pc EXCEPT ![t] = "retry"]
       ELSE /\ permit' = permit
            /\ waiters' = Append(waiters, t)
            /\ pc' = [pc EXCEPT ![t] = "parked"]
    /\ UNCHANGED <<idle, idleCount, inUse, clock, horizon, node>>

\* dial() answers with a connection: the Slot becomes a Pooled.
DialOk(t) ==
    /\ pc[t] = "dialing"
    /\ pc' = [pc EXCEPT ![t] = "rpc"]
    /\ UNCHANGED <<idle, idleCount, inUse, clock, horizon, permit, waiters, node>>

\* Mutant: a slot that is freed without an idle connection notifies nobody.
GiveBackSilent(t, recycle, quiet) ==
    /\ inUse' = SatSub(inUse, 1)
    /\ IF recycle
       THEN /\ clock' = clock + 1
            /\ idle' = idle \cup {[node |-> node[t], since |-> clock + 1, quiet |-> quiet]}
            /\ idleCount' = idleCount + 1
       ELSE UNCHANGED <<clock, idle, idleCount>>
    /\ pc' = [pc EXCEPT ![t] = IF recycle THEN "notifying" ELSE "done"]
    /\ UNCHANGED <<horizon, permit, waiters, node>>

\* The locked part of Drop for Slot and Drop for Pooled: give the slot back
\* and, when `recycle`, idle the connection in the state it was left in.
GiveBack(t, recycle, quiet) ==
    /\ inUse' = SatSub(inUse, 1)
    /\ IF recycle
       THEN /\ clock' = clock + 1
            /\ idle' = idle \cup {[node |-> node[t], since |-> clock + 1, quiet |-> quiet]}
            /\ idleCount' = idleCount + 1
       ELSE UNCHANGED <<clock, idle, idleCount>>
    /\ pc' = [pc EXCEPT ![t] = "notifying"]
    /\ UNCHANGED <<horizon, permit, waiters, node>>

\* dial() fails or times out: the armed Slot is dropped.
DialErr(t) ==
    /\ pc[t] = "dialing"
    /\ GiveBack(t, FALSE, FALSE)

\* The piece RPC returns.  put_piece / get_piece put the connection back into
\* the transport unless it is poisoned or failed in transport; the task calls
\* HeldPooled::keep only when the RPC succeeded and a connection is there.
RpcResults == {"ok", "failed", "transport"}
PutBack(result, poisoned) == ~poisoned /\ result # "transport"
Keep(result, poisoned) == result = "ok" /\ PutBack(result, poisoned)

RpcReturns(t) ==
    /\ pc[t] = "rpc"
    /\ \E result \in RpcResults, poisoned \in BOOLEAN :
          GiveBack(t, Keep(result, poisoned), result = "ok" /\ ~poisoned)

\* notify_one after the lock was released; the task is finished.
Notify(t) ==
    /\ pc[t] = "notifying"
    /\ NotifyOne(waiters, [pc EXCEPT ![t] = "done"])
    /\ UNCHANGED <<idle, idleCount, inUse, clock, horizon, node>>

\* Mutant: HeldPooled recycles unless told otherwise.
HeldKeepByDefault == TRUE

\* JoinSet::abort_all drops a task at an await.  A Notified future that was
\* already woken hands its notification on; a parked one leaves the list; a
\* dialing task drops its Slot; a task inside an RPC drops a HeldPooled that
\* was never kept, with the RPC unfinished on the wire.
HeldKeep == FALSE

Cancel(t) ==
    \/ /\ pc[t] = "spawned"
       /\ pc' = [pc EXCEPT ![t] = "done"]
       /\ UNCHANGED <<idle, idleCount, inUse, clock, horizon, permit, waiters, node>>
    \/ /\ pc[t] = "parked"
       /\ \E i \in DOMAIN waiters :
             /\ waiters[i] = t
             /\ waiters' = SubSeq(waiters, 1, i - 1) \o SubSeq(waiters, i + 1, Len(waiters))
       /\ pc' = [pc EXCEPT ![t] = "done"]
       /\ UNCHANGED <<idle, idleCount, inUse, clock, horizon, permit, node>>
    \/ /\ pc[t] = "woken"
       /\ NotifyOne(waiters, [pc EXCEPT ![t] = "done"])
       /\ UNCHANGED <<idle, idleCount, inUse, clock, horizon, node>>
    \/ /\ pc[t] = "dialing"
       /\ GiveBack(t, FALSE, FALSE)
    \/ /\ pc[t] = "rpc"
       /\ GiveBack(t, HeldKeep, FALSE)

\* Time passes: some of the idle connections outlive idle_timeout.
Tick ==
    /\ horizon < clock
    /\ horizon' \in (horizon + 1)..clock
    /\ UNCHANGED <<idle, idleCount, inUse, clock, permit, waiters, pc, node>>

\* What a task does when the runtime polls it or its await ends.
TaskStep(t) ==
    \/ Checkout(t)
    \/ Park(t)
    \/ DialOk(t)
    \/ DialErr(t)
    \/ RpcReturns(t)
    \/ Notify(t)

AllDone == \A t \in Tasks : pc[t] = "done"

PoolNext ==
    \/ \E t \in Tasks : TaskStep(t) \/ Cancel(t)
    \/ Tick
    \/ AllDone /\ UNCHANGED poolVars

PoolSpec == PoolInit /\ [][PoolNext]_poolVars

\* The runtime polls every runnable task, and dial_timeout and message_timeout
\* end every dial and every RPC.  Nothing forces a cancellation or a tick.
Fairness == \A t \in Tasks : WF_poolVars(TaskStep(t))

FairPoolSpec == PoolSpec /\ Fairness

-----------------------------------------------------------------------------
(* Properties *)

\* Every variable has its type.
PoolTypeOK ==
    /\ idle \subseteq IdleConn
    /\ idleCount \in Nat
    /\ inUse \in Nat
    /\ clock \in Nat
    /\ horizon \in Nat
    /\ permit \in BOOLEAN
    /\ waiters \in Seq(Tasks)
    /\ pc \in [Tasks -> PcStates]
    /\ node \in [Tasks -> Nodes]

\* The two counters that checkout decides by are exact: in_use is the number of
\* tasks that own a slot, however their dial or RPC ended or was cancelled, and
\* idle_count is the number of idle connections, however many were dropped
\* stale or evicted.  (Both are kept by hand with saturating arithmetic, so a
\* missed or doubled update would go unnoticed.)
CountersExact ==
    /\ inUse = Cardinality(Holders)
    /\ idleCount = Cardinality(idle)

\* "Maximum concurrent SN connections (idle + in-use)" (PoolConfig).
WithinCap == inUse + idleCount <= MaxConnections

\* checkout, Slot and Pooled: the pool's books are right.  Every variable has its
\* type, the counters that checkout decides by are exact, and the cap holds.
PoolAccounting ==
    /\ PoolTypeOK
    /\ CountersExact
    /\ WithinCap

\* A connection on which an RPC was cancelled, failed or poisoned the framing
\* is never offered for reuse (HeldPooled's contract).
IdleQuiet == \A c \in idle : c.quiet

\* A waiter is never stranded: while a task waits (or has decided to wait),
\* some step is still to come that notifies or re-checks, because a permit is
\* stored, a slot owner has yet to call notify_one, or a woken task is on its
\* way back into checkout.
Waiting == {t \in Tasks : pc[t] \in {"parking", "parked"}}
Movers == {t \in Tasks : pc[t] \in {"dialing", "rpc", "notifying", "woken", "retry"}}

NoStrandedWaiter == Waiting # {} => permit \/ Movers # {}

\* The waiter list holds exactly the parked tasks, each once, and no permit is
\* stored while a task is registered: tokio's Notify never loses a registered
\* task, also when tasks are cancelled while parked or just woken.
WaitersParked ==
    /\ \A t \in Tasks : pc[t] = "parked" <=> \E i \in DOMAIN waiters : waiters[i] = t
    /\ \A i, j \in DOMAIN waiters : waiters[i] = waiters[j] => i = j
    /\ permit => waiters = <<>>

\* Every piece task ends: no sequence of checkouts, dial failures, RPC results
\* and cancellations of other tasks leaves one waiting for a slot for ever.
EveryTaskEnds == \A t \in Tasks : <>(pc[t] = "done")

\* "Checkout waits when `in_use == max`" (ConnectionPool): a registered waiter
\* means a full pool, unless its wake-up is already on the way.
WaitsOnlyAtCap ==
    waiters # <<>> =>
        \/ inUse = MaxConnections
        \/ \E t \in Tasks : pc[t] \in {"notifying", "woken", "retry"}
=============================================================================
