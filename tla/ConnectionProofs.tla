-------------------------- MODULE ConnectionProofs --------------------------
(***************************************************************************)
(* Proofs about a connection: its dial, for any number of addresses and    *)
(* any deadline, and what its calls write and read, for any number of them *)
(* and any sizes of messages.                                              *)
(*                                                                         *)
(* That a dial never hides a working address is a fact about its end, so   *)
(* the invariant records what every outcome on the way means: what an      *)
(* answered leg and an abandoned one say of their peers (LegsMean), what   *)
(* an attempt's outcome says of its legs (AttemptsMean), and which events  *)
(* an attempt has reported (EventsMean).                                   *)
(*                                                                         *)
(* That the server never reads nonsense needs what it holds of a packet at *)
(* each write, and that the poison flag is up as long as it holds part of  *)
(* one (WireClean).                                                        *)
(*                                                                         *)
(* That the probe's queue is bounded in bytes needs the size of every      *)
(* packet on its way there: in the units not yet parsed, in the assembler  *)
(* and in the queue (QueueInv).  The sum over the queue is a recursive     *)
(* function; that it exists is shown by induction on a set of numbers.     *)
(*                                                                         *)
(* That what is read is what was sent needs the frames on their way, in    *)
(* the order they were sent (Arriving), what the assembler and the queue   *)
(* hold before them (Assembling, SoundQueue), and that a message sent on a *)
(* stream in use and not delivered is in one of these places (Complete).   *)
(***************************************************************************)
EXTENDS DrpcConn, SequenceTheorems, WellFoundedInduction, TLAPS

AttemptStates == {"off", "armed", "run", "tls", "ok", "err", "cancelled"}
LegStates == {"off", "dial", "ok", "err"}
Peers == {"node", "other", "refuses", "silent", "mute"}

\* The types of the dial's state; attempts and legs are those of the plan.
DialTypeOK ==
    /\ plan \in Plans
    /\ peer \in [LegsOf(plan) -> Peers]
    /\ now \in Nat
    /\ attempt \in [AttemptsOf(plan) -> AttemptStates]
    /\ since \in [AttemptsOf(plan) -> Nat]
    /\ leg \in [LegsOf(plan) -> LegStates]
    /\ dial \in {"run", "deferred", "ok", "err", "dropped"}
    /\ due \in Nat
    /\ events \in [AttemptsOf(plan) -> Seq({"Success", "Error", "Cancelled"})]

\* A Fast Open leg and the plain leg of its address reach the same node.
PeersAgree ==
    \A a \in Addresses : <<"fast", a>> \in LegsOf(plan) =>
       peer[<<"fast", a>>] \in {peer[<<"noise", a>>], "refuses", "silent"}

\* An authenticated leg reached the node.  A leg that failed did not reach it,
\* unless its sibling had the answer.  At most one bare TCP leg ever connects.
LegsMean ==
    /\ \A l \in LegsOf(plan) : l[1] # "tcp" /\ leg[l] = "ok" => peer[l] = "node"
    /\ \A l \in LegsOf(plan) : leg[l] = "err" /\ peer[l] = "node" =>
          \E m \in LegsOf(plan) : AttemptOf(m) = AttemptOf(l) /\ leg[m] = "ok"
    /\ \A l, m \in LegsOf(plan) : l[1] # "tcp" /\ m # l /\ m \in Siblings(l) /\ leg[l] = "ok" => leg[m] = "err"
    /\ \A l, m \in LegsOf(plan) : l[1] = "tcp" /\ m[1] = "tcp" /\ leg[l] = "ok" /\ leg[m] = "ok" => l = m
    /\ \A l \in LegsOf(plan) : l[1] = "tcp" /\ leg[l] = "ok" => attempt["tcp"] \notin {"off", "armed", "run"}

\* A TCP attempt succeeds with the node only; before the deadline an attempt
\* fails only when each of its legs did, or TLS refused the peer.
AttemptsMean ==
    /\ \A k \in AttemptsOf(plan) : attempt[k] = "armed" => plan.via = "Noise"
    /\ \A l \in LegsOf(plan) : l[1] = "tcp" /\ leg[l] = "ok" /\ attempt["tcp"] = "ok" => peer[l] = "node"
    /\ \A k \in AttemptsOf(plan) : attempt[k] = "err" /\ now < due =>
          \/ \A l \in LegsOf(plan) : AttemptOf(l) = k => leg[l] = "err"
          \/ k = "tcp" /\ \E m \in LegsOf(plan) : m[1] = "tcp" /\ leg[m] = "ok" /\ peer[m] = "other"

\* What an attempt has reported follows from where it is.
EventsMean ==
    \A k \in AttemptsOf(plan) :
       events[k] = CASE attempt[k] = "ok" -> <<"Success">>
                     [] attempt[k] = "err" -> <<"Error">>
                     [] attempt[k] = "cancelled" -> <<"Cancelled">>
                     [] OTHER -> <<>>

\* What the dial's outcome says of its attempts.
DialMeans ==
    /\ dial # "ok" => won = None
    /\ dial = "ok" => won \in LegsOf(plan) /\ leg[won] = "ok" /\ attempt[AttemptOf(won)] = "ok"
    /\ dial = "err" => \A k \in AttemptsOf(plan) : attempt[k] = "err"
    /\ dial \notin {"run", "deferred"} =>
          \A k \in AttemptsOf(plan) : attempt[k] \notin {"armed", "run", "tls"}
    /\ dial = "deferred" => plan.via = "Noise"

\* The inductive invariant of the dial.
DialInv ==
    /\ DialTypeOK
    /\ PeersAgree
    /\ LegsMean
    /\ AttemptsMean
    /\ EventsMean
    /\ DialMeans

-----------------------------------------------------------------------------
(* Plans, attempts and legs *)

\* The kinds of legs and the attempts of a plan.
LEMMA PlanFacts ==
    ASSUME NEW p \in Plans
    PROVE  /\ p.via \in {"Tcp", "Quic", "Auto", "Noise"} /\ p.early \in BOOLEAN /\ p.fast \in BOOLEAN
           /\ p.early \/ p.fast => p.via = "Noise"
           /\ AttemptsOf(p) \subseteq {"tcp", "quic", "noise"}
           /\ "noise" \in AttemptsOf(p) <=> p.via = "Noise"
           /\ p.via = "Noise" => AttemptsOf(p) = {"noise"}
           /\ p.via = "Auto" => AttemptsOf(p) = {"quic", "tcp"}
  <1>1. /\ p.via \in {"Tcp", "Quic", "Auto", "Noise"} /\ p.early \in BOOLEAN /\ p.fast \in BOOLEAN
        /\ p.early \/ p.fast => p.via = "Noise"
    BY DEF Plans
  <1>2. CASE p.via = "Tcp"
    BY <1>1, <1>2 DEF AttemptsOf
  <1>3. CASE p.via = "Quic"
    BY <1>1, <1>3 DEF AttemptsOf
  <1>4. CASE p.via = "Auto"
    BY <1>1, <1>4 DEF AttemptsOf
  <1>5. CASE p.via = "Noise"
    BY <1>1, <1>5 DEF AttemptsOf
  <1> QED BY <1>1, <1>2, <1>3, <1>4, <1>5

\* A leg belongs to an attempt of its plan; only TCP legs belong to TCP, and
\* a plan with Noise legs has no others.
LEMMA LegFacts ==
    ASSUME NEW p \in Plans, NEW l \in LegsOf(p)
    PROVE  /\ l = <<l[1], l[2]>> /\ l[2] \in Addresses
           /\ l[1] \in {"tcp", "quic", "noise", "fast"}
           /\ AttemptOf(l) \in AttemptsOf(p)
           /\ AttemptOf(l) = "tcp" <=> l[1] = "tcp"
           /\ l[1] \in {"fast", "noise"} <=> p.via = "Noise"
           /\ p.via = "Noise" => AttemptOf(l) = "noise" /\ <<"noise", l[2]>> \in LegsOf(p)
  <1>1. PICK k \in AttemptsOf(p) \cup (IF p.fast THEN {"fast"} ELSE {}), a \in Addresses : l = <<k, a>>
    BY DEF LegsOf
  <1>2. l[1] = k /\ l[2] = a
    BY <1>1
  <1>3. k \in {"tcp", "quic", "noise", "fast"} /\ (k = "fast" => p.fast)
    BY <1>1, PlanFacts
  <1>4. k \in {"fast", "noise"} <=> p.via = "Noise"
    BY <1>1, <1>3, PlanFacts
  <1>5. AttemptOf(l) \in AttemptsOf(p) /\ (AttemptOf(l) = "tcp" <=> l[1] = "tcp")
    BY <1>1, <1>2, <1>3, PlanFacts DEF AttemptOf
  <1>6. p.via = "Noise" => AttemptOf(l) = "noise" /\ <<"noise", l[2]>> \in LegsOf(p)
    BY <1>1, <1>2, <1>4, PlanFacts DEF AttemptOf, LegsOf
  <1> QED BY <1>1, <1>2, <1>3, <1>4, <1>5, <1>6

\* The legs that share the handshake of a leg.
LEMMA SiblingFacts ==
    ASSUME DialTypeOK, NEW l \in LegsOf(plan)
    PROVE  /\ l \in Siblings(l)
           /\ Siblings(l) \subseteq LegsOf(plan)
           /\ \A m \in Siblings(l) : AttemptOf(m) = AttemptOf(l) /\ m[2] = l[2] /\ l \in Siblings(m)
                                     /\ Siblings(m) = Siblings(l)
           /\ l[1] \notin {"fast", "noise"} => Siblings(l) = {l}
           /\ l[1] \in {"fast", "noise"} => \A m \in Siblings(l) : m \in {<<"fast", l[2]>>, <<"noise", l[2]>>}
  <1>1. DOMAIN leg = LegsOf(plan) /\ plan \in Plans
    BY DEF DialTypeOK
  <1>2. CASE l[1] \notin {"fast", "noise"}
    BY <1>1, <1>2, LegFacts DEF Siblings
  <1>3. CASE l[1] \in {"fast", "noise"}
    <2>1. Siblings(l) = {m \in LegsOf(plan) : m[2] = l[2]}
      BY <1>1, <1>3 DEF Siblings
    <2>2. plan.via = "Noise"
      BY <1>1, <1>3, LegFacts
    <2>3. \A m \in LegsOf(plan) : /\ m[1] \in {"fast", "noise"} /\ AttemptOf(m) = "noise"
                                  /\ Siblings(m) = {x \in LegsOf(plan) : x[2] = m[2]}
                                  /\ m = <<m[1], m[2]>>
      BY <1>1, <2>2, LegFacts DEF Siblings
    <2> QED BY <1>3, <2>1, <2>3
  <1> QED BY <1>2, <1>3

-----------------------------------------------------------------------------
(* The dial starts *)

\* A dial starts with nothing known of any peer.
LEMMA DialInitInv ==
    ASSUME DialInit PROVE DialInv
  <1>1. plan \in Plans /\ peer \in [LegsOf(plan) -> Peers]
    BY DEF DialInit, Peers
  <1>2. attempt \in [AttemptsOf(plan) -> {"armed", "off", "run"}]
    BY DEF DialInit
  <1>3. \A k \in AttemptsOf(plan) : attempt[k] = "armed" => plan.via = "Noise"
    BY <1>1, PlanFacts DEF DialInit
  <1>4. DialTypeOK
    BY <1>1, <1>2, DialAssumption DEF DialInit, DialTypeOK, AttemptStates, LegStates
  <1>5. PeersAgree
    BY DEF DialInit, PeersAgree
  <1>6. LegsMean
    BY DEF DialInit, LegsMean
  <1>7. AttemptsMean
    BY <1>2, <1>3 DEF DialInit, AttemptsMean
  <1>8. EventsMean
    BY <1>2 DEF DialInit, EventsMean
  <1>9. DialMeans
    BY <1>1, PlanFacts DEF DialInit, DialMeans
  <1> QED BY <1>4, <1>5, <1>6, <1>7, <1>8, <1>9 DEF DialInv

\* The dial is running or deferred while an attempt is.
LEMMA OpenDial ==
    ASSUME DialInv, NEW k \in AttemptsOf(plan), attempt[k] \in {"armed", "run", "tls"}
    PROVE  dial \in {"run", "deferred"} /\ won = None
  BY DEF DialInv, DialMeans

\* The first use of a deferred dial starts its only attempt and its deadline.
LEMMA FirstUseInv ==
    ASSUME DialInv, FirstUse PROVE DialInv'
  <1> USE DEF DialInv
  <1>1. /\ dial = "deferred" /\ attempt["noise"] = "armed" /\ plan \in Plans
        /\ plan.via = "Noise" /\ AttemptsOf(plan) = {"noise"}
    BY PlanFacts DEF FirstUse, DialMeans, DialTypeOK
  <1>2. /\ attempt' = [k \in {"noise"} |-> "run"]
        /\ since' = [k \in {"noise"} |-> now]
        /\ due' = now + Deadline
        /\ UNCHANGED <<plan, peer, now, leg, dial, won, events>>
    BY <1>1 DEF FirstUse, StartAttempts, DialTypeOK
  <1>3. DialTypeOK'
    BY <1>1, <1>2, DialAssumption DEF DialTypeOK, AttemptStates
  <1>4. PeersAgree'
    BY <1>2 DEF PeersAgree
  <1>5. LegsMean'
    <2>1. \A l \in LegsOf(plan) : l[1] # "tcp"
      BY <1>1, LegFacts
    <2> QED BY <1>2, <2>1 DEF LegsMean, Siblings
  <1>6. AttemptsMean'
    <2>1. \A l \in LegsOf(plan) : l[1] # "tcp"
      BY <1>1, LegFacts
    <2> QED BY <1>1, <1>2, <2>1 DEF AttemptsMean
  <1>7. EventsMean'
    BY <1>1, <1>2 DEF EventsMean
  <1>8. DialMeans'
    BY <1>1, <1>2 DEF DialMeans
  <1> QED BY <1>3, <1>4, <1>5, <1>6, <1>7, <1>8

\* TCP joins the race of Auto.
LEMMA FallbackInv ==
    ASSUME DialInv, Fallback PROVE DialInv'
  <1> USE DEF DialInv
  <1>1. /\ dial = "run" /\ attempt["tcp"] = "off" /\ plan \in Plans /\ plan.via = "Auto"
        /\ AttemptsOf(plan) = {"quic", "tcp"}
    BY PlanFacts DEF Fallback, DialTypeOK
  <1>2. /\ attempt' = [attempt EXCEPT !["tcp"] = "run"]
        /\ since' = [since EXCEPT !["tcp"] = now]
        /\ UNCHANGED <<plan, peer, now, leg, dial, won, due, events>>
    BY <1>1 DEF Fallback, StartAttempts, DialTypeOK
  <1>3. DialTypeOK'
    BY <1>1, <1>2 DEF DialTypeOK, AttemptStates
  <1>4. PeersAgree'
    BY <1>2 DEF PeersAgree
  <1>5. \A l \in LegsOf(plan) : l[1] = "tcp" => leg[l] # "ok"
    BY <1>1 DEF LegsMean
  <1>6. LegsMean'
    BY <1>2, <1>5 DEF LegsMean, Siblings
  <1>7. AttemptsMean'
    <2>1. \A k \in AttemptsOf(plan) : attempt'[k] \in {"armed", "err"} => k # "tcp" /\ attempt'[k] = attempt[k]
      BY <1>1, <1>2 DEF DialTypeOK
    <2> QED BY <1>2, <1>5, <2>1 DEF AttemptsMean
  <1>8. EventsMean'
    BY <1>1, <1>2 DEF EventsMean, DialTypeOK
  <1>9. DialMeans'
    BY <1>1, <1>2 DEF DialMeans
  <1> QED BY <1>3, <1>4, <1>6, <1>7, <1>8, <1>9

-----------------------------------------------------------------------------
(* Legs *)

\* A leg that starts says nothing yet.
LEMMA LegStartsInv ==
    ASSUME DialInv, NEW l \in LegsOf(plan), LegStarts(l) PROVE DialInv'
  <1> USE DEF DialInv
  <1>1. /\ leg[l] = "off" /\ leg' = [leg EXCEPT ![l] = "dial"]
        /\ attempt[AttemptOf(l)] = "run" /\ plan \in Plans
        /\ UNCHANGED <<plan, peer, now, attempt, since, dial, won, due, events>>
    BY DEF LegStarts, LegMayStart, DialTypeOK
  <1>2. \A m \in LegsOf(plan) : leg'[m] = IF m = l THEN "dial" ELSE leg[m]
    BY <1>1 DEF DialTypeOK
  <1>3. DialTypeOK'
    BY <1>1 DEF DialTypeOK, LegStates
  <1>4. DOMAIN leg' = DOMAIN leg
    BY <1>1 DEF DialTypeOK
  <1>5. LegsMean'
    <2>1. \A m \in LegsOf(plan) : Siblings(m)' = Siblings(m)
      BY <1>4 DEF Siblings
    <2>2. \A m \in LegsOf(plan) : leg'[m] \in {"ok", "err"} => m # l /\ leg[m] = leg'[m]
      BY <1>2
    <2>3. \A m \in LegsOf(plan) : leg[m] \in {"ok", "err"} => leg'[m] = leg[m]
      BY <1>1, <1>2
    <2>4. \A m \in LegsOf(plan) : m[1] # "tcp" /\ leg'[m] = "ok" => peer[m] = "node"
      BY <2>2 DEF LegsMean
    <2>5. \A m \in LegsOf(plan) : leg'[m] = "err" /\ peer[m] = "node" =>
             \E n \in LegsOf(plan) : AttemptOf(n) = AttemptOf(m) /\ leg'[n] = "ok"
      BY <2>2, <2>3 DEF LegsMean
    <2>6. \A m, n \in LegsOf(plan) : m[1] # "tcp" /\ n # m /\ n \in Siblings(m) /\ leg'[m] = "ok" => leg'[n] = "err"
      BY <2>2, <2>3 DEF LegsMean
    <2> QED BY <1>1, <2>1, <2>2, <2>4, <2>5, <2>6 DEF LegsMean
  <1>6. AttemptsMean'
    <2>1. AttemptOf(l) \in AttemptsOf(plan)
      BY <1>1, LegFacts
    <2>2. \A m \in LegsOf(plan) : leg'[m] = "ok" <=> leg[m] = "ok"
      BY <1>1, <1>2
    <2>3. \A m \in LegsOf(plan) : leg[m] = "err" => leg'[m] = "err"
      BY <1>1, <1>2
    <2> QED BY <1>1, <2>2, <2>3 DEF AttemptsMean
  <1>7. PeersAgree' /\ EventsMean'
    BY <1>1 DEF PeersAgree, EventsMean
  <1>8. DialMeans'
    BY <1>1, <1>2 DEF DialMeans
  <1> QED BY <1>3, <1>5, <1>6, <1>7, <1>8

\* A leg that ends: refused, connected over TCP, or settled with its sibling
\* by what authentication says of the peer.
LEMMA LegEndsInv ==
    ASSUME DialInv, NEW l \in LegsOf(plan), LegEnds(l) PROVE DialInv'
  <1> USE DEF DialInv
  <1>1. /\ leg[l] = "dial" /\ attempt[AttemptOf(l)] = "run" /\ plan \in Plans
        /\ AttemptOf(l) \in AttemptsOf(plan)
        /\ UNCHANGED <<plan, peer, now, since, dial, won, due, events>>
    BY LegFacts DEF LegEnds, DialTypeOK
  <1>2. dial \in {"run", "deferred"} /\ won = None
    BY <1>1, OpenDial
  <1>3. PeersAgree'
    BY <1>1 DEF PeersAgree
  <1>4. CASE peer[l] = "refuses" /\ leg' = [leg EXCEPT ![l] = "err"] /\ UNCHANGED attempt
    <2>1. \A m \in LegsOf(plan) : leg'[m] = IF m = l THEN "err" ELSE leg[m]
      BY <1>4 DEF DialTypeOK
    <2>2. DialTypeOK' /\ DOMAIN leg' = DOMAIN leg
      BY <1>1, <1>4 DEF DialTypeOK, LegStates
    <2>3. \A m \in LegsOf(plan) : /\ leg'[m] = "ok" <=> leg[m] = "ok"
                                  /\ leg[m] = "err" => leg'[m] = "err"
                                  /\ leg'[m] = "err" /\ peer[m] = "node" => leg[m] = "err"
                                  /\ Siblings(m)' = Siblings(m)
      BY <1>1, <1>4, <2>1, <2>2 DEF Siblings
    <2>4. LegsMean'
      <3>1. \A m \in LegsOf(plan) : leg'[m] = "err" /\ peer[m] = "node" =>
               \E n \in LegsOf(plan) : AttemptOf(n) = AttemptOf(m) /\ leg'[n] = "ok"
        BY <2>3 DEF LegsMean
      <3>2. \A m, n \in LegsOf(plan) : m[1] # "tcp" /\ n # m /\ n \in Siblings(m) /\ leg'[m] = "ok" => leg'[n] = "err"
        BY <2>3 DEF LegsMean
      <3> QED BY <1>1, <1>4, <2>3, <3>1, <3>2 DEF LegsMean
    <2>5. AttemptsMean'
      BY <1>1, <1>4, <2>3 DEF AttemptsMean
    <2>6. EventsMean' /\ DialMeans'
      BY <1>1, <1>2, <1>4 DEF EventsMean, DialMeans
    <2> QED BY <1>3, <2>2, <2>4, <2>5, <2>6
  <1>5. CASE /\ l[1] = "tcp" /\ peer[l] \in {"node", "other", "mute"}
             /\ leg' = [leg EXCEPT ![l] = "ok"]
             /\ attempt' = [attempt EXCEPT !["tcp"] = "tls"]
    <2>1. \A m \in LegsOf(plan) : leg'[m] = IF m = l THEN "ok" ELSE leg[m]
      BY <1>5 DEF DialTypeOK
    <2>2. "tcp" \in AttemptsOf(plan) /\ attempt["tcp"] = "run"
      BY <1>1, <1>5, LegFacts
    <2>3. DialTypeOK' /\ DOMAIN leg' = DOMAIN leg
      BY <1>1, <1>5 DEF DialTypeOK, LegStates, AttemptStates
    <2>4. \A m \in LegsOf(plan) : m[1] = "tcp" => leg[m] # "ok"
      BY <2>2 DEF LegsMean
    <2>5. \A k \in AttemptsOf(plan) : attempt'[k] = IF k = "tcp" THEN "tls" ELSE attempt[k]
      BY <1>5 DEF DialTypeOK
    <2>6. LegsMean'
      <3>1. \A m \in LegsOf(plan) : /\ leg'[m] = "ok" => m = l \/ (leg[m] = "ok" /\ m[1] # "tcp")
                                    /\ leg[m] = "ok" => leg'[m] = "ok"
                                    /\ leg'[m] = "err" <=> leg[m] = "err"
                                    /\ Siblings(m)' = Siblings(m)
        BY <1>1, <2>1, <2>3, <2>4 DEF Siblings
      <3>2. \A m \in LegsOf(plan) : leg'[m] = "err" /\ peer[m] = "node" =>
               \E n \in LegsOf(plan) : AttemptOf(n) = AttemptOf(m) /\ leg'[n] = "ok"
        BY <3>1 DEF LegsMean
      <3>3. \A m, n \in LegsOf(plan) : m[1] # "tcp" /\ n # m /\ n \in Siblings(m) /\ leg'[m] = "ok" => leg'[n] = "err"
        BY <1>5, <3>1 DEF LegsMean
      <3>4. \A m \in LegsOf(plan) : m[1] # "tcp" /\ leg'[m] = "ok" => peer[m] = "node"
        BY <1>5, <3>1 DEF LegsMean
      <3> QED BY <1>1, <2>2, <2>5, <3>1, <3>2, <3>3, <3>4 DEF LegsMean
    <2>7. AttemptsMean'
      <3>1. \A k \in AttemptsOf(plan) : attempt'[k] \in {"armed", "err", "ok"} => k # "tcp" /\ attempt'[k] = attempt[k]
        BY <2>5
      <3>2. \A m \in LegsOf(plan) : leg[m] = "err" => leg'[m] = "err"
        BY <1>1, <2>1
      <3> QED BY <1>1, <2>2, <3>1, <3>2 DEF AttemptsMean
    <2>8. EventsMean'
      BY <1>1, <2>2, <2>5 DEF EventsMean
    <2>9. DialMeans'
      BY <1>1, <1>2 DEF DialMeans
    <2> QED BY <1>3, <2>3, <2>6, <2>7, <2>8, <2>9
  <1>6. CASE /\ l[1] # "tcp" /\ peer[l] \in {"node", "other"}
             /\ leg' = [m \in DOMAIN leg |-> IF m \notin Siblings(l) THEN leg[m]
                                             ELSE IF m = l /\ Authentic(peer[l]) THEN "ok" ELSE "err"]
             /\ UNCHANGED attempt
    <2> DEFINE S == Siblings(l)
    <2>1. \A m \in LegsOf(plan) : leg'[m] = IF m \notin S THEN leg[m]
                                            ELSE IF m = l /\ peer[l] = "node" THEN "ok" ELSE "err"
      BY <1>6 DEF DialTypeOK, Authentic
    <2>2. DialTypeOK' /\ DOMAIN leg' = DOMAIN leg
      BY <1>1, <1>6 DEF DialTypeOK, LegStates
    <2>3. /\ l \in S
          /\ \A m \in S : m \in LegsOf(plan) /\ AttemptOf(m) = AttemptOf(l) /\ Siblings(m) = S /\ m[2] = l[2]
          /\ \A m \in LegsOf(plan) : l \in Siblings(m) => m \in S
      BY SiblingFacts
    <2>4. \A m \in LegsOf(plan) : Siblings(m)' = Siblings(m)
      BY <2>2 DEF Siblings
    <2>5. \A m \in S : m[1] # "tcp" /\ leg[m] # "ok"
      <3>1. \A m \in S : m[1] # "tcp"
        BY <1>1, <1>6, <2>3, LegFacts
      <3>2. \A m \in S : leg[m] = "ok" => m # l /\ l \in Siblings(m)
        BY <1>1, <2>3
      <3> QED BY <1>1, <2>3, <3>1, <3>2 DEF LegsMean
    <2>6. peer[l] = "other" => \A m \in S : peer[m] # "node"
      <3>1. CASE l[1] \notin {"fast", "noise"}
        BY <3>1, SiblingFacts
      <3>2. CASE l[1] \in {"fast", "noise"}
        <4>1. /\ \A m \in S : m \in {<<"fast", l[2]>>, <<"noise", l[2]>>}
              /\ l \in {<<"fast", l[2]>>, <<"noise", l[2]>>} /\ l[2] \in Addresses
          BY <1>1, <2>3, <3>2, SiblingFacts, LegFacts
        <4>2. <<"fast", l[2]>> \in LegsOf(plan) =>
                 peer[<<"fast", l[2]>>] \in {peer[<<"noise", l[2]>>], "refuses", "silent"}
          BY <4>1 DEF PeersAgree
        <4> QED BY <2>3, <4>1, <4>2
      <3> QED BY <3>1, <3>2
    <2> HIDE DEF S
    <2>7. \A m \in LegsOf(plan) : /\ m \notin S => leg'[m] = leg[m]
                                  /\ m \in S => leg'[m] \in {"ok", "err"}
                                  /\ m \in S /\ leg'[m] = "ok" => m = l /\ peer[l] = "node"
                                  /\ leg[m] = "ok" => m \notin S /\ leg'[m] = "ok"
      BY <2>1, <2>5
    <2>8. LegsMean'
      <3>1. \A m \in LegsOf(plan) : m[1] # "tcp" /\ leg'[m] = "ok" => peer[m] = "node"
        BY <2>7 DEF LegsMean
      <3>2. ASSUME NEW m \in LegsOf(plan), leg'[m] = "err", peer[m] = "node"
            PROVE  \E n \in LegsOf(plan) : AttemptOf(n) = AttemptOf(m) /\ leg'[n] = "ok"
        <4>1. CASE m \in S
          <5>1. peer[l] = "node"
            BY <1>6, <2>6, <3>2, <4>1
          <5>2. leg'[l] = "ok" /\ AttemptOf(m) = AttemptOf(l)
            BY <2>1, <2>3, <4>1, <5>1
          <5> QED BY <5>2
        <4>2. CASE m \notin S
          <5>1. \E n \in LegsOf(plan) : AttemptOf(n) = AttemptOf(m) /\ leg[n] = "ok"
            BY <2>7, <3>2, <4>2 DEF LegsMean
          <5> QED BY <2>7, <5>1
        <4> QED BY <4>1, <4>2
      <3>3. ASSUME NEW m \in LegsOf(plan), NEW n \in LegsOf(plan), m[1] # "tcp", n # m,
                   n \in Siblings(m), leg'[m] = "ok"
            PROVE  leg'[n] = "err"
        <4>1. CASE m \in S
          BY <2>1, <2>3, <2>7, <3>3, <4>1
        <4>2. CASE m \notin S
          <5>1. n \notin S
            BY <2>3, <3>3, <4>2, SiblingFacts
          <5> QED BY <2>7, <3>3, <4>2, <5>1 DEF LegsMean
        <4> QED BY <4>1, <4>2
      <3>4. \A m \in LegsOf(plan) : m[1] = "tcp" => leg'[m] = leg[m]
        BY <2>5, <2>7
      <3> QED BY <1>1, <1>6, <2>4, <3>1, <3>2, <3>3, <3>4 DEF LegsMean
    <2>9. AttemptsMean'
      <3>1. \A m \in LegsOf(plan) : m[1] = "tcp" => leg'[m] = leg[m]
        BY <2>5, <2>7
      <3>2. \A m \in LegsOf(plan) : attempt[AttemptOf(m)] = "err" => leg'[m] = leg[m]
        BY <1>1, <2>3, <2>7
      <3>3. ASSUME NEW j \in AttemptsOf(plan), attempt[j] = "err", now < due
            PROVE  \/ \A m \in LegsOf(plan) : AttemptOf(m) = j => leg'[m] = "err"
                   \/ j = "tcp" /\ \E m \in LegsOf(plan) : m[1] = "tcp" /\ leg'[m] = "ok" /\ peer[m] = "other"
        <4>1. \/ \A m \in LegsOf(plan) : AttemptOf(m) = j => leg[m] = "err"
              \/ j = "tcp" /\ \E m \in LegsOf(plan) : m[1] = "tcp" /\ leg[m] = "ok" /\ peer[m] = "other"
          BY <3>3 DEF AttemptsMean
        <4> QED BY <3>1, <3>2, <3>3, <4>1
      <3> QED BY <1>1, <1>6, <3>1, <3>3 DEF AttemptsMean
    <2>10. EventsMean' /\ DialMeans'
      BY <1>1, <1>2, <1>6 DEF EventsMean, DialMeans
    <2> QED BY <1>3, <2>2, <2>8, <2>9, <2>10
  <1> QED BY <1>4, <1>5, <1>6 DEF LegEnds

-----------------------------------------------------------------------------
(* Attempts settle *)

\* An attempt's outcome, with the event that reports it.
LEMMA SettleInv ==
    ASSUME DialInv, NEW k \in AttemptsOf(plan), attempt[k] \in {"run", "tls"},
           NEW outcome \in {"ok", "err"}, Settle(k, outcome),
           outcome = "ok" /\ k = "tcp" =>
              \A l \in LegsOf(plan) : l[1] = "tcp" /\ leg[l] = "ok" => peer[l] = "node",
           outcome = "err" /\ now < due =>
              \/ \A l \in LegsOf(plan) : AttemptOf(l) = k => leg[l] = "err"
              \/ k = "tcp" /\ \E m \in LegsOf(plan) : m[1] = "tcp" /\ leg[m] = "ok" /\ peer[m] = "other"
    PROVE  DialInv'
  <1> USE DEF DialInv
  <1>1. /\ attempt' = [attempt EXCEPT ![k] = outcome]
        /\ UNCHANGED <<plan, peer, now, since, leg, dial, won, due>>
    BY DEF Settle
  <1>2. \A j \in AttemptsOf(plan) : attempt'[j] = IF j = k THEN outcome ELSE attempt[j]
    BY <1>1 DEF DialTypeOK
  <1>3. /\ events' = [j \in AttemptsOf(plan) |->
                        IF j = k THEN Append(events[j], IF outcome = "ok" THEN "Success" ELSE "Error")
                        ELSE events[j]]
        /\ events[k] = <<>>
    BY DEF Settle, Report, DialTypeOK, EventsMean
  <1>4. events'[k] = IF outcome = "ok" THEN <<"Success">> ELSE <<"Error">>
    BY <1>3
  <1>5. DialTypeOK'
    <2>1. \A j \in AttemptsOf(plan) : events'[j] \in Seq({"Success", "Error", "Cancelled"})
      BY <1>3, <1>4 DEF DialTypeOK
    <2>2. events' \in [AttemptsOf(plan) -> Seq({"Success", "Error", "Cancelled"})]
      BY <1>3, <2>1
    <2> QED BY <1>1, <2>2 DEF DialTypeOK, AttemptStates
  <1>6. PeersAgree'
    BY <1>1 DEF PeersAgree
  <1>7. LegsMean'
    <2>1. \A l \in LegsOf(plan) : l[1] = "tcp" /\ leg[l] = "ok" => attempt'["tcp"] \notin {"off", "armed", "run"}
      <3>1. \A l \in LegsOf(plan) : l[1] = "tcp" => "tcp" \in AttemptsOf(plan)
        BY LegFacts DEF DialTypeOK
      <3> QED BY <1>2, <3>1 DEF LegsMean
    <2> QED BY <1>1, <2>1 DEF LegsMean, Siblings
  <1>8. AttemptsMean'
    <2>1. \A l \in LegsOf(plan) : l[1] = "tcp" => "tcp" \in AttemptsOf(plan)
      BY LegFacts DEF DialTypeOK
    <2>2. \A l \in LegsOf(plan) : l[1] = "tcp" /\ leg[l] = "ok" /\ attempt'["tcp"] = "ok" => peer[l] = "node"
      BY <1>2, <2>1 DEF AttemptsMean
    <2>3. \A j \in AttemptsOf(plan) : attempt'[j] = "armed" => plan.via = "Noise"
      BY <1>2 DEF AttemptsMean
    <2>4. \A j \in AttemptsOf(plan) : attempt'[j] = "err" /\ now < due =>
             \/ \A l \in LegsOf(plan) : AttemptOf(l) = j => leg[l] = "err"
             \/ j = "tcp" /\ \E m \in LegsOf(plan) : m[1] = "tcp" /\ leg[m] = "ok" /\ peer[m] = "other"
      BY <1>2 DEF AttemptsMean
    <2> QED BY <1>1, <2>2, <2>3, <2>4 DEF AttemptsMean
  <1>9. EventsMean'
    <2>1. \A j \in AttemptsOf(plan) : j # k => events'[j] = events[j]
      BY <1>3
    <2> QED BY <1>1, <1>2, <1>4, <2>1 DEF EventsMean
  <1>10. DialMeans'
    <2>1. dial \in {"run", "deferred"} /\ won = None
      BY OpenDial
    <2> QED BY <1>1, <2>1 DEF DialMeans
  <1> QED BY <1>5, <1>6, <1>7, <1>8, <1>9, <1>10

\* QUIC and Noise settle on a leg that is ok, or when every leg failed.
LEMMA RaceSettlesInv ==
    ASSUME DialInv, NEW k \in AttemptsOf(plan), RaceSettles(k) PROVE DialInv'
  <1>1. k # "tcp" /\ attempt[k] = "run" /\ DOMAIN leg = LegsOf(plan)
    BY DEF RaceSettles, DialInv, DialTypeOK
  <1>2. CASE Settle(k, "ok")
    BY <1>1, <1>2, SettleInv
  <1>3. CASE (\A l \in DOMAIN leg : AttemptOf(l) = k => leg[l] = "err") /\ Settle(k, "err")
    BY <1>1, <1>3, SettleInv
  <1> QED BY <1>2, <1>3 DEF RaceSettles

\* TCP settles by what TLS finds behind the one connection that was made.
LEMMA TcpSettlesInv ==
    ASSUME DialInv, TcpSettles PROVE DialInv'
  <1>1. DOMAIN leg = LegsOf(plan) /\ "tcp" \in AttemptsOf(plan) /\ plan \in Plans
    BY DEF TcpSettles, DialInv, DialTypeOK
  <1>2. \A l \in LegsOk("tcp") : l \in LegsOf(plan) /\ l[1] = "tcp" /\ leg[l] = "ok"
    BY <1>1, LegFacts DEF LegsOk
  <1>3. CASE attempt["tcp"] = "tls" /\ \E l \in LegsOk("tcp") : peer[l] = "node" /\ Settle("tcp", "ok")
    <2>1. PICK l \in LegsOk("tcp") : peer[l] = "node" /\ Settle("tcp", "ok")
      BY <1>3
    <2>2. \A m \in LegsOf(plan) : m[1] = "tcp" /\ leg[m] = "ok" => peer[m] = "node"
      BY <1>2, <2>1 DEF DialInv, LegsMean
    <2> QED BY <1>1, <1>3, <2>1, <2>2, SettleInv
  <1>4. CASE attempt["tcp"] = "tls" /\ \E l \in LegsOk("tcp") : peer[l] = "other" /\ Settle("tcp", "err")
    BY <1>1, <1>2, <1>4, SettleInv
  <1>5. CASE /\ attempt["tcp"] = "run"
             /\ \A a \in Addresses : leg[<<"tcp", a>>] = "err"
             /\ Settle("tcp", "err")
    <2>1. \A l \in LegsOf(plan) : AttemptOf(l) = "tcp" => leg[l] = "err"
      BY <1>1, <1>5, LegFacts
    <2> QED BY <1>1, <1>5, <2>1, SettleInv
  <1> QED BY <1>3, <1>4, <1>5 DEF TcpSettles

\* The deadline fails an attempt whatever its legs were about to say.
LEMMA TimesOutInv ==
    ASSUME DialInv, NEW k \in AttemptsOf(plan), AttemptTimesOut(k) PROVE DialInv'
  <1>1. attempt[k] \in {"run", "tls"} /\ Settle(k, "err") /\ ~(now < due)
    BY DEF AttemptTimesOut, DialInv, DialTypeOK
  <1> QED BY <1>1, SettleInv

-----------------------------------------------------------------------------
(* The dial ends *)

\* Losers are cancelled and reported when the dial is over.
LEMMA CancelRestInv ==
    ASSUME DialInv, NEW outcome \in {"ok", "err", "dropped"}, CancelRest(outcome),
           dial \in {"run", "deferred"},
           outcome = "ok" => won' \in LegsOf(plan) /\ leg[won'] = "ok" /\ attempt[AttemptOf(won')] = "ok",
           outcome # "ok" => won' = won,
           outcome = "err" => \A k \in AttemptsOf(plan) : attempt[k] = "err"
    PROVE  DialInv'
  <1> USE DEF DialInv
  <1>1. /\ DOMAIN attempt = AttemptsOf(plan) /\ DOMAIN events = AttemptsOf(plan) /\ plan \in Plans
        /\ Running = {k \in AttemptsOf(plan) : attempt[k] \in {"armed", "run", "tls"}}
    BY DEF Running, DialTypeOK
  <1>2. /\ dial' = outcome
        /\ attempt' = [k \in AttemptsOf(plan) |-> IF k \in Running THEN "cancelled" ELSE attempt[k]]
        /\ events' = [k \in AttemptsOf(plan) |-> IF k \in Running THEN Append(events[k], "Cancelled") ELSE events[k]]
        /\ UNCHANGED <<plan, peer, now, since, leg, due>>
    BY <1>1 DEF CancelRest, Report
  <1>3. \A k \in AttemptsOf(plan) : /\ k \in Running => attempt'[k] = "cancelled" /\ events'[k] = <<"Cancelled">>
                                    /\ k \notin Running => attempt'[k] = attempt[k] /\ events'[k] = events[k]
    <2>1. \A k \in Running : events[k] = <<>>
      BY <1>1 DEF EventsMean
    <2>2. Append(<<>>, "Cancelled") = <<"Cancelled">>
      OBVIOUS
    <2>3. \A k \in AttemptsOf(plan) : k \in Running => attempt'[k] = "cancelled" /\ events'[k] = <<"Cancelled">>
      BY <1>2, <2>1, <2>2
    <2>4. \A k \in AttemptsOf(plan) : k \notin Running => attempt'[k] = attempt[k] /\ events'[k] = events[k]
      BY <1>2
    <2> QED BY <2>3, <2>4
  <1>4. DialTypeOK'
    <2> DEFINE E == {"Success", "Error", "Cancelled"}
    <2>0. <<"Cancelled">> \in Seq(E)
      OBVIOUS
    <2>5. events \in [AttemptsOf(plan) -> Seq(E)]
      BY DEF DialTypeOK
    <2> HIDE DEF E
    <2>1. \A k \in AttemptsOf(plan) : events'[k] \in Seq(E)
      BY <1>3, <2>0, <2>5
    <2>2. events' \in [AttemptsOf(plan) -> Seq(E)]
      BY <1>2, <2>1
    <2>3. attempt' \in [AttemptsOf(plan) -> AttemptStates]
      BY <1>2 DEF DialTypeOK, AttemptStates
    <2> QED BY <1>2, <2>2, <2>3 DEF DialTypeOK, E
  <1>5. PeersAgree'
    BY <1>2 DEF PeersAgree
  <1>6. \A l \in LegsOf(plan) : l[1] = "tcp" => "tcp" \in AttemptsOf(plan)
    BY <1>1, LegFacts
  <1>7. LegsMean'
    <2>1. \A l \in LegsOf(plan) : l[1] = "tcp" /\ leg[l] = "ok" => attempt'["tcp"] \notin {"off", "armed", "run"}
      BY <1>3, <1>6 DEF LegsMean
    <2> QED BY <1>2, <2>1 DEF LegsMean, Siblings
  <1>8. AttemptsMean'
    <2>1. \A k \in AttemptsOf(plan) : attempt'[k] \in {"armed", "ok", "err"} => attempt'[k] = attempt[k]
      BY <1>3
    <2> QED BY <1>2, <1>6, <2>1 DEF AttemptsMean
  <1>9. EventsMean'
    <2>1. \A k \in AttemptsOf(plan) : k \in Running =>
             attempt'[k] = "cancelled" /\ events'[k] = <<"Cancelled">>
      BY <1>3
    <2>2. \A k \in AttemptsOf(plan) : k \notin Running =>
             attempt'[k] = attempt[k] /\ events'[k] = events[k]
      BY <1>3
    <2> QED BY <1>2, <2>1, <2>2 DEF EventsMean
  <1>10. DialMeans'
    <2>1. outcome = "err" => \A k \in AttemptsOf(plan) : attempt'[k] = "err"
      BY <1>1, <1>3
    <2>2. \A k \in AttemptsOf(plan) : attempt'[k] \notin {"armed", "run", "tls"}
      BY <1>1, <1>3
    <2>3. outcome = "ok" => attempt'[AttemptOf(won')] = "ok"
      BY <1>1, <1>3, LegFacts
    <2>4. outcome # "ok" => won' = None
      BY DEF DialMeans
    <2> QED BY <1>2, <2>1, <2>2, <2>3, <2>4 DEF DialMeans
  <1> QED BY <1>4, <1>5, <1>7, <1>8, <1>9, <1>10

\* A tick of the clock can only end the time before the deadline.
LEMMA TickInv ==
    ASSUME DialInv, Tick PROVE DialInv'
  <1> USE DEF DialInv
  <1>1. now' = now + 1 /\ UNCHANGED <<plan, peer, attempt, since, leg, dial, won, due, events>>
    BY DEF Tick
  <1>2. DialTypeOK' /\ (now' < due => now < due)
    BY <1>1 DEF DialTypeOK
  <1>3. PeersAgree' /\ LegsMean' /\ EventsMean' /\ DialMeans'
    BY <1>1 DEF PeersAgree, LegsMean, Siblings, EventsMean, DialMeans
  <1>4. AttemptsMean'
    BY <1>1, <1>2 DEF AttemptsMean
  <1> QED BY <1>2, <1>3, <1>4

-----------------------------------------------------------------------------
(* Every step *)

DialNext == DialStep \/ Tick \/ DialDropped \/ FirstUse

\* With the deadlines of its reads, the connection takes the same steps.
LEMMA TimedSteps ==
    [TimedNext]_timedVars => [ConnNext]_connVars
  BY DEF TimedNext, timedVars, DeadlineNears, PeerPings

\* A step of the connection moves its dial as the dial moves, or not at all.
LEMMA ConnMovesDial ==
    ASSUME [ConnNext]_connVars PROVE DialNext \/ UNCHANGED dialVars
  <1>1. CASE DialMoves
    BY <1>1 DEF DialMoves, DialNext
  <1>2. CASE Dropped
    BY <1>2 DEF Dropped, DialNext
  <1>3. ASSUME NEW c \in Calls, CallStarts(c) PROVE UNCHANGED dialVars
    BY <1>3 DEF CallStarts
  <1>4. CASE Writes
    BY <1>4 DEF Writes, DialNext
  <1>5. CASE Flushes \/ IoFails \/ TimesOut \/ Cancel \/ RecvQueued \/ RecvParses \/ RecvReads
    BY <1>5 DEF Flushes, IoFails, TimesOut, Cancel, RecvQueued, RecvParses, RecvReads
  <1>6. CASE DrainParses \/ DrainReads \/ DrainEnds \/ ServerSends \/ ServerGone
    BY <1>6 DEF DrainParses, DrainReads, DrainEnds, ServerSends, ServerGone
  <1>7. CASE Rest \/ UNCHANGED connVars
    BY <1>7 DEF Rest, connVars
  <1> QED BY <1>1, <1>2, <1>3, <1>4, <1>5, <1>6, <1>7 DEF ConnNext, CallMoves

\* Every step of the dial preserves its invariant.
LEMMA DialNextInv ==
    ASSUME DialInv, DialNext \/ UNCHANGED dialVars PROVE DialInv'
  <1>1. DOMAIN leg = LegsOf(plan) /\ DOMAIN attempt = AttemptsOf(plan)
    BY DEF DialInv, DialTypeOK
  <1>2. CASE Fallback
    BY <1>2, FallbackInv
  <1>3. CASE TcpSettles
    BY <1>3, TcpSettlesInv
  <1>4. CASE DialOk
    <2>1. PICK k \in DOMAIN attempt : attempt[k] = "ok" /\ won' \in LegsOk(k)
      BY <1>4 DEF DialOk
    <2>2. won' \in LegsOf(plan) /\ leg[won'] = "ok" /\ attempt[AttemptOf(won')] = "ok"
      BY <1>1, <2>1 DEF LegsOk
    <2> QED BY <1>4, <2>2, CancelRestInv DEF DialOk
  <1>5. CASE DialErr
    BY <1>1, <1>5, CancelRestInv DEF DialErr
  <1>6. CASE DialDropped
    BY <1>6, CancelRestInv DEF DialDropped
  <1>7. ASSUME NEW l \in DOMAIN leg, LegStarts(l) \/ LegEnds(l) PROVE DialInv'
    BY <1>1, <1>7, LegStartsInv, LegEndsInv
  <1>8. ASSUME NEW k \in DOMAIN attempt, RaceSettles(k) \/ AttemptTimesOut(k) PROVE DialInv'
    BY <1>1, <1>8, RaceSettlesInv, TimesOutInv
  <1>9. CASE Tick
    BY <1>9, TickInv
  <1>10. CASE FirstUse
    BY <1>10, FirstUseInv
  <1>11. CASE UNCHANGED dialVars
    BY <1>11 DEF dialVars, DialInv, DialTypeOK, PeersAgree, LegsMean, Siblings, AttemptsMean, EventsMean, DialMeans
  <1> QED BY <1>2, <1>3, <1>4, <1>5, <1>6, <1>7, <1>8, <1>9, <1>10, <1>11 DEF DialNext, DialStep

-----------------------------------------------------------------------------
(* Theorems *)

\* The meaning of every leg's, attempt's and dial's outcome holds along every
\* behaviour of the connection, whatever its peers do.
THEOREM DialInvHolds == ConnSpec => []DialInv
  <1>1. ConnInit => DialInv
    BY DialInitInv DEF ConnInit
  <1>2. DialInv /\ [ConnNext]_connVars => DialInv'
    BY ConnMovesDial, DialNextInv
  <1> QED BY <1>1, <1>2, TimedSteps, PTL DEF ConnSpec, TimedInit

\* Transport::dial connects to the node or not at all, and before its deadline
\* it fails only when no address could have reached the node.
THEOREM DialHonestHolds == ConnSpec => []DialHonest
  <1>1. DialInv => DialHonest
    <2> SUFFICES ASSUME DialInv PROVE DialHonest
      OBVIOUS
    <2> USE DEF DialInv
    <2>1. DOMAIN leg = LegsOf(plan) /\ plan \in Plans
      BY DEF DialTypeOK
    <2>2. won # None => peer[won] = "node"
      <3>1. won # None => won \in LegsOf(plan) /\ leg[won] = "ok" /\ attempt[AttemptOf(won)] = "ok"
        BY DEF DialMeans
      <3>2. won # None /\ won[1] = "tcp" => attempt["tcp"] = "ok"
        BY <2>1, <3>1, LegFacts
      <3> QED BY <3>1, <3>2 DEF LegsMean, AttemptsMean
    <2>3. ASSUME dial = "err", now < due, NEW l \in LegsOf(plan), peer[l] = "node"
          PROVE  l[1] = "tcp" /\ \E m \in LegsOk("tcp") : peer[m] # "node"
      <3> DEFINE k == AttemptOf(l)
      <3>1. k \in AttemptsOf(plan) /\ attempt[k] = "err" /\ (k = "tcp" <=> l[1] = "tcp")
        BY <2>1, <2>3, LegFacts DEF DialMeans
      <3>2. CASE \A m \in LegsOf(plan) : AttemptOf(m) = k => leg[m] = "err"
        BY <2>3, <3>2 DEF LegsMean
      <3>3. CASE k = "tcp" /\ \E m \in LegsOf(plan) : m[1] = "tcp" /\ leg[m] = "ok" /\ peer[m] = "other"
        <4>1. PICK m \in LegsOf(plan) : m[1] = "tcp" /\ leg[m] = "ok" /\ peer[m] = "other"
          BY <3>3
        <4>2. m \in LegsOk("tcp")
          BY <2>1, <4>1, LegFacts DEF LegsOk
        <4> QED BY <3>1, <3>3, <4>1, <4>2
      <3> QED BY <2>3, <3>1, <3>2, <3>3 DEF AttemptsMean
    <2> QED BY <2>1, <2>2, <2>3 DEF DialHonest, Authentic
  <1> QED BY <1>1, DialInvHolds, PTL

\* Attempt::drop: when a dial is over, every attempt that was made has been
\* reported exactly once, and as a success only if it won.
THEOREM AttemptsReportedHolds == ConnSpec => []AttemptsReported
  <1>1. DialInv => AttemptsReported
    <2> SUFFICES ASSUME DialInv, dial \in {"ok", "err", "dropped"}, NEW k \in AttemptsOf(plan)
                 PROVE  /\ Len(events[k]) = IF attempt[k] = "off" THEN 0 ELSE 1
                        /\ (dial = "ok" /\ k = AttemptOf(won)) => events[k] = <<"Success">>
                        /\ dial = "err" => events[k] # <<"Success">>
      BY DEF AttemptsReported, DialInv, DialTypeOK
    <2>1. attempt[k] \in {"off", "ok", "err", "cancelled"}
      BY DEF DialInv, DialTypeOK, DialMeans, AttemptStates
    <2>2. events[k] = CASE attempt[k] = "ok" -> <<"Success">>
                        [] attempt[k] = "err" -> <<"Error">>
                        [] attempt[k] = "cancelled" -> <<"Cancelled">>
                        [] OTHER -> <<>>
      BY DEF DialInv, EventsMean
    <2>3. Len(events[k]) = IF attempt[k] = "off" THEN 0 ELSE 1
      BY <2>1, <2>2
    <2>4. (dial = "ok" /\ k = AttemptOf(won)) => events[k] = <<"Success">>
      BY <2>2 DEF DialInv, DialMeans
    <2>5. dial = "err" => events[k] = <<"Error">>
      BY <2>2 DEF DialInv, DialMeans
    <2>6. <<"Error">> # <<"Success">>
      OBVIOUS
    <2> QED BY <2>3, <2>4, <2>5, <2>6
  <1> QED BY <1>1, DialInvHolds, PTL

-----------------------------------------------------------------------------
(* The byte stream to the server *)

SrvFields == {"buf", "garbled", "seen", "s", "m", "ended", "left", "cut", "huge", "gone"}
IsServer(v) == v = [x \in SrvFields |-> v[x]]

\* The types of the call, the stream the caller holds and the server.
WireTypeOK ==
    /\ next \in Nat
    /\ stream # None => stream \in [s : Nat, mid : Nat]
    /\ op # None =>
          /\ op \in [call : Calls, s : Nat, mid : Nat, todo : Seq(StepKinds), off : Nat, was : BOOLEAN]
          /\ op.todo # <<>>
    /\ IsServer(srv)

Writing == op # None /\ IsWrite(Head(op.todo))

\* What of the first k units is left of a frame that is not complete.
Torn(wire, k) == SubSeq(wire, 2 * (k \div 2) + 1, k)

\* The server has read the first k units of a packet, and nothing was nonsense.
HasRead(v, wire, k) == IsServer(v) /\ v.garbled = FALSE /\ v.buf = Torn(wire, k)

\* The server's parser: the whole frames of what it holds, and the rest.
WholeFrames(b, n) == \A i \in 1..n : Parsed(SubSeq(b, 2 * i - 1, 2 * i)) = "frame"
RestOf(b) == SubSeq(b, 2 * (Len(b) \div 2) + 1, Len(b))

\* Nothing sent is nonsense: while a packet is written the flag is up and the
\* server holds the torn part of it; between packets, and between calls on a
\* connection that may be used again, it holds nothing.
WireClean ==
    /\ srv.garbled = FALSE
    /\ Writing => /\ poisoned = TRUE
                  /\ op.off < Len(WireOf(op))
                  /\ srv.buf = Torn(WireOf(op), op.off)
    /\ op # None /\ ~IsWrite(Head(op.todo)) => srv.buf = <<>>
    /\ op = None /\ poisoned = FALSE => srv.buf = <<>>
    /\ poisoned \in BOOLEAN

WireInv == WireTypeOK /\ WireClean

\* The units of a packet: for each frame its header, then its payload.
LEMMA UnitsFacts ==
    ASSUME NEW S, NEW frames \in Seq(S)
    PROVE  /\ Units(frames) \in Seq(S \X {1, 2})
           /\ Len(Units(frames)) = 2 * Len(frames)
           /\ \A i \in 1..Len(frames) : /\ Units(frames)[2 * i - 1] = <<frames[i], 1>>
                                        /\ Units(frames)[2 * i] = <<frames[i], 2>>
  <1> DEFINE n == Len(frames)
             f == [i \in 1..(2 * n) |-> <<frames[(i + 1) \div 2], IF i % 2 = 1 THEN 1 ELSE 2>>]
  <1>1. n \in Nat
    OBVIOUS
  <1>2. \A i \in 1..(2 * n) : (i + 1) \div 2 \in 1..n
    BY <1>1
  <1>3. \A i \in 1..(2 * n) : f[i] \in S \X {1, 2}
    BY <1>1, <1>2
  <1>4. f \in Seq(S \X {1, 2}) /\ Len(f) = 2 * n
    BY <1>1, <1>3
  <1>5. ASSUME NEW i \in 1..n
        PROVE  f[2 * i - 1] = <<frames[i], 1>> /\ f[2 * i] = <<frames[i], 2>>
    <2>1. 2 * i - 1 \in 1..(2 * n) /\ 2 * i \in 1..(2 * n)
      BY <1>1
    <2>2. (2 * i - 1 + 1) \div 2 = i /\ (2 * i + 1) \div 2 = i /\ (2 * i - 1) % 2 = 1 /\ (2 * i) % 2 = 0
      BY <1>1
    <2> QED BY <2>1, <2>2
  <1> QED BY <1>4, <1>5 DEF Units

LEMMA HalfFacts ==
    ASSUME NEW k \in Nat
    PROVE  k \div 2 \in Nat /\ 2 * (k \div 2) <= k /\ k < 2 * (k \div 2) + 2
  OBVIOUS

\* A part of a sequence, from behind its first lo elements.
LEMMA PartFacts ==
    ASSUME NEW T, NEW s \in Seq(T), NEW lo \in Nat, NEW hi \in Nat, lo <= hi, hi <= Len(s)
    PROVE  /\ SubSeq(s, lo + 1, hi) \in Seq(T)
           /\ Len(SubSeq(s, lo + 1, hi)) = hi - lo
           /\ \A i \in 1..(hi - lo) : SubSeq(s, lo + 1, hi)[i] = s[lo + i]
  <1>1. \A i \in (lo + 1)..hi : s[i] \in T
    OBVIOUS
  <1>2. /\ SubSeq(s, lo + 1, hi) \in Seq(T)
        /\ Len(SubSeq(s, lo + 1, hi)) = IF lo + 1 <= hi THEN hi - (lo + 1) + 1 ELSE 0
        /\ \A i \in 1..(hi - (lo + 1) + 1) : SubSeq(s, lo + 1, hi)[i] = s[lo + 1 + i - 1]
    BY <1>1, SubSeqProperties
  <1>3. hi - (lo + 1) + 1 = hi - lo /\ \A i \in 1..(hi - lo) : lo + 1 + i - 1 = lo + i
    OBVIOUS
  <1>4. Len(SubSeq(s, lo + 1, hi)) = hi - lo
    BY <1>2, <1>3
  <1> QED BY <1>2, <1>3, <1>4

\* A part of a part is a part.
LEMMA PartOfPart ==
    ASSUME NEW T, NEW s \in Seq(T), NEW lo \in Nat, NEW hi \in Nat, lo <= hi, hi <= Len(s),
           NEW k \in Nat, lo + k <= hi,
           NEW b, b = SubSeq(s, lo + 1, hi)
    PROVE  SubSeq(b, k + 1, hi - lo) = SubSeq(s, lo + k + 1, hi)
  <1>1. b \in Seq(T) /\ Len(b) = hi - lo /\ \A i \in 1..(hi - lo) : b[i] = s[lo + i]
    BY PartFacts
  <1>2. PICK L \in Nat : L = hi - lo /\ k <= L
    OBVIOUS
  <1>3. PICK p : p = SubSeq(b, k + 1, L)
    OBVIOUS
  <1>4. p \in Seq(T) /\ Len(p) = L - k /\ \A i \in 1..(L - k) : p[i] = b[k + i]
    BY <1>1, <1>2, <1>3, PartFacts
  <1>5. PICK q : q = SubSeq(s, lo + k + 1, hi)
    OBVIOUS
  <1>6. q \in Seq(T) /\ Len(q) = hi - (lo + k) /\ \A i \in 1..(hi - (lo + k)) : q[i] = s[lo + k + i]
    <2>1. PICK m \in Nat : m = lo + k /\ m <= hi
      OBVIOUS
    <2>2. q = SubSeq(s, m + 1, hi)
      BY <1>5, <2>1
    <2>3. q \in Seq(T) /\ Len(q) = hi - m /\ \A i \in 1..(hi - m) : q[i] = s[m + i]
      BY ONLY s \in Seq(T), hi \in Nat, hi <= Len(s), <2>1, <2>2, PartFacts
    <2> QED BY <2>1, <2>3
  <1>7. ASSUME NEW i \in 1..(L - k)
        PROVE  p[i] = q[i]
    <2>1. k + i \in 1..(hi - lo) /\ lo + (k + i) = lo + k + i /\ i \in 1..(hi - (lo + k))
      BY <1>2
    <2> QED BY <1>1, <1>4, <1>6, <2>1
  <1>8. Len(p) = Len(q)
    <2>1. L - k = hi - (lo + k)
      BY <1>2
    <2> QED BY <1>4, <1>6, <2>1
  <1>9. p = q
    BY <1>4, <1>6, <1>7, <1>8, SeqEqual
  <1> QED BY <1>2, <1>3, <1>5, <1>9

\* The whole frames of a part of the wire are parsed as such.
LEMMA FramesParsed ==
    ASSUME NEW S, NEW frames \in Seq(S), NEW lo \in Nat, NEW hi \in Nat, 2 * lo <= hi, hi <= 2 * Len(frames),
           NEW h \in Nat, 2 * (lo + h) <= hi,
           NEW b, b = SubSeq(Units(frames), 2 * lo + 1, hi)
    PROVE  WholeFrames(b, h)
  <1> SUFFICES ASSUME NEW i \in 1..h
               PROVE  Parsed(SubSeq(b, 2 * i - 1, 2 * i)) = "frame"
    BY DEF WholeFrames
  <1>1. PICK wire \in Seq(S \X {1, 2}) :
           /\ wire = Units(frames)
           /\ Len(wire) = 2 * Len(frames)
           /\ \A j \in 1..Len(frames) : wire[2 * j - 1] = <<frames[j], 1>> /\ wire[2 * j] = <<frames[j], 2>>
    BY UnitsFacts
  <1>2. PICK a \in Nat : a = 2 * lo
    OBVIOUS
  <1>3. b \in Seq(S \X {1, 2}) /\ Len(b) = hi - a /\ \A j \in 1..(hi - a) : b[j] = wire[a + j]
    BY <1>1, <1>2, PartFacts
  <1>4. PICK c \in Nat : c = 2 * i - 2
    OBVIOUS
  <1>5. c + 1 = 2 * i - 1 /\ c + 2 = 2 * i /\ c + 2 <= hi - a /\ c \in Nat /\ c + 2 \in Nat
    BY <1>2, <1>4
  <1>6. PICK u : u = SubSeq(b, c + 1, c + 2)
    OBVIOUS
  <1>7. Len(u) = (c + 2) - c /\ \A j \in 1..((c + 2) - c) : u[j] = b[c + j]
    BY <1>3, <1>5, <1>6, PartFacts
  <1>8. Len(u) = 2 /\ u[1] = b[c + 1] /\ u[2] = b[c + 2]
    <2>1. (c + 2) - c = 2
      BY <1>5
    <2>2. 1 \in 1..2 /\ 2 \in 1..2
      OBVIOUS
    <2> QED BY <1>7, <2>1, <2>2
  <1>9. b[c + 1] = wire[a + (c + 1)] /\ b[c + 2] = wire[a + (c + 2)]
    <2>1. c + 1 \in 1..(hi - a) /\ c + 2 \in 1..(hi - a)
      BY <1>2, <1>5
    <2> QED BY <1>3, <2>1
  <1>10. PICK j \in 1..Len(frames) : j = lo + i
    OBVIOUS
  <1>11. a + (c + 1) = 2 * j - 1 /\ a + (c + 2) = 2 * j
    BY <1>2, <1>4, <1>10
  <1>12. b[c + 1] = <<frames[j], 1>> /\ b[c + 2] = <<frames[j], 2>>
    BY <1>1, <1>9, <1>10, <1>11
  <1>13. Parsed(u) = "frame"
    <2>1. u[1] = <<frames[j], 1>> /\ u[2] = <<frames[j], 2>>
      BY <1>8, <1>12
    <2>2. u[1][1] = frames[j] /\ u[1][2] = 1
      BY ONLY <2>1
    <2> QED BY ONLY <1>8, <2>1, <2>2 DEF Parsed
  <1> QED BY <1>5, <1>6, <1>13

\* What is written of a packet, after the torn part of it that was written
\* before, is whole frames and a torn part.
LEMMA TornFacts ==
    ASSUME NEW S, NEW frames \in Seq(S), NEW off \in Nat, NEW n \in Nat, off + n <= 2 * Len(frames),
           NEW b, b = Torn(Units(frames), off) \o SubSeq(Units(frames), off + 1, off + n)
    PROVE  /\ WholeFrames(b, Len(b) \div 2)
           /\ RestOf(b) = Torn(Units(frames), off + n)
  <1>1. PICK wire \in Seq(S \X {1, 2}) : wire = Units(frames) /\ Len(wire) = 2 * Len(frames)
    BY UnitsFacts
  <1>2. PICK lo \in Nat : lo = off \div 2 /\ 2 * lo <= off /\ off < 2 * lo + 2
    BY HalfFacts
  <1>3. PICK hi \in Nat : hi = off + n
    OBVIOUS
  <1>4. PICK N \in Nat : N = Len(frames)
    OBVIOUS
  <1>5. b = SubSeq(wire, 2 * lo + 1, hi)
    <2>1. b = SubSeq(wire, 2 * lo + 1, off) \o SubSeq(wire, off + 1, hi)
      BY <1>1, <1>2, <1>3 DEF Torn
    <2>2. 2 * lo + 1 \in 1..(Len(wire) + 1) /\ off \in (2 * lo + 1 - 1)..Len(wire) /\ hi \in off..Len(wire)
      BY <1>1, <1>2, <1>3, <1>4
    <2>3. PICK m \in 1..(Len(wire) + 1) : m = 2 * lo + 1 /\ off \in (m - 1)..Len(wire)
      BY <2>2
    <2>4. SubSeq(wire, m, off) \o SubSeq(wire, off + 1, hi) = SubSeq(wire, m, hi)
      BY ONLY wire \in Seq(S \X {1, 2}), <2>2, <2>3, ConcatAdjacentSubSeq
    <2> QED BY <2>1, <2>3, <2>4
  <1>6. PICK a \in Nat : a = 2 * lo /\ a <= hi /\ hi <= Len(wire)
    BY <1>1, <1>2, <1>3, <1>4
  <1>7. PICK L \in Nat : L = hi - a
    BY <1>6
  <1>8. b = SubSeq(wire, a + 1, hi) /\ Len(b) = L
    <2>1. b = SubSeq(wire, a + 1, hi)
      BY <1>5, <1>6
    <2>2. Len(SubSeq(wire, a + 1, hi)) = hi - a
      BY ONLY <1>1, <1>3, <1>6, PartFacts
    <2> QED BY <1>7, <2>1, <2>2
  <1>9. PICK h \in Nat : h = L \div 2 /\ 2 * h <= L /\ L < 2 * h + 2
    BY HalfFacts
  <1>10. lo + h = hi \div 2
    BY <1>2, <1>6, <1>7, <1>9
  <1>11. WholeFrames(b, h)
    <2>1. 2 * (lo + h) <= hi /\ 2 * lo <= hi /\ hi <= 2 * Len(frames)
      BY <1>1, <1>6, <1>7, <1>9
    <2>2. b = SubSeq(Units(frames), 2 * lo + 1, hi)
      BY <1>1, <1>5
    <2> QED BY ONLY frames \in Seq(S), lo \in Nat, hi \in Nat, h \in Nat, <2>1, <2>2, FramesParsed
  <1>12. SubSeq(b, 2 * h + 1, L) = SubSeq(wire, 2 * (lo + h) + 1, hi)
    <2>1. PICK k \in Nat : k = 2 * h /\ a + k <= hi /\ a + k = 2 * (lo + h)
      BY <1>6, <1>7, <1>9
    <2>2. SubSeq(b, k + 1, hi - a) = SubSeq(wire, a + k + 1, hi)
      BY ONLY <1>1, <1>3, <1>6, <1>8, <2>1, PartOfPart
    <2> QED BY <1>7, <2>1, <2>2
  <1> QED BY <1>1, <1>3, <1>8, <1>9, <1>10, <1>11, <1>12 DEF Torn, RestOf

\* The server reads what is written of a packet as frames, and keeps the torn
\* part of it.
LEMMA ServeFacts ==
    ASSUME NEW S, NEW frames \in Seq(S), NEW v,
           NEW off \in Nat, NEW to \in Nat, off <= to, to <= 2 * Len(frames),
           HasRead(v, Units(frames), off)
    PROVE  HasRead(Serve(v, SubSeq(Units(frames), off + 1, to)), Units(frames), to)
  <1> USE DEF HasRead
  <1> DEFINE w == Serve(v, SubSeq(Units(frames), off + 1, to))
  <1>0. PICK n \in Nat : to = off + n
    <2>1. to - off \in Nat /\ to = off + (to - off)
      OBVIOUS
    <2> QED BY <2>1
  <1>1. PICK b : b = v.buf \o SubSeq(Units(frames), off + 1, off + n)
    OBVIOUS
  <1>2. /\ WholeFrames(b, Len(b) \div 2)
        /\ RestOf(b) = Torn(Units(frames), off + n)
    <2>1. b = Torn(Units(frames), off) \o SubSeq(Units(frames), off + 1, off + n)
      BY <1>1
    <2>2. off + n <= 2 * Len(frames)
      BY <1>0
    <2> QED BY ONLY frames \in Seq(S), off \in Nat, n \in Nat, <2>1, <2>2, TornFacts, Zenon
  <1> DEFINE h == Len(b) \div 2
             ok(i) == Parsed(SubSeq(b, 2 * i - 1, 2 * i)) = "frame"
             opened == {b[2 * i][1].s : i \in {j \in 1..h : ok(j) /\ b[2 * j][1].kind = "INVOKE"}}
             bad == \E i \in 1..h : ~ok(i)
  <1>3. w = [v EXCEPT !.buf = SubSeq(b, 2 * h + 1, Len(b)),
                      !.garbled = @ \/ bad,
                      !.seen = @ \cup opened]
    BY <1>0, <1>1 DEF Serve
  <1>4. bad = FALSE
    BY <1>2 DEF WholeFrames
  <1>5. SubSeq(b, 2 * h + 1, Len(b)) = Torn(Units(frames), off + n)
    BY <1>2 DEF RestOf
  <1> HIDE DEF opened, ok, bad, h, w
  <1>6. w.garbled = (v.garbled \/ bad) /\ w.buf = SubSeq(b, 2 * h + 1, Len(b)) /\ IsServer(w)
    BY <1>3 DEF SrvFields, IsServer
  <1> QED BY <1>0, <1>4, <1>5, <1>6 DEF w

\* A packet has at least one frame; none of it is torn before the first write.
LEMMA WireFacts ==
    ASSUME NEW o, o.mid \in Nat
    PROVE  /\ Len(WireOf(o)) \in Nat /\ Len(WireOf(o)) > 0
           /\ Torn(WireOf(o), 0) = <<>>
           /\ \A k \in Nat : k = Len(WireOf(o)) => Torn(WireOf(o), k) = <<>>
           /\ \E S : \E frames \in Seq(S) : WireOf(o) = Units(frames) /\ Len(WireOf(o)) = 2 * Len(frames)
  <1>1. PICK n \in Nat : n = Payloads(Head(o.todo))
    BY DEF Payloads
  <1>2. PICK k \in Nat : k = (IF n = 0 THEN 1 ELSE n) /\ k > 0
    OBVIOUS
  <1>3. PICK fs : fs = Frames(o.s, o.mid + 1, Head(o.todo), FALSE, n)
    OBVIOUS
  <1>4. DOMAIN fs = 1..k /\ fs = [i \in 1..k |-> fs[i]]
    BY <1>2, <1>3 DEF Frames
  <1>5. PICK S : S = {fs[i] : i \in 1..k}
    OBVIOUS
  <1>6. fs \in Seq(S) /\ Len(fs) = k
    BY ONLY k \in Nat, <1>4, <1>5
  <1>7. WireOf(o) = Units(fs)
    BY <1>1, <1>3 DEF WireOf
  <1>8. Len(WireOf(o)) = 2 * k
    BY <1>6, <1>7, UnitsFacts
  <1>9. Torn(WireOf(o), 0) = <<>>
    <2>1. 2 * (0 \div 2) + 1 = 1
      OBVIOUS
    <2>2. SubSeq(WireOf(o), 1, 0) = <<>>
      BY SubSeqEmpty
    <2> QED BY <2>1, <2>2 DEF Torn
  <1>10. Torn(WireOf(o), 2 * k) = <<>>
    <2>1. 2 * ((2 * k) \div 2) + 1 = 2 * k + 1
      OBVIOUS
    <2>2. SubSeq(WireOf(o), 2 * k + 1, 2 * k) = <<>>
      BY SubSeqEmpty
    <2> QED BY <2>1, <2>2 DEF Torn
  <1>11. Len(WireOf(o)) \in Nat /\ Len(WireOf(o)) > 0
    BY <1>2, <1>8
  <1>12. \E T : \E frames \in Seq(T) : WireOf(o) = Units(frames) /\ Len(WireOf(o)) = 2 * Len(frames)
    BY <1>6, <1>7, <1>8
  <1>13. \A j \in Nat : j = Len(WireOf(o)) => Torn(WireOf(o), j) = <<>>
    BY <1>8, <1>10
  <1> QED BY <1>9, <1>11, <1>12, <1>13

\* A call that returns leaves the connection poisoned, or nothing torn.
LEMMA ReturnWire ==
    ASSUME WireInv, op # None, NEW outcome, NEW p \in BOOLEAN, Return(outcome, p),
           srv' = srv, Writing => p = TRUE
    PROVE  WireInv'
  <1> USE DEF WireInv
  <1>1. op' = None /\ poisoned' = p /\ next' = next
        /\ (stream' # None => stream' = [s |-> op.s, mid |-> op.mid])
    BY DEF Return
  <1>2. WireTypeOK'
    BY <1>1 DEF WireTypeOK
  <1>3. ~Writing => srv.buf = <<>>
    BY DEF WireClean, Writing
  <1>4. WireClean'
    BY <1>1, <1>3 DEF WireClean, Writing
  <1> QED BY <1>2, <1>4

\* The next step of a call begins with nothing torn.
LEMMA StepDoneWire ==
    ASSUME WireInv, op # None, NEW mid \in Nat, StepDone(mid),
           IsServer(srv'), srv'.garbled = FALSE, srv'.buf = <<>>
    PROVE  WireInv'
  <1> USE DEF WireInv
  <1>1. CASE Len(op.todo) = 1
    <2>1. op' = None /\ poisoned' = op.was /\ next' = next
          /\ (stream' # None => stream' = [s |-> op.s, mid |-> mid])
      BY <1>1 DEF StepDone
    <2>2. WireTypeOK'
      BY <2>1 DEF WireTypeOK
    <2>3. op.was \in BOOLEAN
      BY DEF WireTypeOK
    <2>4. WireClean'
      BY <2>1, <2>3 DEF WireClean, Writing
    <2> QED BY <2>2, <2>4
  <1>2. CASE Len(op.todo) # 1
    <2>1. op' = [op EXCEPT !.todo = Tail(@), !.mid = mid, !.off = 0] /\ next' = next /\ stream' = stream
          /\ poisoned' = Flag(Tail(op.todo), op.was)
      BY <1>2 DEF StepDone
    <2>2. Tail(op.todo) \in Seq(StepKinds) /\ Tail(op.todo) # <<>>
      <3>1. PICK todo \in Seq(StepKinds) : todo = op.todo /\ todo # <<>> /\ Len(todo) # 1
        BY <1>2 DEF WireTypeOK
      <3>2. Tail(todo) \in Seq(StepKinds) /\ Len(Tail(todo)) = Len(todo) - 1 /\ Len(todo) \in Nat
        BY ONLY <3>1, HeadTailProperties
      <3>3. Len(Tail(todo)) # 0
        BY <3>1, <3>2
      <3> QED BY <3>1, <3>2, <3>3
    <2>3. /\ op' \in [call : Calls, s : Nat, mid : Nat, todo : Seq(StepKinds), off : Nat, was : BOOLEAN]
          /\ op'.todo = Tail(op.todo) /\ op'.off = 0 /\ op'.mid = mid
      BY <2>1, <2>2 DEF WireTypeOK
    <2>4. WireTypeOK'
      BY <2>1, <2>2, <2>3 DEF WireTypeOK
    <2>5. poisoned' \in BOOLEAN /\ (IsWrite(Head(op'.todo)) => poisoned' = TRUE)
      BY <2>1, <2>3 DEF WireTypeOK, Flag, Raised
    <2>6. 0 < Len(WireOf(op')) /\ Torn(WireOf(op'), 0) = <<>>
      BY <2>3, WireFacts
    <2>7. WireClean'
      BY <2>3, <2>5, <2>6 DEF WireClean, Writing
    <2> QED BY <2>4, <2>7
  <1> QED BY <1>1, <1>2

\* What changes neither the call nor what the server holds.
LEMMA StillWire ==
    ASSUME WireInv, op' = op, stream' = stream, next' = next, poisoned' = poisoned,
           IsServer(srv'), srv'.garbled = srv.garbled, srv'.buf = srv.buf
    PROVE  WireInv'
  BY DEF WireInv, WireTypeOK, WireClean, Writing, WireOf

LEMMA HandleWire ==
    ASSUME WireInv, op # None, ~IsWrite(Head(op.todo)), NEW pkt, Handle(pkt), srv' = srv
    PROVE  WireInv'
  <1>1. IsServer(srv) /\ srv.garbled = FALSE /\ srv.buf = <<>> /\ op.mid \in Nat
        /\ poisoned \in BOOLEAN /\ ~Writing
    BY DEF WireInv, WireTypeOK, WireClean, Writing
  <1>2. CASE Meaning(pkt) = "skip"
    BY <1>1, <1>2, StillWire DEF Handle
  <1>3. CASE Meaning(pkt) = "deliver"
    BY <1>1, <1>3, StepDoneWire DEF Handle
  <1>4. CASE Meaning(pkt) \notin {"skip", "deliver"}
    BY <1>1, <1>4, ReturnWire DEF Handle
  <1> QED BY <1>2, <1>3, <1>4

LEMMA DrainedWire ==
    ASSUME WireInv, Draining, NEW found, Drained(found), srv' = srv
    PROVE  WireInv'
  <1>1. IsServer(srv) /\ srv.garbled = FALSE /\ srv.buf = <<>> /\ op.mid \in Nat
        /\ poisoned \in BOOLEAN /\ ~Writing /\ op # None
    BY DEF WireInv, WireTypeOK, WireClean, Writing, Draining, IsWrite
  <1>2. CASE Terminated
    BY <1>1, <1>2, ReturnWire DEF Drained
  <1>3. CASE ~Terminated /\ found # "ok"
    BY <1>1, <1>3, ReturnWire DEF Drained
  <1>4. CASE ~Terminated /\ found = "ok"
    BY <1>1, <1>4, StepDoneWire DEF Drained
  <1> QED BY <1>2, <1>3, <1>4

LEMMA StepsFacts ==
    ASSUME NEW c \in Calls
    PROVE  Steps(c) \in Seq(StepKinds) /\ Steps(c) # <<>>
  <1>1. c \in {"invoke", "open", "send", "close_send", "close", "recv"}
    BY DEF Calls
  <1>2. CASE c = "invoke"
    BY <1>2 DEF Steps, StepKinds
  <1>3. CASE c = "open"
    BY <1>3 DEF Steps, StepKinds
  <1>4. CASE c = "send"
    BY <1>4 DEF Steps, StepKinds
  <1>5. CASE c = "close_send"
    BY <1>5 DEF Steps, StepKinds
  <1>6. CASE c = "close"
    BY <1>6 DEF Steps, StepKinds
  <1>7. CASE c = "recv"
    BY <1>7 DEF Steps, StepKinds
  <1> QED BY <1>1, <1>2, <1>3, <1>4, <1>5, <1>6, <1>7

LEMMA CallStartsWire ==
    ASSUME WireInv, NEW c \in Calls, CallStarts(c)
    PROVE  WireInv'
  <1> USE DEF WireInv
  <1>1. op = None /\ ~poisoned /\ srv' = srv /\ stream' = stream
        /\ IsServer(srv) /\ srv.garbled = FALSE
    BY DEF CallStarts, serverVars, WireTypeOK, WireClean
  <1>2. srv.buf = <<>>
    BY <1>1 DEF WireClean
  <1>3. PICK s \in Nat, mid \in Nat :
           op' = [call |-> c, s |-> s, mid |-> mid, todo |-> Steps(c), off |-> 0, was |-> FALSE]
    <2>1. CASE c \in {"invoke", "open"}
      <3>1. op' = [call |-> c, s |-> next, mid |-> 0, todo |-> Steps(c), off |-> 0, was |-> FALSE]
        BY <2>1 DEF CallStarts
      <3> QED BY <3>1 DEF WireTypeOK
    <2>2. CASE c \notin {"invoke", "open"}
      <3>1. op' = [call |-> c, s |-> stream.s, mid |-> stream.mid, todo |-> Steps(c), off |-> 0, was |-> FALSE]
            /\ stream # None
        BY <2>2 DEF CallStarts
      <3>2. stream.s \in Nat /\ stream.mid \in Nat
        BY <3>1 DEF WireTypeOK
      <3> QED BY <3>1, <3>2
    <2> QED BY <2>1, <2>2
  <1>4. next' \in Nat
    BY DEF CallStarts, WireTypeOK
  <1>5. /\ op' \in [call : Calls, s : Nat, mid : Nat, todo : Seq(StepKinds), off : Nat, was : BOOLEAN]
        /\ op'.todo = Steps(c) /\ op'.off = 0 /\ op'.mid = mid
    BY <1>3, StepsFacts
  <1>6. WireTypeOK'
    BY <1>1, <1>4, <1>5, StepsFacts DEF WireTypeOK
  <1>7. poisoned' \in BOOLEAN /\ (IsWrite(Head(op'.todo)) => poisoned' = TRUE)
    BY <1>5 DEF CallStarts, Flag, Raised
  <1>8. 0 < Len(WireOf(op')) /\ Torn(WireOf(op'), 0) = <<>>
    BY <1>5, WireFacts
  <1>9. WireClean'
    BY <1>1, <1>2, <1>5, <1>7, <1>8 DEF WireClean, Writing
  <1> QED BY <1>6, <1>9

LEMMA WritesWire ==
    ASSUME WireInv, Writes
    PROVE  WireInv'
  <1> USE DEF WireInv
  <1>1. Writing /\ op # None
    BY DEF Writes, Writing
  <1>2. /\ IsServer(srv) /\ srv.garbled = FALSE /\ poisoned = TRUE
        /\ op \in [call : Calls, s : Nat, mid : Nat, todo : Seq(StepKinds), off : Nat, was : BOOLEAN]
        /\ op.todo # <<>>
        /\ op.off < Len(WireOf(op)) /\ srv.buf = Torn(WireOf(op), op.off)
    BY <1>1 DEF WireTypeOK, WireClean
  <1>3. PICK wire : wire = WireOf(op)
    OBVIOUS
  <1>4. PICK S : \E frames \in Seq(S) : wire = Units(frames) /\ Len(wire) = 2 * Len(frames)
    BY <1>2, <1>3, WireFacts
  <1>5. PICK frames \in Seq(S) : wire = Units(frames) /\ Len(wire) = 2 * Len(frames)
    BY <1>4
  <1>6. PICK off \in Nat : off = op.off /\ off < Len(wire) /\ srv.buf = Torn(wire, off)
    BY <1>2, <1>3
  <1>7. Len(wire) \in Nat
    BY <1>5
  <1>8. PICK n \in {1, Len(wire) - off} :
           /\ srv' = Serve(srv, SubSeq(wire, off + 1, off + n))
           /\ IF n = Len(wire) - off THEN StepDone(op.mid + 1)
              ELSE /\ op' = [op EXCEPT !.off = @ + n]
                   /\ UNCHANGED <<poisoned, next, calls, last, stream>>
    BY <1>3, <1>6 DEF Writes
  <1>9. n \in Nat /\ off + n <= Len(wire) /\ n >= 1
    BY <1>6, <1>7, <1>8
  <1>10. /\ IsServer(srv')
         /\ srv'.garbled = FALSE
         /\ srv'.buf = Torn(wire, off + n)
    <2>1. PICK to \in Nat : to = off + n /\ off <= to /\ to <= 2 * Len(frames)
      BY <1>5, <1>9
    <2>2. HasRead(srv, Units(frames), off)
      BY <1>2, <1>5, <1>6 DEF HasRead
    <2>3. HasRead(Serve(srv, SubSeq(Units(frames), off + 1, to)), Units(frames), to)
      BY ONLY frames \in Seq(S), off \in Nat, <2>1, <2>2, ServeFacts
    <2> QED BY <1>5, <1>8, <2>1, <2>3 DEF HasRead
  <1>11. CASE n = Len(wire) - off
    <2>1. StepDone(op.mid + 1) /\ op.mid + 1 \in Nat
      BY <1>2, <1>8, <1>11
    <2>2. off + n = Len(wire)
      BY <1>7, <1>11
    <2>3. srv'.buf = <<>>
      BY <1>2, <1>3, <1>7, <1>10, <2>2, WireFacts
    <2> QED BY <1>1, <1>10, <2>1, <2>3, StepDoneWire
  <1>12. CASE n # Len(wire) - off
    <2>1. op' = [op EXCEPT !.off = @ + n] /\ poisoned' = poisoned /\ next' = next /\ stream' = stream
      BY <1>8, <1>12
    <2>2. /\ op' \in [call : Calls, s : Nat, mid : Nat, todo : Seq(StepKinds), off : Nat, was : BOOLEAN]
          /\ op'.todo = op.todo /\ op'.off = off + n /\ op'.mid = op.mid /\ op'.s = op.s
      BY <1>2, <1>6, <1>9, <2>1
    <2>3. WireTypeOK'
      BY <1>2, <1>10, <2>1, <2>2 DEF WireTypeOK
    <2>4. WireOf(op') = wire
      BY <1>3, <2>2 DEF WireOf
    <2>5. off + n < Len(wire)
      BY <1>6, <1>7, <1>9, <1>12
    <2>6. IsWrite(Head(op'.todo))
      BY <1>1, <2>2 DEF Writing
    <2>7. WireClean'
      <3>1. srv'.garbled = FALSE /\ poisoned' = TRUE /\ op'.off < Len(WireOf(op')) /\ srv'.buf = Torn(WireOf(op'), op'.off)
        BY <1>2, <1>10, <2>1, <2>2, <2>4, <2>5
      <3> QED BY <2>6, <3>1 DEF WireClean, Writing
    <2> QED BY <2>3, <2>7
  <1> QED BY <1>11, <1>12

\* The server's own steps leave what it has read alone.
LEMMA ServerWire ==
    ASSUME WireInv, ServerSends \/ ServerGone
    PROVE  WireInv'
  <1>1. IsServer(srv)
    BY DEF WireInv, WireTypeOK
  <1>2. clientVars' = clientVars
    <2>1. CASE ServerSends
      BY <2>1, Zenon DEF ServerSends
    <2>2. CASE ServerGone
      BY <2>2, Zenon DEF ServerGone
    <2> QED BY <2>1, <2>2
  <1>3. IsServer(srv') /\ srv'.garbled = srv.garbled /\ srv'.buf = srv.buf
    <2>1. CASE ServerSends
      <3>1. PICK s \in srv.seen, a \in Answers :
               srv' = [srv EXCEPT !.s = s, !.m = IF s = srv.s THEN srv.m + 1 ELSE 1, !.left = @ - 1,
                                  !.cut = IF a.cut THEN 1 ELSE 0,
                                  !.huge = @ \/ a.n > MaxPacket,
                                  !.ended = @ \cup (IF a.kind \in {"ERROR", "CLOSE", "CLOSE_SEND"}
                                                    THEN {s} ELSE {})]
        BY <2>1, Zenon DEF ServerSends
      <3>2. PICK m, left, cut, huge, ended :
               srv' = [srv EXCEPT !.s = s, !.m = m, !.left = left, !.cut = cut, !.huge = huge, !.ended = ended]
        <4>1. PICK m : m = IF s = srv.s THEN srv.m + 1 ELSE 1
          OBVIOUS
        <4>2. PICK left : left = srv.left - 1
          OBVIOUS
        <4>3. PICK cut : cut = IF a.cut THEN 1 ELSE 0
          OBVIOUS
        <4>4. PICK huge : huge = (srv.huge \/ a.n > MaxPacket)
          OBVIOUS
        <4>5. PICK ended : ended = srv.ended \cup (IF a.kind \in {"ERROR", "CLOSE", "CLOSE_SEND"} THEN {s} ELSE {})
          OBVIOUS
        <4>6. srv' = [srv EXCEPT !.s = s, !.m = m, !.left = left, !.cut = cut, !.huge = huge, !.ended = ended]
          BY ONLY <3>1, <4>1, <4>2, <4>3, <4>4, <4>5, Zenon
        <4> QED BY ONLY <4>6, Zenon
      <3> QED BY ONLY <1>1, <3>2 DEF IsServer, SrvFields
    <2>2. CASE ServerGone
      <3>1. PICK cut : srv' = [srv EXCEPT !.gone = TRUE, !.cut = cut]
        BY <2>2, Zenon DEF ServerGone
      <3> QED BY ONLY <1>1, <3>1 DEF IsServer, SrvFields
    <2> QED BY <2>1, <2>2
  <1> QED BY <1>2, <1>3, StillWire DEF clientVars

LEMMA ReadsWire ==
    ASSUME WireInv, RecvQueued \/ RecvParses \/ RecvReads \/ DrainParses \/ DrainReads \/ DrainEnds
    PROVE  WireInv'
  <1>1. srv' = srv /\ IsServer(srv) /\ poisoned \in BOOLEAN
    BY DEF RecvQueued, RecvParses, RecvReads, DrainParses, DrainReads, DrainEnds, serverVars,
           WireInv, WireTypeOK, WireClean
  <1>2. op # None /\ ~IsWrite(Head(op.todo)) /\ ~Writing
    BY DEF RecvQueued, RecvParses, RecvReads, DrainParses, DrainReads, DrainEnds, Draining, IsWrite, Writing
  <1>3. CASE RecvQueued
    BY <1>1, <1>2, <1>3, HandleWire DEF RecvQueued
  <1>4. CASE RecvParses
    <2>1. CASE Taken.err
      <3>1. ~(Taken.pkt # None)
        BY <2>1 DEF Taken, Push
      <3>2. Return("frame", poisoned)
        BY <1>4, <2>1, <3>1 DEF RecvParses
      <3> QED BY <1>1, <1>2, <3>2, ReturnWire
    <2>2. CASE ~Taken.err /\ Taken.pkt # None
      <3>1. Handle(Taken.pkt)
        BY <1>4, <2>2 DEF RecvParses
      <3> QED BY <1>1, <1>2, <3>1, HandleWire
    <2>3. CASE ~Taken.err /\ ~(Taken.pkt # None)
      <3>1. UNCHANGED <<op, stream, next, poisoned>>
        BY <1>4, <2>3 DEF RecvParses
      <3> QED BY <1>1, <3>1, StillWire
    <2> QED BY <2>1, <2>2, <2>3
  <1>5. CASE RecvReads
    BY <1>1, <1>2, <1>5, StillWire, ReturnWire DEF RecvReads
  <1>6. CASE DrainParses
    BY <1>1, <1>6, StillWire, DrainedWire DEF DrainParses
  <1>7. CASE DrainReads
    BY <1>1, <1>7, StillWire DEF DrainReads
  <1>8. CASE DrainEnds
    BY <1>1, <1>8, DrainedWire DEF DrainEnds
  <1> QED BY <1>3, <1>4, <1>5, <1>6, <1>7, <1>8

LEMMA WireNext ==
    ASSUME WireInv, [ConnNext]_connVars
    PROVE  WireInv'
  <1>1. IsServer(srv) /\ srv.garbled = FALSE /\ poisoned \in BOOLEAN /\ (Writing => poisoned = TRUE)
    BY DEF WireInv, WireTypeOK, WireClean
  <1>2. CASE DialMoves \/ Dropped \/ Rest \/ UNCHANGED connVars
    BY <1>1, <1>2, StillWire DEF DialMoves, Dropped, Rest, connVars, clientVars, serverVars
  <1>3. ASSUME NEW c \in Calls, CallStarts(c) PROVE WireInv'
    BY <1>3, CallStartsWire
  <1>4. CASE Writes
    BY <1>4, WritesWire
  <1>5. CASE Flushes
    <2>1. op # None /\ ~IsWrite(Head(op.todo)) /\ srv' = srv /\ StepDone(op.mid)
      BY <1>5 DEF Flushes, IsWrite, serverVars
    <2>2. op.mid \in Nat /\ srv.buf = <<>>
      BY <2>1 DEF WireInv, WireTypeOK, WireClean
    <2> QED BY <1>1, <2>1, <2>2, StepDoneWire
  <1>6. CASE IoFails
    BY <1>6, ReturnWire DEF IoFails, serverVars
  <1>7. CASE TimesOut
    BY <1>7, ReturnWire DEF TimesOut, serverVars
  <1>8. CASE Cancel
    BY <1>1, <1>8, ReturnWire DEF Cancel, serverVars
  <1>9. CASE RecvQueued \/ RecvParses \/ RecvReads \/ DrainParses \/ DrainReads \/ DrainEnds
    BY <1>9, ReadsWire
  <1>10. CASE ServerSends \/ ServerGone
    BY <1>10, ServerWire
  <1> QED BY <1>2, <1>3, <1>4, <1>5, <1>6, <1>7, <1>8, <1>9, <1>10 DEF ConnNext, CallMoves

LEMMA WireInit ==
    ASSUME ConnInit
    PROVE  WireInv
  <1>1. op = None /\ stream = None /\ next = 1 /\ poisoned = FALSE
    BY DEF ConnInit
  <1>2. PICK left : srv = [buf |-> <<>>, garbled |-> FALSE, seen |-> {}, s |-> 0, m |-> 0, ended |-> {},
                           left |-> left, cut |-> 0, huge |-> FALSE, gone |-> FALSE]
    BY DEF ConnInit
  <1>3. IsServer(srv) /\ srv.garbled = FALSE /\ srv.buf = <<>>
    BY <1>2 DEF IsServer, SrvFields
  <1> QED BY <1>1, <1>3 DEF WireInv, WireTypeOK, WireClean, Writing

\* Conn::write_raw and flush raise the poison flag for the whole await: whatever
\* call is cut off by a deadline, an error or a dropped future, and wherever in
\* a frame that happens, no later call writes behind half a frame, and the
\* server never reads nonsense.
THEOREM NeverGarbledHolds == ConnSpec => []NeverGarbled
  <1>1. ConnInit => WireInv
    BY WireInit
  <1>2. WireInv /\ [ConnNext]_connVars => WireInv'
    BY WireNext
  <1>3. WireInv => NeverGarbled
    BY DEF WireInv, WireClean, NeverGarbled
  <1> QED BY <1>1, <1>2, <1>3, TimedSteps, PTL DEF ConnSpec, TimedInit

-----------------------------------------------------------------------------
(* The queue of the probe *)

\* A payload is a sequence; a packet holds no more than MaxPacket of it, and a
\* frame no more than one.
IsData(d) == \E S : d \in Seq(S)
Sized(p) == IsData(p.data) /\ Len(p.data) <= MaxPacket
Framed(u) == IsData(u[1].data) /\ Len(u[1].data) <= 1

IsQueue(q) == \E P : q \in Seq(P) /\ \A p \in P : Sized(p)
IsWire(b) == \E U : b \in Seq(U) /\ \A u \in U : Framed(u)
IsPacket(p) == Sized(p) /\ p = [x \in {"s", "m", "kind", "control", "data"} |-> p[x]]

\* What the client has read, and what is on its way to it, are frames; the
\* packet in assembly and the queued ones are no larger than a packet may be.
QueueInv ==
    /\ IsWire(buf) /\ IsWire(down)
    /\ asm.cur # None => IsPacket(asm.cur)
    /\ IsQueue(pending)
    /\ QueueBounded

\* A set of numbers has a least one.
LEMMA LeastNat ==
    ASSUME NEW T, T \subseteq Nat, T # {}
    PROVE  \E x \in T : \A y \in T : x <= y
  <1>1. PICK R : R = OpToRel(<, Nat)
    OBVIOUS
  <1>2. IsWellFoundedOn(R, Nat)
    BY <1>1, NatLessThanWellFounded
  <1>3. PICK x \in T : \A y \in T : ~ (<<y, x>> \in R)
    BY <1>2, WFMin
  <1>4. \A y \in T : y < x => <<y, x>> \in R
    BY <1>1 DEF OpToRel
  <1>5. \A y \in T : ~(y < x)
    BY <1>3, <1>4
  <1>6. \A y \in T : x <= y
    BY <1>5
  <1> QED BY <1>3, <1>6

\* Induction, for a set of numbers.
LEMMA Induction ==
    ASSUME NEW S, 0 \in S, \A n \in Nat : n \in S => n + 1 \in S
    PROVE  \A n \in Nat : n \in S
  <1> DEFINE T == {n \in Nat : n \notin S}
  <1> SUFFICES ASSUME T # {} PROVE FALSE
    OBVIOUS
  <1>1. PICK x \in T : \A y \in T : x <= y
    BY LeastNat
  <1>2. x \in Nat /\ x \notin S /\ x # 0
    OBVIOUS
  <1>3. PICK m \in Nat : x = m + 1
    <2>1. x - 1 \in Nat /\ x = (x - 1) + 1
      BY <1>2
    <2> QED BY <2>1
  <1>4. ~(x <= m)
    BY <1>3
  <1>5. m \in S
    BY <1>1, <1>4
  <1> QED BY <1>2, <1>3, <1>5

LEMMA QueueTypes ==
    ASSUME NEW q, IsQueue(q)
    PROVE  /\ Len(q) \in Nat
           /\ \A i \in 1..Len(q) : IsData(q[i].data) /\ Len(q[i].data) \in Nat /\ Len(q[i].data) <= MaxPacket
  <1>1. PICK P : q \in Seq(P) /\ \A p \in P : Sized(p)
    BY DEF IsQueue
  <1>2. ASSUME NEW p \in P PROVE IsData(p.data) /\ Len(p.data) \in Nat /\ Len(p.data) <= MaxPacket
    <2>1. IsData(p.data) /\ Len(p.data) <= MaxPacket
      BY <1>1 DEF Sized
    <2>2. PICK S : p.data \in Seq(S)
      BY <2>1 DEF IsData
    <2> QED BY <2>1, <2>2
  <1> QED BY <1>1, <1>2

\* The payload of the first packets, up to the n-th.
IsSums(f, q, n) ==
    /\ f \in [0..n -> Nat]
    /\ f[0] = 0
    /\ \A i \in 1..n : f[i] = f[i - 1] + Len(q[i].data)

LEMMA SumsExist ==
    ASSUME NEW q, IsQueue(q)
    PROVE  \E f : IsSums(f, q, Len(q))
  <1>0. PICK l \in Nat : l = Len(q)
    BY QueueTypes
  <1> DEFINE S == {n \in Nat : n <= l => \E f : IsSums(f, q, n)}
  <1>1. 0 \in S
    <2>1. PICK f : f = [i \in 0..0 |-> 0]
      OBVIOUS
    <2>2. f \in [0..0 -> Nat] /\ f[0] = 0
      BY <2>1
    <2>3. IsSums(f, q, 0)
      BY <2>2 DEF IsSums
    <2> QED BY <2>3
  <1>2. ASSUME NEW n \in Nat, n \in S PROVE n + 1 \in S
    <2> SUFFICES ASSUME n + 1 <= l PROVE \E f : IsSums(f, q, n + 1)
      OBVIOUS
    <2>1. PICK f : IsSums(f, q, n)
      BY <1>2
    <2>2. f \in [0..n -> Nat] /\ f[0] = 0 /\ \A i \in 1..n : f[i] = f[i - 1] + Len(q[i].data)
      BY <2>1 DEF IsSums
    <2>3. PICK d \in Nat : d = Len(q[n + 1].data)
      <3>1. n + 1 \in 1..l
        OBVIOUS
      <3> QED BY <1>0, <3>1, QueueTypes
    <2>4. PICK g : g = [i \in 0..(n + 1) |-> IF i = n + 1 THEN f[n] + d ELSE f[i]]
      OBVIOUS
    <2>5. g[n + 1] = f[n] + d /\ \A i \in 0..n : g[i] = f[i]
      BY <2>4
    <2>6. g \in [0..(n + 1) -> Nat]
      BY <2>2, <2>3, <2>4
    <2>7. ASSUME NEW i \in 1..(n + 1) PROVE g[i] = g[i - 1] + Len(q[i].data)
      <3>1. CASE i = n + 1
        <4>1. i - 1 = n /\ n \in 0..n
          BY <3>1
        <4> QED BY <2>3, <2>5, <3>1, <4>1
      <3>2. CASE i # n + 1
        <4>1. i \in 1..n /\ i \in 0..n /\ i - 1 \in 0..n
          BY <3>2
        <4> QED BY <2>2, <2>5, <4>1
      <3> QED BY <3>1, <3>2
    <2>8. g[0] = 0
      BY <2>2, <2>5
    <2>9. IsSums(g, q, n + 1)
      BY <2>6, <2>7, <2>8 DEF IsSums
    <2> QED BY <2>9
  <1> HIDE DEF S
  <1>3. \A n \in Nat : n \in S
    BY <1>1, <1>2, Induction
  <1> QED BY <1>0, <1>3 DEF S

\* The recursive definition of Sums is one of them.
LEMMA SumsFacts ==
    ASSUME NEW q, IsQueue(q)
    PROVE  IsSums(Sums(q), q, Len(q))
  <1>1. PICK n \in Nat : n = Len(q)
    BY QueueTypes
  <1>2. PICK f : IsSums(f, q, n)
    BY <1>1, SumsExist
  <1>3. f = [i \in 0..n |-> IF i = 0 THEN 0 ELSE f[i - 1] + Len(q[i].data)]
    <2>1. f \in [0..n -> Nat] /\ f[0] = 0 /\ \A i \in 1..n : f[i] = f[i - 1] + Len(q[i].data)
      BY <1>2 DEF IsSums
    <2>2. ASSUME NEW i \in 0..n PROVE f[i] = IF i = 0 THEN 0 ELSE f[i - 1] + Len(q[i].data)
      <3>1. CASE i = 0
        BY <2>1, <3>1
      <3>2. CASE i # 0
        <4>1. i \in 1..n
          BY <3>2
        <4> QED BY <2>1, <3>2, <4>1
      <3> QED BY <3>1, <3>2
    <2> QED BY <2>1, <2>2
  <1>4. PICK g : g = Sums(q)
    OBVIOUS
  <1>5. g = [i \in 0..n |-> IF i = 0 THEN 0 ELSE g[i - 1] + Len(q[i].data)]
    BY <1>1, <1>3, <1>4, Zenon DEF Sums
  <1>6. DOMAIN g = 0..n /\ g[0] = 0 /\ \A i \in 1..n : g[i] = g[i - 1] + Len(q[i].data)
    <2>1. DOMAIN g = 0..n
      BY ONLY <1>5
    <2>2. 0 \in 0..n
      OBVIOUS
    <2>3. g[0] = 0
      BY <1>5, <2>2
    <2>4. ASSUME NEW i \in 1..n PROVE g[i] = g[i - 1] + Len(q[i].data)
      <3>1. i \in 0..n /\ i # 0
        OBVIOUS
      <3> QED BY <1>5, <3>1
    <2> QED BY <2>1, <2>3, <2>4
  <1>7. \A m \in Nat : m \in {k \in Nat : k <= n => g[k] \in Nat}
    <2> DEFINE S == {k \in Nat : k <= n => g[k] \in Nat}
    <2>1. 0 \in S
      BY <1>6
    <2>2. ASSUME NEW k \in Nat, k \in S PROVE k + 1 \in S
      <3> SUFFICES ASSUME k + 1 <= n PROVE g[k + 1] \in Nat
        OBVIOUS
      <3>1. k + 1 \in 1..n /\ g[k] \in Nat /\ (k + 1) - 1 = k
        BY <2>2
      <3>2. Len(q[k + 1].data) \in Nat
        BY <1>1, <3>1, QueueTypes
      <3>3. g[k + 1] = g[k] + Len(q[k + 1].data)
        BY <1>6, <3>1
      <3> QED BY <3>1, <3>2, <3>3
    <2> HIDE DEF S
    <2>3. \A m \in Nat : m \in S
      BY <2>1, <2>2, Induction
    <2> QED BY <2>3 DEF S
  <1>8. g \in [0..n -> Nat]
    <2>1. g = [i \in 0..n |-> g[i]]
      BY <1>5, <1>6
    <2> QED BY <1>7, <2>1
  <1> QED BY <1>1, <1>4, <1>6, <1>8 DEF IsSums

LEMMA BytesFacts ==
    ASSUME NEW q, IsQueue(q)
    PROVE  Bytes(q) \in Nat
  <1>1. PICK n \in Nat : n = Len(q)
    BY QueueTypes
  <1>2. Sums(q) \in [0..n -> Nat]
    BY <1>1, SumsFacts DEF IsSums
  <1> QED BY <1>1, <1>2 DEF Bytes

\* A packet more adds its payload.
LEMMA BytesAppend ==
    ASSUME NEW q, IsQueue(q), NEW x, Sized(x)
    PROVE  /\ IsQueue(Append(q, x)) /\ Len(Append(q, x)) = Len(q) + 1
           /\ Bytes(Append(q, x)) = Bytes(q) + Len(x.data)
  <1>1. PICK P : q \in Seq(P) /\ \A p \in P : Sized(p)
    BY DEF IsQueue
  <1>2. PICK R : R = P \cup {x}
    OBVIOUS
  <1>3. q \in Seq(R) /\ \A p \in R : Sized(p)
    BY <1>1, <1>2
  <1>4. PICK n \in Nat : n = Len(q)
    BY <1>1
  <1>5. PICK r \in Seq(R) : r = Append(q, x)
    <2>1. Append(q, x) \in Seq(R)
      BY <1>2, <1>3
    <2> QED BY ONLY <2>1, Zenon
  <1>6. Len(r) = n + 1 /\ r[n + 1] = x /\ \A i \in 1..n : r[i] = q[i]
    BY <1>3, <1>4, <1>5, <1>2
  <1>7. IsQueue(r)
    BY <1>3, <1>5 DEF IsQueue
  <1>8. PICK f : f = Sums(q) /\ f \in [0..n -> Nat] /\ f[0] = 0
                 /\ \A i \in 1..n : f[i] = f[i - 1] + Len(q[i].data)
    BY <1>4, SumsFacts DEF IsSums
  <1>9. PICK g : g = Sums(r) /\ g \in [0..(n + 1) -> Nat] /\ g[0] = 0
                 /\ \A i \in 1..(n + 1) : g[i] = g[i - 1] + Len(r[i].data)
    <2>1. IsSums(Sums(r), r, n + 1)
      BY <1>6, <1>7, SumsFacts
    <2> QED BY ONLY <2>1, Zenon DEF IsSums
  <1> DEFINE S == {k \in Nat : k <= n => g[k] = f[k]}
  <1>10. 0 \in S
    BY <1>8, <1>9
  <1>11. ASSUME NEW k \in Nat, k \in S PROVE k + 1 \in S
    <2> SUFFICES ASSUME k + 1 <= n PROVE g[k + 1] = f[k + 1]
      OBVIOUS
    <2>1. k + 1 \in 1..n /\ k + 1 \in 1..(n + 1) /\ (k + 1) - 1 = k /\ g[k] = f[k]
      BY <1>11
    <2>2. f[k + 1] = f[k] + Len(q[k + 1].data)
      BY <1>8, <2>1
    <2>3. g[k + 1] = g[k] + Len(r[k + 1].data)
      BY <1>9, <2>1
    <2> QED BY <1>6, <2>1, <2>2, <2>3
  <1> HIDE DEF S
  <1>12. \A k \in Nat : k \in S
    BY <1>10, <1>11, Induction
  <1>13. g[n] = f[n]
    BY <1>12 DEF S
  <1>14. g[n + 1] = g[n] + Len(x.data)
    <2>1. n + 1 \in 1..(n + 1) /\ (n + 1) - 1 = n
      OBVIOUS
    <2>2. g[n + 1] = g[n] + Len(r[n + 1].data)
      BY <1>9, <2>1
    <2> QED BY <1>6, <2>2
  <1>15. Bytes(q) = f[n] /\ Bytes(r) = g[n + 1]
    BY <1>4, <1>6, <1>8, <1>9 DEF Bytes
  <1> QED BY <1>4, <1>5, <1>6, <1>7, <1>13, <1>14, <1>15

\* A packet less takes its payload away.
LEMMA BytesTail ==
    ASSUME NEW q, IsQueue(q), q # <<>>
    PROVE  /\ IsQueue(Tail(q)) /\ Len(Tail(q)) <= Len(q)
           /\ Bytes(Tail(q)) <= Bytes(q)
  <1>1. PICK P : q \in Seq(P) /\ \A p \in P : Sized(p)
    BY DEF IsQueue
  <1>2. PICK n \in Nat : n + 1 = Len(q)
    <2>1. Len(q) \in Nat /\ Len(q) # 0
      BY <1>1
    <2>2. Len(q) - 1 \in Nat /\ (Len(q) - 1) + 1 = Len(q)
      BY <2>1
    <2> QED BY <2>2
  <1>3. PICK r \in Seq(P) : r = Tail(q)
    <2>1. Tail(q) \in Seq(P)
      BY <1>1
    <2> QED BY ONLY <2>1, Zenon
  <1>4. Len(r) = n /\ \A i \in 1..n : r[i] = q[i + 1]
    BY <1>1, <1>2, <1>3
  <1>5. IsQueue(r)
    BY <1>1, <1>3 DEF IsQueue
  <1>6. PICK f : f = Sums(q) /\ f \in [0..(n + 1) -> Nat] /\ f[0] = 0
                 /\ \A i \in 1..(n + 1) : f[i] = f[i - 1] + Len(q[i].data)
    BY <1>2, SumsFacts DEF IsSums
  <1>7. PICK g : g = Sums(r) /\ g \in [0..n -> Nat] /\ g[0] = 0
                 /\ \A i \in 1..n : g[i] = g[i - 1] + Len(r[i].data)
    BY <1>4, <1>5, SumsFacts DEF IsSums
  <1> DEFINE S == {k \in Nat : k <= n => g[k] <= f[k + 1]}
  <1>8. 0 \in S
    <2>1. f[1] \in Nat /\ g[0] = 0 /\ 0 + 1 = 1
      BY <1>6, <1>7
    <2> QED BY <2>1
  <1>9. ASSUME NEW k \in Nat, k \in S PROVE k + 1 \in S
    <2> SUFFICES ASSUME k + 1 <= n PROVE g[k + 1] <= f[(k + 1) + 1]
      OBVIOUS
    <2>1. k + 1 \in 1..n /\ (k + 1) + 1 \in 1..(n + 1) /\ (k + 1) - 1 = k /\ ((k + 1) + 1) - 1 = k + 1
      OBVIOUS
    <2>2. PICK d \in Nat : d = Len(r[k + 1].data) /\ d = Len(q[(k + 1) + 1].data)
      BY <1>4, <1>5, <2>1, QueueTypes
    <2>3. f[(k + 1) + 1] = f[k + 1] + d
      BY <1>6, <2>1, <2>2
    <2>4. g[k + 1] = g[k] + d
      BY <1>7, <2>1, <2>2
    <2>5. g[k] \in Nat /\ f[k + 1] \in Nat /\ g[k] <= f[k + 1]
      BY <1>6, <1>7, <1>9
    <2> QED BY <2>3, <2>4, <2>5
  <1> HIDE DEF S
  <1>10. \A k \in Nat : k \in S
    BY <1>8, <1>9, Induction
  <1>11. g[n] <= f[n + 1]
    BY <1>10 DEF S
  <1>12. Bytes(q) = f[n + 1] /\ Bytes(r) = g[n]
    BY <1>2, <1>4, <1>6, <1>7 DEF Bytes
  <1> QED BY <1>2, <1>3, <1>4, <1>5, <1>11, <1>12

-----------------------------------------------------------------------------
(* Frames and packets *)

LEMMA DataFacts ==
    ASSUME NEW d, IsData(d), NEW e, IsData(e)
    PROVE  Len(d) \in Nat /\ IsData(d \o e)
  <1>1. PICK S : d \in Seq(S)
    BY DEF IsData
  <1>2. PICK T : e \in Seq(T)
    BY DEF IsData
  <1>3. PICK U : U = S \cup T
    OBVIOUS
  <1>4. d \in Seq(U) /\ e \in Seq(U)
    BY <1>1, <1>2, <1>3
  <1>5. d \o e \in Seq(U)
    BY <1>4
  <1> QED BY <1>1, <1>5 DEF IsData

LEMMA WireJoin ==
    ASSUME NEW b, IsWire(b), NEW c, IsWire(c)
    PROVE  IsWire(b \o c)
  <1>1. PICK S : b \in Seq(S) /\ \A u \in S : Framed(u)
    BY DEF IsWire
  <1>2. PICK T : c \in Seq(T) /\ \A u \in T : Framed(u)
    BY DEF IsWire
  <1>3. PICK U : U = S \cup T
    OBVIOUS
  <1>4. b \in Seq(U) /\ c \in Seq(U) /\ \A u \in U : Framed(u)
    BY <1>1, <1>2, <1>3
  <1>5. b \o c \in Seq(U)
    BY <1>4
  <1> QED BY <1>4, <1>5 DEF IsWire

LEMMA WirePart ==
    ASSUME NEW b, IsWire(b)
    PROVE  /\ Len(b) \in Nat
           /\ \A lo \in Nat \ {0} : IsWire(SubSeq(b, lo, Len(b)))
           /\ \A hi \in Nat : hi <= Len(b) => IsWire(SubSeq(b, 1, hi))
           /\ \A i \in 1..Len(b) : Framed(b[i])
  <1>1. PICK S : b \in Seq(S) /\ \A u \in S : Framed(u)
    BY DEF IsWire
  <1>2. PICK l \in Nat : l = Len(b)
    BY <1>1
  <1>3. ASSUME NEW lo \in Nat \ {0}, NEW hi \in Nat, hi <= l PROVE IsWire(SubSeq(b, lo, hi))
    <2>1. \A i \in lo..hi : b[i] \in S
      <3>1. \A i \in lo..hi : i \in 1..l
        BY <1>3
      <3> QED BY <1>1, <1>2, <3>1
    <2>2. SubSeq(b, lo, hi) \in Seq(S)
      BY <2>1, SubSeqProperties
    <2> QED BY <1>1, <2>2 DEF IsWire
  <1> QED BY <1>1, <1>2, <1>3

\* Every frame append_packet_data makes holds at most one payload.
LEMMA FramesWire ==
    ASSUME NEW s, NEW m, NEW kind, NEW control, NEW n \in Nat, NEW out,
           \/ out = Frames(s, m, kind, control, n)
           \/ out = SubSeq(Frames(s, m, kind, control, n), 1, 1)
    PROVE  IsWire(Units(out))
  <1>1. PICK fs : fs = Frames(s, m, kind, control, n)
    OBVIOUS
  <1>2. PICK k \in Nat \ {0} : k = IF n = 0 THEN 1 ELSE n
    OBVIOUS
  <1>3. fs = [i \in 1..k |-> fs[i]]
    BY <1>1, <1>2 DEF Frames
  <1>4. ASSUME NEW i \in 1..k PROVE IsData(fs[i].data) /\ Len(fs[i].data) <= 1
    <2>1. fs[i].data = IF n = 0 THEN <<>> ELSE <<<<s, m, i>>>>
      BY <1>1, <1>2 DEF Frames
    <2>2. PICK x : x = <<s, m, i>>
      OBVIOUS
    <2>3. <<>> \in Seq({x}) /\ <<x>> \in Seq({x}) /\ Len(<<>>) = 0 /\ Len(<<x>>) = 1
      OBVIOUS
    <2>4. IsData(<<>>) /\ IsData(<<x>>)
      BY ONLY <2>3, Zenon DEF IsData
    <2> QED BY <2>1, <2>2, <2>3, <2>4
  <1>5. PICK F : F = {fs[i] : i \in 1..k}
    OBVIOUS
  <1>6. fs \in Seq(F) /\ Len(fs) = k
    BY <1>3, <1>5
  <1>7. out \in Seq(F)
    <2>1. 1 \in Nat /\ 0 \in Nat /\ 0 <= 1 /\ 1 <= Len(fs) /\ 0 + 1 = 1
      BY <1>2, <1>6
    <2>2. SubSeq(fs, 1, 1) \in Seq(F)
      BY <1>6, <2>1, PartFacts
    <2> QED BY <1>1, <1>6, <2>2
  <1>8. Units(out) \in Seq(F \X {1, 2})
    BY <1>7, UnitsFacts
  <1>9. ASSUME NEW u \in F \X {1, 2} PROVE Framed(u)
    <2>1. u[1] \in F
      OBVIOUS
    <2>2. PICK i \in 1..k : u[1] = fs[i]
      BY <1>5, <2>1
    <2> QED BY <1>4, <2>2 DEF Framed
  <1> QED BY <1>8, <1>9 DEF IsWire

\* PacketAssembler::push refuses a frame that makes its packet too large, so
\* what it keeps and what it completes is a packet.
LEMMA PushFacts ==
    ASSUME NEW a, a.cur # None => IsPacket(a.cur),
           NEW fr, IsData(fr.data), Len(fr.data) <= 1
    PROVE  /\ Push(a, fr).pkt # None => Sized(Push(a, fr).pkt)
           /\ Push(a, fr).asm.cur # None => IsPacket(Push(a, fr).asm.cur)
  <1>1. PICK same \in BOOLEAN : same = (a.cur # None /\ fr.s = a.s /\ fr.m = a.m)
    OBVIOUS
  <1>2. PICK cur : cur = IF same
                         THEN [a.cur EXCEPT !.control = @ \/ fr.control, !.data = @ \o fr.data]
                         ELSE [s |-> fr.s, m |-> fr.m, kind |-> fr.kind,
                               control |-> fr.control, data |-> fr.data]
    OBVIOUS
  <1>3. PICK err : err = (\/ id_less(fr.s, fr.m, a.s, a.m)
                          \/ same /\ (fr.kind # a.cur.kind \/ Len(cur.data) > MaxPacket))
    OBVIOUS
  <1>4. Push(a, fr) = [err |-> err,
                       pkt |-> IF ~err /\ fr.done THEN cur ELSE None,
                       asm |-> CASE err -> a
                                 [] ~err /\ fr.done -> [s |-> fr.s, m |-> fr.m + 1, cur |-> None]
                                 [] OTHER -> [s |-> fr.s, m |-> fr.m, cur |-> cur]]
    BY ONLY <1>1, <1>2, <1>3, Zenon DEF Push
  <1>5. cur = [x \in {"s", "m", "kind", "control", "data"} |-> cur[x]] /\ IsData(cur.data)
    <2>1. CASE same
      <3>1. IsPacket(a.cur)
        BY <1>1, <2>1
      <3>2. PICK c : c = a.cur /\ c = [x \in {"s", "m", "kind", "control", "data"} |-> c[x]] /\ IsData(c.data)
        BY <3>1 DEF IsPacket, Sized
      <3>3. PICK d : d = c.data \o fr.data
        OBVIOUS
      <3>4. PICK t : t = (c.control \/ fr.control)
        OBVIOUS
      <3>5. cur = [c EXCEPT !.control = t, !.data = d]
        BY ONLY <1>2, <2>1, <3>2, <3>3, <3>4, Zenon
      <3>6. cur.data = d /\ cur = [x \in {"s", "m", "kind", "control", "data"} |-> cur[x]]
        BY ONLY <3>2, <3>5
      <3>7. IsData(d)
        BY <3>2, <3>3, DataFacts
      <3> QED BY <3>6, <3>7
    <2>2. CASE ~same
      <3>1. cur = [s |-> fr.s, m |-> fr.m, kind |-> fr.kind, control |-> fr.control, data |-> fr.data]
        BY <1>2, <2>2
      <3>2. cur.data = fr.data /\ cur = [x \in {"s", "m", "kind", "control", "data"} |-> cur[x]]
        BY ONLY <3>1
      <3> QED BY <3>2
    <2> QED BY <2>1, <2>2
  <1>6. ~err => Len(cur.data) <= MaxPacket
    <2>1. Len(cur.data) \in Nat /\ MaxPacket \in Nat \ {0}
      BY <1>5, DataFacts, ConnAssumption
    <2>2. CASE same
      BY <1>3, <2>1, <2>2
    <2>3. CASE ~same
      BY <1>2, <2>1, <2>3
    <2> QED BY <2>2, <2>3
  <1>7. ~err => IsPacket(cur)
    BY <1>5, <1>6 DEF IsPacket, Sized
  <1>8. Push(a, fr).pkt # None => Sized(Push(a, fr).pkt)
    <2>1. Push(a, fr).pkt = IF ~err /\ fr.done THEN cur ELSE None
      BY ONLY <1>4
    <2> QED BY ONLY <1>7, <2>1 DEF IsPacket
  <1>9. PICK n : n = fr.m + 1
    OBVIOUS
  <1>10. Push(a, fr).asm.cur # None => IsPacket(Push(a, fr).asm.cur)
    <2>1. Push(a, fr).asm = CASE err -> a
                              [] ~err /\ fr.done -> [s |-> fr.s, m |-> n, cur |-> None]
                              [] OTHER -> [s |-> fr.s, m |-> fr.m, cur |-> cur]
      BY ONLY <1>4, <1>9
    <2> QED BY <1>7, <2>1
  <1> QED BY <1>8, <1>10

-----------------------------------------------------------------------------
(* The steps of the queue *)

LEMMA FillQueue ==
    ASSUME QueueInv, NEW n \in {1, Len(down)}, down # <<>>, Fill(n)
    PROVE  IsWire(buf') /\ IsWire(down')
  <1>1. IsWire(buf) /\ IsWire(down)
    BY DEF QueueInv
  <1>2. PICK l \in Nat : l = Len(down) /\ l >= 1
    <2>1. PICK S : down \in Seq(S)
      BY <1>1 DEF IsWire
    <2> QED BY <2>1
  <1>3. n \in Nat /\ n <= l /\ n + 1 \in Nat \ {0}
    BY <1>2
  <1>4. IsWire(SubSeq(down, 1, n)) /\ IsWire(SubSeq(down, n + 1, Len(down)))
    BY <1>1, <1>2, <1>3, WirePart
  <1> QED BY <1>1, <1>4, WireJoin DEF Fill

LEMMA ParseQueue ==
    ASSUME QueueInv, parse_one
    PROVE  /\ IsWire(buf')
           /\ asm'.cur # None => IsPacket(asm'.cur)
           /\ Taken.pkt # None => Sized(Taken.pkt)
  <1>1. IsWire(buf) /\ (asm.cur # None => IsPacket(asm.cur))
    BY DEF QueueInv
  <1>2. PICK l \in Nat : l = Len(buf)
    BY <1>1, WirePart
  <1>3. l >= 2
    BY <1>2 DEF parse_one, HasFrame, Parsed
  <1>4. Framed(buf[1])
    <2>1. 1 \in 1..l
      BY <1>3
    <2> QED BY <1>1, <1>2, <2>1, WirePart
  <1>5. IsWire(SubSeq(buf, 3, Len(buf)))
    BY <1>1, WirePart
  <1>6. IsData(buf[1][1].data) /\ Len(buf[1][1].data) <= 1
    BY <1>4 DEF Framed
  <1>7. /\ Taken.pkt # None => Sized(Taken.pkt)
        /\ Taken.asm.cur # None => IsPacket(Taken.asm.cur)
    BY <1>1, <1>6, PushFacts DEF Taken
  <1> QED BY <1>5, <1>7 DEF parse_one

LEMMA ServerQueue ==
    ASSUME QueueInv, ServerSends \/ ServerGone
    PROVE  QueueInv'
  <1>1. IsWire(down) /\ clientVars' = clientVars
    BY DEF QueueInv, ServerSends, ServerGone
  <1>2. CASE ServerSends
    <2>1. PICK s \in srv.seen, a \in Answers :
             LET m == IF s = srv.s THEN srv.m + 1 ELSE 1
                 fs == Frames(s, m, a.kind, a.kind = "PING", a.n)
                 out == IF a.cut THEN SubSeq(fs, 1, 1) ELSE fs
             IN  down' = down \o Units(out)
      BY <1>2, Zenon DEF ServerSends
    <2>2. PICK m : m = IF s = srv.s THEN srv.m + 1 ELSE 1
      OBVIOUS
    <2>3. PICK c : c = (a.kind = "PING")
      OBVIOUS
    <2>4. PICK out : /\ out = IF a.cut THEN SubSeq(Frames(s, m, a.kind, c, a.n), 1, 1)
                              ELSE Frames(s, m, a.kind, c, a.n)
                     /\ down' = down \o Units(out)
      BY ONLY <2>1, <2>2, <2>3, Zenon
    <2>5. a.n \in Nat
      BY ConnAssumption DEF Answers
    <2>6. IsWire(Units(out))
      BY ONLY <2>4, <2>5, FramesWire
    <2>7. IsWire(down')
      BY ONLY <1>1, <2>4, <2>6, WireJoin
    <2> QED BY <1>1, <2>7 DEF QueueInv, clientVars, QueueBounded, Queued
  <1>3. CASE ServerGone
    <2>1. PICK fr : fr = Frames(srv.s, srv.m + 1, "MESSAGE", FALSE, 1)[1]
      OBVIOUS
    <2>2. down' = down \/ down' = down \o <<<<fr, 1>>>>
      BY <1>3, <2>1 DEF ServerGone
    <2>3. IsWire(<<<<fr, 1>>>>)
      <3>1. PICK m : m = srv.m + 1
        OBVIOUS
      <3>2. PICK x : x = <<srv.s, m, 1>>
        OBVIOUS
      <3>3. fr.data = <<x>>
        BY <2>1, <3>1, <3>2 DEF Frames
      <3>4. <<x>> \in Seq({x}) /\ Len(<<x>>) = 1
        OBVIOUS
      <3>5. PICK u : u = <<fr, 1>>
        OBVIOUS
      <3>6. u[1] = fr
        BY ONLY <3>5
      <3>7. IsData(<<x>>)
        BY ONLY <3>4, Zenon DEF IsData
      <3>8. Framed(u)
        <4>1. u[1].data = <<x>>
          BY ONLY <3>3, <3>6
        <4>2. Len(<<x>>) <= 1
          BY ONLY <3>4
        <4> QED BY ONLY <3>7, <4>1, <4>2, Zenon DEF Framed
      <3>9. PICK U : <<u>> \in Seq(U) /\ \A v \in U : Framed(v)
        <4>1. PICK U : U = {u}
          OBVIOUS
        <4>2. <<u>> \in Seq(U) /\ \A v \in U : Framed(v)
          BY <3>8, <4>1
        <4> QED BY ONLY <4>2, Zenon
      <3>10. IsWire(<<u>>)
        BY ONLY <3>9, Zenon DEF IsWire
      <3> QED BY ONLY <3>5, <3>10
    <2>4. IsWire(down')
      BY <1>1, <2>2, <2>3, WireJoin
    <2> QED BY <1>1, <2>4 DEF QueueInv, clientVars, QueueBounded, Queued
  <1> QED BY <1>2, <1>3

LEMMA DrainParsesQueue ==
    ASSUME QueueInv, DrainParses
    PROVE  QueueInv'
  <1>1. /\ IsWire(buf') /\ (asm'.cur # None => IsPacket(asm'.cur))
        /\ Taken.pkt # None => Sized(Taken.pkt)
    BY ParseQueue DEF DrainParses
  <1>2. IsWire(down) /\ down' = down /\ IsQueue(pending) /\ QueueBounded
    BY DEF QueueInv, DrainParses, serverVars
  <1>3. PICK n \in Nat, b \in Nat : n = Len(pending) /\ b = Queued
    BY <1>2, QueueTypes, BytesFacts DEF Queued
  <1>4. n < MaxPending /\ b < HighWater
    BY <1>3, ConnAssumption DEF DrainParses, Full
  <1>5. CASE Taken.pkt # None
    <2>1. PICK x : x = Taken.pkt /\ Sized(x) /\ pending' = Append(pending, x)
      BY <1>1, <1>5 DEF DrainParses
    <2>2. IsQueue(pending') /\ Len(pending') = n + 1 /\ Bytes(pending') = b + Len(x.data)
      BY <1>2, <1>3, <2>1, BytesAppend DEF Queued
    <2>3. Len(x.data) \in Nat /\ Len(x.data) <= MaxPacket
      BY <2>1, DataFacts DEF Sized
    <2>4. QueueBounded'
      BY <1>3, <1>4, <2>2, <2>3, ConnAssumption DEF QueueBounded, Queued
    <2> QED BY <1>1, <1>2, <2>2, <2>4 DEF QueueInv
  <1>6. CASE ~(Taken.pkt # None)
    <2>1. pending' = pending
      BY <1>6 DEF DrainParses
    <2> QED BY <1>1, <1>2, <2>1 DEF QueueInv, QueueBounded, Queued
  <1> QED BY <1>5, <1>6

LEMMA RecvQueuedQueue ==
    ASSUME QueueInv, RecvQueued
    PROVE  QueueInv'
  <1>1. pending # <<>> /\ pending' = Tail(pending) /\ UNCHANGED <<buf, asm, down>>
    BY DEF RecvQueued, serverVars
  <1>2. IsQueue(pending) /\ QueueBounded
    BY DEF QueueInv
  <1>3. PICK n \in Nat, b \in Nat : n = Len(pending) /\ b = Queued
    BY <1>2, QueueTypes, BytesFacts DEF Queued
  <1>4. IsQueue(pending') /\ Len(pending') <= n /\ Bytes(pending') <= b
    BY <1>1, <1>2, <1>3, BytesTail DEF Queued
  <1>5. Len(pending') \in Nat /\ Bytes(pending') \in Nat
    BY <1>4, QueueTypes, BytesFacts
  <1>6. QueueBounded'
    BY <1>2, <1>3, <1>4, <1>5, ConnAssumption DEF QueueBounded, Queued
  <1> QED BY <1>1, <1>4, <1>6 DEF QueueInv

LEMMA QueueNext ==
    ASSUME QueueInv, [ConnNext]_connVars
    PROVE  QueueInv'
  <1>1. ASSUME UNCHANGED <<buf, down, asm, pending>> PROVE QueueInv'
    BY <1>1 DEF QueueInv, QueueBounded, Queued
  <1>2. CASE DialMoves \/ Dropped \/ Rest \/ UNCHANGED connVars
    BY <1>1, <1>2 DEF DialMoves, Dropped, Rest, connVars, clientVars, serverVars
  <1>3. ASSUME NEW c \in Calls, CallStarts(c) PROVE QueueInv'
    BY <1>1, <1>3 DEF CallStarts, serverVars
  <1>4. CASE Writes \/ Flushes \/ IoFails \/ TimesOut \/ Cancel \/ DrainEnds
    BY <1>1, <1>4 DEF Writes, Flushes, IoFails, TimesOut, Cancel, DrainEnds, serverVars
  <1>5. CASE RecvQueued
    BY <1>5, RecvQueuedQueue
  <1>6. CASE RecvParses
    <2>1. parse_one /\ UNCHANGED <<down, pending>>
      BY <1>6 DEF RecvParses, serverVars
    <2> QED BY <2>1, ParseQueue DEF QueueInv, QueueBounded, Queued
  <1>7. CASE RecvReads
    <2>1. UNCHANGED <<asm, pending>>
      BY <1>7 DEF RecvReads
    <2>2. CASE UNCHANGED <<down, buf>>
      BY <1>1, <2>1, <2>2
    <2>3. CASE \E n \in {1, Len(down)} : down # <<>> /\ Fill(n)
      BY <2>1, <2>3, FillQueue DEF QueueInv, QueueBounded, Queued
    <2> QED BY <1>7, <2>2, <2>3 DEF RecvReads
  <1>8. CASE DrainParses
    BY <1>8, DrainParsesQueue
  <1>9. CASE DrainReads
    <2>1. UNCHANGED <<asm, pending>> /\ \E n \in {1, Len(down)} : down # <<>> /\ Fill(n)
      BY <1>9 DEF DrainReads
    <2> QED BY <2>1, FillQueue DEF QueueInv, QueueBounded, Queued
  <1>10. CASE ServerSends \/ ServerGone
    BY <1>10, ServerQueue
  <1> QED BY <1>2, <1>3, <1>4, <1>5, <1>6, <1>7, <1>8, <1>9, <1>10 DEF ConnNext, CallMoves

LEMMA QueueInit ==
    ASSUME ConnInit
    PROVE  QueueInv
  <1>1. buf = <<>> /\ down = <<>> /\ pending = <<>> /\ asm.cur = None
    BY DEF ConnInit, NewAssembler
  <1>2. <<>> \in Seq({}) /\ Len(<<>>) = 0
    OBVIOUS
  <1>3. IsWire(<<>>) /\ IsQueue(<<>>)
    <2>1. PICK E : E = {}
      OBVIOUS
    <2>2. <<>> \in Seq(E) /\ (\A u \in E : Framed(u)) /\ (\A p \in E : Sized(p))
      BY <2>1
    <2> QED BY ONLY <2>2, Zenon DEF IsWire, IsQueue
  <1>4. Bytes(<<>>) = 0
    BY <1>2, <1>3, SumsFacts DEF IsSums, Bytes
  <1>5. QueueBounded
    BY <1>1, <1>2, <1>4, ConnAssumption DEF QueueBounded, Queued
  <1> QED BY <1>1, <1>3, <1>5 DEF QueueInv

\* drain_ready stops at either mark before it parses again, and the assembler
\* refuses a packet that grows too large: whatever a server sends to a client
\* that only writes, the queue stays below the high-water mark and one packet,
\* and within its number of packets.
THEOREM QueueBoundedHolds == ConnSpec => []QueueBounded
  <1>1. ConnInit => QueueInv
    BY QueueInit
  <1>2. QueueInv /\ [ConnNext]_connVars => QueueInv'
    BY QueueNext
  <1>3. QueueInv => QueueBounded
    BY DEF QueueInv
  <1> QED BY <1>1, <1>2, <1>3, TimedSteps, PTL DEF ConnSpec, TimedInit

-----------------------------------------------------------------------------
(* What the caller reads *)

Ends == {"ERROR", "CLOSE", "CLOSE_SEND"}
Payload == Nat \X Nat \X Nat
Frame == [s : Nat \ {0}, m : Nat, kind : AnswerKinds, control : BOOLEAN, done : BOOLEAN, data : Seq(Payload)]
Packet == [s : Nat \ {0}, m : Nat, kind : AnswerKinds, control : BOOLEAN, data : Seq(Payload)]

\* The number of a frame in its message, 0 for a frame of another kind.
Part(fr) == IF fr.data = <<>> THEN 0 ELSE fr.data[1][3]

\* The first n payloads of a message.
Text(s, m, n) == [k \in 1..n |-> <<s, m, k>>]

Precedes(a, b) == id_less(a.s, a.m, b.s, b.m)

\* The caller can still read from the stream opened last.
Live == op # None \/ stream # None
Cur == next - 1

\* What a whole packet of n payloads says was sent.
Sound(p, n) ==
    /\ p.control = (p.kind = "PING")
    /\ p.kind = "MESSAGE" => \E j \in 1..Len(sent[p.s]) : sent[p.s][j] = <<n, p.m>>
    /\ p.kind \in Ends => p.s \in srv.ended /\ \A j \in 1..Len(sent[p.s]) : sent[p.s][j][2] < p.m

\* A frame on its way: a part of a message, or all of another packet.
SoundFrame(fr) ==
    /\ fr \in Frame /\ fr.s \in Streams
    /\ ~Precedes(srv, fr)
    /\ fr.kind = "MESSAGE" =>
          /\ fr.data = <<<<fr.s, fr.m, Part(fr)>>>> /\ Part(fr) \in 1..(MaxPacket + 1)
          /\ fr.control = FALSE
          /\ Part(fr) = MaxPacket + 1 => fr.done /\ srv.huge
    /\ fr.kind # "MESSAGE" => fr.data = <<>> /\ fr.done
    /\ fr.done => Sound(fr, Part(fr))

\* Frame b comes after frame a: a new packet, or the next part of a message.
Follows(a, b) ==
    \/ Precedes(a, b) /\ Part(b) <= 1
    \/ /\ ~a.done /\ a.kind = "MESSAGE" /\ b.kind = "MESSAGE" /\ a.s = b.s /\ a.m = b.m
       /\ Part(b) = Part(a) + 1

SoundFrames(F) ==
    /\ \A i \in 1..Len(F) : SoundFrame(F[i])
    /\ \A i \in 1..(Len(F) - 1) : Follows(F[i], F[i + 1])
    /\ \A i, j \in 1..Len(F) : i < j => ~Precedes(F[j], F[i]) /\ (F[i].done => Precedes(F[i], F[j]))

\* Frame fr comes after the c payloads in assembly.
Continues(fr, c) ==
    \/ Precedes(asm, fr) /\ Part(fr) <= 1
    \/ fr.kind = "MESSAGE" /\ fr.s = asm.s /\ fr.m = asm.m /\ Part(fr) = c + 1

\* The assembler holds what comes before the frames F.
Assembling(F) ==
    /\ asm.s \in Nat \ {0} /\ asm.m \in Nat
    /\ \/ asm.s < srv.s \/ (asm.s = srv.s /\ asm.m <= srv.m + 1)
       \/ srv.s = 0 /\ asm.s = 1 /\ asm.m = 1
    /\ \A i \in 1..Len(F) : ~Precedes(F[i], asm)
    /\ asm.cur = None => (F # <<>> => Part(F[1]) <= 1)
    /\ asm.cur # None =>
          /\ asm.cur \in Packet /\ asm.cur.s = asm.s /\ asm.cur.m = asm.m
          /\ asm.cur.kind = "MESSAGE" /\ asm.cur.control = FALSE
          /\ ~Precedes(srv, asm)
          /\ \E c \in 1..MaxPacket :
                asm.cur.data = Text(asm.s, asm.m, c) /\ (F # <<>> => Continues(F[1], c))

\* The queue holds whole packets, in order, all of them before what is in
\* assembly.
SoundPacket(p) ==
    /\ p \in Packet /\ p.s \in Streams
    /\ Sound(p, Len(p.data))
    /\ p.kind = "MESSAGE" => p.data = Text(p.s, p.m, Len(p.data))

SoundQueue ==
    /\ pending \in Seq(Packet)
    /\ \A i \in 1..Len(pending) : SoundPacket(pending[i]) /\ Precedes(pending[i], asm)
    /\ \A i, j \in 1..Len(pending) : i < j => Precedes(pending[i], pending[j])

\* What was sent, stream by stream, in the order of its ids.
SentRight ==
    /\ sent \in [Streams -> Seq(Nat \X Nat)]
    /\ \A s \in Streams :
          /\ s > srv.s => sent[s] = <<>>
          /\ \A j \in 1..Len(sent[s]) : s = srv.s => sent[s][j][2] <= srv.m
          /\ \A i, j \in 1..Len(sent[s]) : i < j => sent[s][i][2] < sent[s][j][2]

GotRight ==
    /\ got \in [Streams -> Seq(Seq(Payload))]
    /\ \A s \in Streams :
          /\ Len(got[s]) <= Len(sent[s])
          /\ \A i \in 1..Len(got[s]) : got[s][i] = Text(s, sent[s][i][2], sent[s][i][1])

InQueue(Q, s, m) == \E i \in 1..Len(Q) : Q[i].s = s /\ Q[i].m = m /\ Q[i].kind = "MESSAGE"
InFrames(F, s, m) == \E i \in 1..Len(F) : F[i].s = s /\ F[i].m = m /\ F[i].kind = "MESSAGE" /\ F[i].done

\* What a stream that can be read was sent and did not deliver is on its way;
\* what it delivered comes before all that is.
Complete(F) ==
    Live =>
       /\ \A j \in 1..Len(sent[Cur]) : j > Len(got[Cur]) =>
             InQueue(pending, Cur, sent[Cur][j][2]) \/ InFrames(F, Cur, sent[Cur][j][2])
       /\ \A j \in 1..Len(got[Cur]) :
             /\ \A i \in 1..Len(pending) : pending[i].s = Cur => sent[Cur][j][2] < pending[i].m
             /\ \A i \in 1..Len(F) : F[i].s = Cur => sent[Cur][j][2] < F[i].m

\* Unit i of what the client has read and what it has yet to read.
Unit(b, d, i) == IF i <= Len(b) THEN b[i] ELSE d[i - Len(b)]

\* The units on their way are those of the frames F, and perhaps half of one
\* more.
Pipe(b, d, F) ==
    /\ Len(b) + Len(d) \in {2 * Len(F), 2 * Len(F) + 1}
    /\ \A i \in 1..Len(F) : Unit(b, d, 2 * i - 1) = <<F[i], 1>> /\ Unit(b, d, 2 * i) = <<F[i], 2>>

\* A message the server gave up shows at the end of what it sent.
CutShows(F) ==
    /\ F # <<>> => (srv.cut = 0 => F[Len(F)].done)
    /\ asm.cur # None /\ F = <<>> => srv.cut = 1 \/ srv.huge
    /\ srv.cut = 1 => \/ Len(buf) + Len(down) = 2 * Len(F) + 1
                      \/ F # <<>> /\ ~F[Len(F)].done
                      \/ F = <<>> /\ asm.cur # None
    /\ Len(buf) + Len(down) = 2 * Len(F) + 1 => srv.gone /\ srv.cut = 1

\* Only send probes.
Probing == op # None => \A i \in 1..Len(op.todo) : op.todo[i] = "drain" => op.call = "send"

\* The stream in use is the one opened last, and the server knows no later one.
Streaming ==
    /\ next \in Nat \ {0} /\ calls.left \in Nat
    /\ \E b \in Budgets \cup {NoCall, OneCall} : next + calls.left <= b.calls + 1
    /\ op # None => op.s = Cur
    /\ op = None /\ stream # None => stream.s = Cur
    /\ Live => next > 1
    /\ srv.seen \subseteq 1..(next - 1)
    /\ srv.s \in Nat /\ srv.m \in Nat /\ srv.s < next
    /\ srv.cut \in {0, 1}
    /\ Probing

\* What the outcome of the last call says.
LastRight ==
    /\ last.call \in {"recv", "invoke"} /\ last.outcome = "closed" =>
          /\ last.s \in Streams /\ last.s < next
          /\ Live => last.s < Cur
          /\ Len(got[last.s]) = Len(sent[last.s])
          /\ last.s \in srv.ended \/ (srv.gone /\ srv.cut = 0)
    /\ last.call \in {"recv", "invoke"} /\ last.outcome = "truncated" => srv.gone /\ (srv.cut = 1 \/ srv.huge)
    /\ last.outcome = "frame" => srv.huge
    /\ last.outcome # "unexpected"

Arriving(F) == Pipe(buf, down, F) /\ SoundFrames(F) /\ Assembling(F) /\ CutShows(F)

Stocks == SentRight /\ GotRight /\ SoundQueue

\* The inductive invariant of what is read.
ReadInv ==
    /\ Streaming /\ LastRight /\ Stocks
    /\ \E F \in Seq(Frame) : Arriving(F) /\ Complete(F)

-----------------------------------------------------------------------------
(* Units *)

\* Two sequences one behind the other.
LEMMA JoinFacts ==
    ASSUME NEW T, NEW x \in Seq(T), NEW y \in Seq(T), NEW a \in Nat, a = Len(x), NEW b \in Nat, b = Len(y)
    PROVE  /\ x \o y \in Seq(T) /\ Len(x \o y) = a + b
           /\ \A i \in 1..a : (x \o y)[i] = x[i]
           /\ \A i \in 1..b : (x \o y)[a + i] = y[i]
  <1>1. x \o y \in Seq(T) /\ Len(x \o y) = a + b
    OBVIOUS
  <1>2. ASSUME NEW i \in 1..a PROVE (x \o y)[i] = x[i]
    <2>1. i \in 1..(a + b) /\ i <= a
      OBVIOUS
    <2> QED BY <2>1
  <1>3. ASSUME NEW i \in 1..b PROVE (x \o y)[a + i] = y[i]
    <2>1. a + i \in 1..(a + b) /\ ~(a + i <= a) /\ (a + i) - a = i
      OBVIOUS
    <2> QED BY <2>1
  <1> QED BY <1>1, <1>2, <1>3

\* Reading moves units along without changing what they carry.
LEMMA PipeFill ==
    ASSUME NEW U, NEW b \in Seq(U), NEW d \in Seq(U), NEW n \in Nat, 1 <= n, n <= Len(d),
           NEW F \in Seq(Frame), Pipe(b, d, F)
    PROVE  /\ Pipe(b \o SubSeq(d, 1, n), SubSeq(d, n + 1, Len(d)), F)
           /\ Len(b \o SubSeq(d, 1, n)) + Len(SubSeq(d, n + 1, Len(d))) = Len(b) + Len(d)
  <1>1. PICK lb \in Nat, ld \in Nat, lf \in Nat : lb = Len(b) /\ ld = Len(d) /\ lf = Len(F)
    OBVIOUS
  <1>2. PICK h, t : h = SubSeq(d, 1, n) /\ t = SubSeq(d, n + 1, ld)
    OBVIOUS
  <1>3. h \in Seq(U) /\ Len(h) = n /\ \A i \in 1..n : h[i] = d[i]
    <2>1. 0 \in Nat /\ 0 <= n /\ 0 + 1 = 1 /\ n - 0 = n /\ \A i \in 1..n : 0 + i = i
      OBVIOUS
    <2> QED BY <1>1, <1>2, <2>1, PartFacts
  <1>4. t \in Seq(U) /\ Len(t) = ld - n /\ \A i \in 1..(ld - n) : t[i] = d[n + i]
    BY <1>1, <1>2, PartFacts
  <1>5. PICK c : c = b \o h
    OBVIOUS
  <1>6. /\ Len(c) = lb + n
        /\ \A i \in 1..lb : c[i] = b[i]
        /\ \A i \in 1..n : c[lb + i] = h[i]
    <2>1. b \in Seq(U) /\ h \in Seq(U) /\ lb = Len(b) /\ n = Len(h)
      BY <1>1, <1>3
    <2>2. /\ b \o h \in Seq(U) /\ Len(b \o h) = lb + n
          /\ \A i \in 1..lb : (b \o h)[i] = b[i]
          /\ \A i \in 1..n : (b \o h)[lb + i] = h[i]
      BY ONLY lb \in Nat, n \in Nat, <2>1, JoinFacts
    <2> QED BY ONLY <1>5, <2>2, Zenon
  <1>7. ASSUME NEW i \in 1..(lb + ld) PROVE Unit(c, t, i) = Unit(b, d, i)
    <2>1. CASE i <= lb
      <3>1. i \in 1..lb /\ i <= lb + n
        BY <2>1
      <3> QED BY <1>1, <1>6, <2>1, <3>1 DEF Unit
    <2>2. CASE lb < i /\ i <= lb + n
      <3>1. PICK k \in 1..n : i = lb + k /\ i - lb = k
        <4>1. i - lb \in 1..n /\ i = lb + (i - lb)
          BY <2>2
        <4> QED BY <4>1
      <3>2. ~(i <= lb)
        BY <2>2
      <3> QED BY <1>1, <1>3, <1>6, <2>2, <3>1, <3>2 DEF Unit
    <2>3. CASE lb + n < i
      <3>1. PICK k \in 1..(ld - n) : i - (lb + n) = k /\ i - lb = n + k
        <4>1. i - (lb + n) \in 1..(ld - n) /\ i - lb = n + (i - (lb + n))
          BY <2>3
        <4> QED BY <4>1
      <3>2. ~(i <= lb) /\ ~(i <= lb + n)
        BY <2>3
      <3> QED BY <1>1, <1>4, <1>6, <3>1, <3>2 DEF Unit
    <2> QED BY <2>1, <2>2, <2>3
  <1>8. Len(c) + Len(t) = lb + ld
    BY ONLY lb \in Nat, ld \in Nat, n \in Nat, <1>4, <1>6
  <1>9. lb + ld \in {2 * lf, 2 * lf + 1}
    BY <1>1 DEF Pipe
  <1>10. \A i \in 1..lf : 2 * i - 1 \in 1..(lb + ld) /\ 2 * i \in 1..(lb + ld)
    BY <1>9
  <1>11. \A i \in 1..lf : Unit(c, t, 2 * i - 1) = <<F[i], 1>> /\ Unit(c, t, 2 * i) = <<F[i], 2>>
    BY <1>1, <1>7, <1>10 DEF Pipe
  <1> QED BY <1>1, <1>2, <1>5, <1>8, <1>9, <1>11 DEF Pipe

\* Parsing takes the first frame off.
LEMMA PipeParse ==
    ASSUME NEW U, NEW b \in Seq(U), NEW d \in Seq(U), Len(b) >= 2,
           NEW F \in Seq(Frame), Pipe(b, d, F)
    PROVE  /\ F # <<>> /\ b[1][1] = F[1]
           /\ Pipe(SubSeq(b, 3, Len(b)), d, Tail(F))
           /\ Len(SubSeq(b, 3, Len(b))) = Len(b) - 2
  <1>1. PICK lb \in Nat, ld \in Nat, lf \in Nat : lb = Len(b) /\ ld = Len(d) /\ lf = Len(F)
    OBVIOUS
  <1>2. lb + ld \in {2 * lf, 2 * lf + 1} /\ lb >= 2
    BY <1>1 DEF Pipe
  <1>3. lf >= 1
    BY <1>2
  <1>4. PICK c : c = SubSeq(b, 3, lb)
    OBVIOUS
  <1>5. Len(c) = lb - 2 /\ \A i \in 1..(lb - 2) : c[i] = b[2 + i]
    <2>1. 2 \in Nat /\ 2 <= lb /\ 2 + 1 = 3
      BY <1>2
    <2> QED BY <1>1, <1>4, <2>1, PartFacts
  <1>6. ASSUME NEW i \in 1..(lb + ld - 2) PROVE Unit(c, d, i) = Unit(b, d, i + 2)
    <2>1. CASE i <= lb - 2
      <3>1. i \in 1..(lb - 2) /\ i + 2 <= lb /\ 2 + i = i + 2
        BY <2>1
      <3> QED BY <1>1, <1>5, <2>1, <3>1 DEF Unit
    <2>2. CASE ~(i <= lb - 2)
      <3>1. ~(i + 2 <= lb) /\ i - (lb - 2) = (i + 2) - lb
        BY <2>2
      <3> QED BY <1>1, <1>5, <2>2, <3>1 DEF Unit
    <2> QED BY <2>1, <2>2
  <1>7. PICK T \in Seq(Frame) : T = Tail(F)
    <2>1. Tail(F) \in Seq(Frame)
      BY <1>1, <1>3
    <2> QED BY ONLY <2>1, Zenon
  <1>8. Len(T) = lf - 1 /\ \A i \in 1..(lf - 1) : T[i] = F[i + 1]
    BY <1>1, <1>3, <1>7
  <1>9. ASSUME NEW i \in 1..(lf - 1)
        PROVE  Unit(c, d, 2 * i - 1) = <<T[i], 1>> /\ Unit(c, d, 2 * i) = <<T[i], 2>>
    <2>1. i + 1 \in 1..lf /\ 2 * i - 1 \in 1..(lb + ld - 2) /\ 2 * i \in 1..(lb + ld - 2)
          /\ (2 * i - 1) + 2 = 2 * (i + 1) - 1 /\ (2 * i) + 2 = 2 * (i + 1)
      BY <1>2
    <2>2. Unit(b, d, 2 * (i + 1) - 1) = <<F[i + 1], 1>> /\ Unit(b, d, 2 * (i + 1)) = <<F[i + 1], 2>>
      BY <1>1, <2>1 DEF Pipe
    <2> QED BY <1>6, <1>8, <2>1, <2>2
  <1>10. Len(c) + ld \in {2 * (lf - 1), 2 * (lf - 1) + 1}
    BY <1>2, <1>5
  <1>11. Pipe(c, d, T)
    BY <1>1, <1>8, <1>9, <1>10 DEF Pipe
  <1>12. b[1] = <<F[1], 1>>
    <2>1. 1 \in 1..lf /\ 2 * 1 - 1 = 1 /\ 1 <= lb
      BY <1>2, <1>3
    <2>2. Unit(b, d, 1) = <<F[1], 1>>
      BY <1>1, <2>1 DEF Pipe
    <2> QED BY <1>1, <2>1, <2>2 DEF Unit
  <1>13. b[1][1] = F[1]
    BY ONLY <1>12
  <1> QED BY <1>1, <1>3, <1>4, <1>5, <1>7, <1>11, <1>13

\* Sending adds the frames of an answer.
LEMMA PipeJoin ==
    ASSUME NEW U, NEW b \in Seq(U), NEW d \in Seq(U), NEW F \in Seq(Frame), Pipe(b, d, F),
           Len(b) + Len(d) = 2 * Len(F), NEW out \in Seq(Frame)
    PROVE  /\ Pipe(b, d \o Units(out), F \o out)
           /\ Len(b) + Len(d \o Units(out)) = 2 * Len(F \o out)
           /\ F \o out \in Seq(Frame)
  <1>1. PICK lb \in Nat, ld \in Nat, lf \in Nat, lo \in Nat :
           lb = Len(b) /\ ld = Len(d) /\ lf = Len(F) /\ lo = Len(out) /\ lb + ld = 2 * lf
    OBVIOUS
  <1>2. PICK u, V : /\ u = Units(out) /\ u \in Seq(V) /\ Len(u) = 2 * lo
                    /\ \A i \in 1..lo : u[2 * i - 1] = <<out[i], 1>> /\ u[2 * i] = <<out[i], 2>>
    <2>1. PICK u : u = Units(out)
      OBVIOUS
    <2>2. PICK V : V = Frame \X {1, 2}
      OBVIOUS
    <2>3. /\ u \in Seq(V) /\ Len(u) = 2 * lo
          /\ \A i \in 1..lo : u[2 * i - 1] = <<out[i], 1>> /\ u[2 * i] = <<out[i], 2>>
      BY <1>1, <2>1, <2>2, UnitsFacts
    <2> QED BY ONLY <2>1, <2>3, Zenon
  <1>3. PICK X : X = U \cup V
    OBVIOUS
  <1>4. d \in Seq(X) /\ u \in Seq(X)
    BY <1>2, <1>3
  <1>5. PICK e : e = d \o u
    OBVIOUS
  <1>6. /\ Len(e) = ld + 2 * lo
        /\ \A i \in 1..ld : e[i] = d[i]
        /\ \A i \in 1..(2 * lo) : e[ld + i] = u[i]
    <2>1. PICK k \in Nat : k = 2 * lo
      OBVIOUS
    <2>2. ld = Len(d) /\ k = Len(u)
      BY <1>1, <1>2, <2>1
    <2>3. /\ d \o u \in Seq(X) /\ Len(d \o u) = ld + k
          /\ \A i \in 1..ld : (d \o u)[i] = d[i]
          /\ \A i \in 1..k : (d \o u)[ld + i] = u[i]
      BY ONLY ld \in Nat, k \in Nat, <1>4, <2>2, JoinFacts
    <2> QED BY ONLY <1>5, <2>1, <2>3, Zenon
  <1>7. PICK G : G = F \o out
    OBVIOUS
  <1>8. /\ Len(G) = lf + lo /\ G \in Seq(Frame)
        /\ \A i \in 1..lf : G[i] = F[i]
        /\ \A i \in 1..lo : G[lf + i] = out[i]
    BY <1>1, <1>7, JoinFacts
  <1>9. ASSUME NEW i \in 1..(lb + ld) PROVE Unit(b, e, i) = Unit(b, d, i)
    <2>1. CASE i <= lb
      BY <1>1, <2>1 DEF Unit
    <2>2. CASE ~(i <= lb)
      <3>1. i - lb \in 1..ld
        BY <2>2
      <3> QED BY <1>1, <1>6, <2>2, <3>1 DEF Unit
    <2> QED BY <2>1, <2>2
  <1>10. ASSUME NEW i \in 1..(2 * lo) PROVE Unit(b, e, lb + ld + i) = u[i]
    <2>1. ~(lb + ld + i <= lb) /\ (lb + ld + i) - lb = ld + i
      OBVIOUS
    <2> QED BY <1>1, <1>6, <2>1 DEF Unit
  <1>11. ASSUME NEW i \in 1..(lf + lo)
         PROVE  Unit(b, e, 2 * i - 1) = <<G[i], 1>> /\ Unit(b, e, 2 * i) = <<G[i], 2>>
    <2>1. CASE i <= lf
      <3>1. i \in 1..lf /\ 2 * i - 1 \in 1..(lb + ld) /\ 2 * i \in 1..(lb + ld)
        BY <1>1, <2>1
      <3>2. Unit(b, d, 2 * i - 1) = <<F[i], 1>> /\ Unit(b, d, 2 * i) = <<F[i], 2>>
        BY <1>1, <3>1 DEF Pipe
      <3> QED BY <1>8, <1>9, <3>1, <3>2
    <2>2. CASE ~(i <= lf)
      <3>1. PICK k \in 1..lo : i = lf + k
        <4>1. i - lf \in 1..lo /\ i = lf + (i - lf)
          BY <2>2
        <4> QED BY <4>1
      <3>2. /\ 2 * k - 1 \in 1..(2 * lo) /\ 2 * k \in 1..(2 * lo)
            /\ 2 * i - 1 = lb + ld + (2 * k - 1) /\ 2 * i = lb + ld + 2 * k
        <4>1. lb + ld = 2 * lf
          BY <1>1
        <4> QED BY ONLY lb \in Nat, ld \in Nat, lf \in Nat, lo \in Nat, k \in 1..lo, <3>1, <4>1
      <3>3. Unit(b, e, 2 * i - 1) = u[2 * k - 1] /\ Unit(b, e, 2 * i) = u[2 * k]
        BY <1>10, <3>2
      <3> QED BY <1>2, <1>8, <3>1, <3>3
    <2> QED BY <2>1, <2>2
  <1>12. lb + Len(e) = 2 * (lf + lo)
    <2>1. lb + ld = 2 * lf /\ Len(e) = ld + 2 * lo
      BY <1>1, <1>6
    <2> QED BY ONLY lb \in Nat, ld \in Nat, lf \in Nat, lo \in Nat, <2>1
  <1>13. Pipe(b, e, G)
    BY <1>1, <1>8, <1>11, <1>12 DEF Pipe
  <1> QED BY <1>1, <1>2, <1>5, <1>7, <1>8, <1>12, <1>13

-----------------------------------------------------------------------------
(* Payloads and packets *)

\* The text of a message has a length.
LEMMA TextFacts ==
    ASSUME NEW s \in Nat, NEW m \in Nat, NEW n \in Nat
    PROVE  Text(s, m, n) \in Seq(Payload) /\ Len(Text(s, m, n)) = n
  <1>1. \A k \in 1..n : <<s, m, k>> \in Payload
    BY DEF Payload
  <1> QED BY <1>1 DEF Text

\* The text of a message of one payload.
LEMMA TextOne ==
    ASSUME NEW s, NEW m
    PROVE  <<<<s, m, 1>>>> = Text(s, m, 1)
  <1>1. PICK x : x = <<s, m, 1>>
    OBVIOUS
  <1>2. <<x>> = [k \in 1..1 |-> x]
    OBVIOUS
  <1>3. \A k \in 1..1 : k = 1
    OBVIOUS
  <1>4. [k \in 1..1 |-> x] = [k \in 1..1 |-> <<s, m, k>>]
    BY <1>1, <1>3
  <1> QED BY <1>1, <1>2, <1>4 DEF Text

\* A payload more is a longer text.
LEMMA TextMore ==
    ASSUME NEW s \in Nat, NEW m \in Nat, NEW c \in Nat
    PROVE  Text(s, m, c) \o <<<<s, m, c + 1>>>> = Text(s, m, c + 1)
  <1>1. PICK x \in Payload : x = <<s, m, c + 1>>
    <2>1. <<s, m, c + 1>> \in Payload
      BY DEF Payload
    <2> QED BY ONLY <2>1, Zenon
  <1>2. PICK t : t = Text(s, m, c) /\ t \in Seq(Payload) /\ Len(t) = c /\ \A k \in 1..c : t[k] = <<s, m, k>>
    <2>1. Text(s, m, c) \in Seq(Payload) /\ Len(Text(s, m, c)) = c
      BY TextFacts
    <2>2. \A k \in 1..c : Text(s, m, c)[k] = <<s, m, k>>
      BY DEF Text
    <2> QED BY ONLY <2>1, <2>2, Zenon
  <1>3. PICK u : u = Text(s, m, c + 1) /\ u \in Seq(Payload) /\ Len(u) = c + 1
                 /\ \A k \in 1..(c + 1) : u[k] = <<s, m, k>>
    <2>1. c + 1 \in Nat
      OBVIOUS
    <2>2. Text(s, m, c + 1) \in Seq(Payload) /\ Len(Text(s, m, c + 1)) = c + 1
      BY <2>1, TextFacts
    <2>3. \A k \in 1..(c + 1) : Text(s, m, c + 1)[k] = <<s, m, k>>
      BY DEF Text
    <2> QED BY ONLY <2>2, <2>3, Zenon
  <1>4. PICK y \in Seq(Payload) : y = <<x>> /\ Len(y) = 1 /\ y[1] = x
    <2>1. <<x>> \in Seq(Payload) /\ Len(<<x>>) = 1 /\ <<x>>[1] = x
      OBVIOUS
    <2> QED BY ONLY <2>1, Zenon
  <1>5. PICK v : v = t \o y
    OBVIOUS
  <1>6. v \in Seq(Payload) /\ Len(v) = c + 1 /\ (\A i \in 1..c : v[i] = t[i]) /\ v[c + 1] = x
    <2>1. PICK k \in Nat : k = 1
      OBVIOUS
    <2>2. c = Len(t) /\ k = Len(y) /\ t \in Seq(Payload) /\ y \in Seq(Payload)
      BY <1>2, <1>4, <2>1
    <2>3. /\ t \o y \in Seq(Payload) /\ Len(t \o y) = c + k
          /\ \A i \in 1..c : (t \o y)[i] = t[i]
          /\ \A i \in 1..k : (t \o y)[c + i] = y[i]
      BY ONLY c \in Nat, k \in Nat, <2>2, JoinFacts
    <2>4. 1 \in 1..k
      BY <2>1
    <2> QED BY <1>4, <1>5, <2>1, <2>3, <2>4
  <1>7. ASSUME NEW k \in 1..(c + 1) PROVE v[k] = u[k]
    <2>1. CASE k = c + 1
      BY <1>1, <1>3, <1>6, <2>1
    <2>2. CASE k # c + 1
      <3>1. k \in 1..c
        BY <2>2
      <3> QED BY <1>2, <1>3, <1>6, <3>1
    <2> QED BY <2>1, <2>2
  <1>8. v = u
    BY <1>3, <1>6, <1>7
  <1>9. y = <<<<s, m, c + 1>>>>
    BY ONLY <1>1, <1>4, Zenon
  <1> QED BY ONLY <1>2, <1>3, <1>5, <1>8, <1>9, Zenon

\* A packet is not the absence of one.
LEMMA NotNone ==
    ASSUME NEW p \in Packet PROVE p # None
  <1>1. p \in [s : Nat, m : Nat, kind : AnswerKinds, control : BOOLEAN, data : Seq(Nat \X Nat \X Nat)]
    <2>1. p \in [s : Nat \ {0}, m : Nat, kind : AnswerKinds, control : BOOLEAN, data : Seq(Payload)]
      BY DEF Packet
    <2>2. p \in [s : Nat, m : Nat, kind : AnswerKinds, control : BOOLEAN, data : Seq(Payload)]
      BY ONLY <2>1
    <2> QED BY ONLY <2>2, Zenon DEF Payload
  <1> QED BY ONLY <1>1, ConnAssumption, Zenon

\* What becomes of the next frame fr, when r is the answer of the assembler: it
\* is refused only as the last part of a message that is too large; otherwise it
\* completes its packet, or is one more part of it.
Pushed(fr, r) ==
    /\ fr \in Frame /\ SoundFrame(fr) /\ r.err \in BOOLEAN
    /\ r.err => /\ srv.huge /\ asm.cur # None /\ fr.done
                /\ r.asm = asm /\ r.pkt = None
    /\ ~r.err /\ fr.done =>
          /\ r.pkt # None /\ SoundPacket(r.pkt)
          /\ r.pkt.s = fr.s /\ r.pkt.m = fr.m /\ r.pkt.kind = fr.kind
          /\ r.asm = [s |-> fr.s, m |-> fr.m + 1, cur |-> None]
    /\ ~r.err /\ ~fr.done =>
          /\ r.pkt = None
          /\ \E p \in Packet :
                /\ r.asm = [s |-> fr.s, m |-> fr.m, cur |-> p]
                /\ p.s = fr.s /\ p.m = fr.m /\ p.kind = "MESSAGE" /\ p.control = FALSE
                /\ p.data = Text(fr.s, fr.m, Part(fr)) /\ Part(fr) \in 1..MaxPacket

\* PacketAssembler::push on the next frame.
LEMMA PushRight ==
    ASSUME Streaming, NEW F \in Seq(Frame), F # <<>>, SoundFrames(F), Assembling(F),
           NEW fr, fr = F[1], NEW r, r = Push(asm, fr)
    PROVE  Pushed(fr, r)
  <1>1. /\ fr \in Frame /\ SoundFrame(fr) /\ ~Precedes(fr, asm)
        /\ asm.s \in Nat /\ asm.m \in Nat
    <2>1. 1 \in 1..Len(F)
      OBVIOUS
    <2> QED BY <2>1 DEF SoundFrames, SoundFrame, Assembling
  <1>2. /\ fr.s \in Nat \ {0} /\ fr.m \in Nat /\ fr.kind \in AnswerKinds /\ fr.control \in BOOLEAN
        /\ fr.done \in BOOLEAN /\ fr.data \in Seq(Payload)
    BY <1>1 DEF Frame
  <1>3. PICK same \in BOOLEAN : same = (asm.cur # None /\ fr.s = asm.s /\ fr.m = asm.m)
    OBVIOUS
  <1>4. PICK cur : cur = IF same
                         THEN [asm.cur EXCEPT !.control = @ \/ fr.control, !.data = @ \o fr.data]
                         ELSE [s |-> fr.s, m |-> fr.m, kind |-> fr.kind,
                               control |-> fr.control, data |-> fr.data]
    OBVIOUS
  <1>5. PICK err : err = (\/ id_less(fr.s, fr.m, asm.s, asm.m)
                          \/ same /\ (fr.kind # asm.cur.kind \/ Len(cur.data) > MaxPacket))
    OBVIOUS
  <1>6. r = [err |-> err,
             pkt |-> IF ~err /\ fr.done THEN cur ELSE None,
             asm |-> CASE err -> asm
                       [] ~err /\ fr.done -> [s |-> fr.s, m |-> fr.m + 1, cur |-> None]
                       [] OTHER -> [s |-> fr.s, m |-> fr.m, cur |-> cur]]
    BY ONLY r = Push(asm, fr), <1>3, <1>4, <1>5, Zenon DEF Push
  <1>7. fr.kind = "MESSAGE" =>
           /\ fr.data = <<<<fr.s, fr.m, Part(fr)>>>> /\ Part(fr) \in 1..(MaxPacket + 1)
           /\ fr.control = FALSE
    BY <1>1 DEF SoundFrame
  <1>8. fr.kind # "MESSAGE" => fr.data = <<>> /\ fr.done /\ Part(fr) = 0
    BY <1>1 DEF SoundFrame, Part
  <1>9. same => /\ fr.kind = "MESSAGE" /\ asm.cur.kind = "MESSAGE"
                /\ cur \in Packet /\ cur.data = Text(fr.s, fr.m, Part(fr))
                /\ cur.s = fr.s /\ cur.m = fr.m /\ cur.kind = "MESSAGE" /\ cur.control = FALSE
    <2> SUFFICES ASSUME same
                 PROVE  /\ fr.kind = "MESSAGE" /\ asm.cur.kind = "MESSAGE"
                        /\ cur \in Packet /\ cur.data = Text(fr.s, fr.m, Part(fr))
                        /\ cur.s = fr.s /\ cur.m = fr.m /\ cur.kind = "MESSAGE" /\ cur.control = FALSE
      OBVIOUS
    <2>1. asm.cur # None /\ fr.s = asm.s /\ fr.m = asm.m
      BY <1>3
    <2>2. PICK c \in 1..MaxPacket : asm.cur.data = Text(asm.s, asm.m, c) /\ Continues(fr, c)
      BY <2>1 DEF Assembling
    <2>3. ~Precedes(asm, fr)
      BY <1>1, <2>1 DEF Precedes, id_less
    <2>4. fr.kind = "MESSAGE" /\ Part(fr) = c + 1
      BY <2>2, <2>3 DEF Continues
    <2>5. PICK a \in Packet : a = asm.cur /\ a.s = fr.s /\ a.m = fr.m /\ a.kind = "MESSAGE"
                              /\ a.control = FALSE /\ a.data = Text(fr.s, fr.m, c)
      BY <2>1, <2>2 DEF Assembling
    <2>6. c \in Nat
      BY ConnAssumption
    <2>7. a.data \o fr.data = Text(fr.s, fr.m, c + 1)
      <3>1. fr.data = <<<<fr.s, fr.m, c + 1>>>>
        BY ONLY <1>7, <2>4, Zenon
      <3>2. Text(fr.s, fr.m, c) \o <<<<fr.s, fr.m, c + 1>>>> = Text(fr.s, fr.m, c + 1)
        BY <1>2, <2>6, TextMore
      <3> QED BY ONLY <2>5, <3>1, <3>2, Zenon
    <2>8. PICK d : d = Text(fr.s, fr.m, c + 1) /\ d \in Seq(Payload)
      <3>1. fr.s \in Nat /\ fr.m \in Nat /\ c + 1 \in Nat
        BY <1>2, <2>6
      <3>2. Text(fr.s, fr.m, c + 1) \in Seq(Payload)
        BY ONLY <3>1, TextFacts
      <3> QED BY ONLY <3>2, Zenon
    <2>9. cur = [a EXCEPT !.control = FALSE, !.data = d]
      <3>1. cur = [a EXCEPT !.control = @ \/ fr.control, !.data = @ \o fr.data]
        BY ONLY <1>4, <2>5, same, Zenon
      <3>2. (a.control \/ fr.control) = FALSE
        BY <1>7, <2>4, <2>5
      <3> QED BY ONLY <2>7, <2>8, <3>1, <3>2, Zenon
    <2>10. /\ cur \in Packet /\ cur.data = d
           /\ cur.s = a.s /\ cur.m = a.m /\ cur.kind = a.kind /\ cur.control = FALSE
      BY ONLY a \in Packet, <2>8, <2>9 DEF Packet
    <2> QED BY <2>4, <2>5, <2>8, <2>10
  <1>10. ~same => /\ cur \in Packet /\ cur.s = fr.s /\ cur.m = fr.m /\ cur.kind = fr.kind
                  /\ cur.control = fr.control /\ cur.data = fr.data
                  /\ fr.kind = "MESSAGE" => Part(fr) = 1 /\ cur.data = Text(fr.s, fr.m, Part(fr))
    <2> SUFFICES ASSUME ~same
                 PROVE  /\ cur \in Packet /\ cur.s = fr.s /\ cur.m = fr.m /\ cur.kind = fr.kind
                        /\ cur.control = fr.control /\ cur.data = fr.data
                        /\ fr.kind = "MESSAGE" => Part(fr) = 1 /\ cur.data = Text(fr.s, fr.m, Part(fr))
      OBVIOUS
    <2>1. cur = [s |-> fr.s, m |-> fr.m, kind |-> fr.kind, control |-> fr.control, data |-> fr.data]
      BY <1>4
    <2>2. /\ cur \in Packet /\ cur.s = fr.s /\ cur.m = fr.m /\ cur.kind = fr.kind
          /\ cur.control = fr.control /\ cur.data = fr.data
      BY ONLY <1>2, <2>1 DEF Packet
    <2>3. ASSUME fr.kind = "MESSAGE" PROVE Part(fr) = 1
      <3>1. Part(fr) <= 1
        <4>1. CASE asm.cur = None
          BY <4>1 DEF Assembling
        <4>2. CASE asm.cur # None
          <5>1. PICK c \in 1..MaxPacket : Continues(fr, c)
            BY <4>2 DEF Assembling
          <5> QED BY <1>3, <4>2, <5>1 DEF Continues
        <4> QED BY <4>1, <4>2
      <3>2. Part(fr) \in 1..(MaxPacket + 1)
        BY <1>7, <2>3
      <3>3. PICK k \in 1..(MaxPacket + 1) : k = Part(fr)
        BY <3>2
      <3>4. k <= 1
        BY <3>1, <3>3
      <3>5. k = 1
        BY ONLY <3>4, k \in 1..(MaxPacket + 1), ConnAssumption
      <3> QED BY <3>3, <3>5
    <2>4. ASSUME fr.kind = "MESSAGE" PROVE cur.data = Text(fr.s, fr.m, Part(fr))
      BY <1>7, <2>2, <2>3, <2>4, TextOne
    <2> QED BY <2>2, <2>3, <2>4
  <1>11. /\ cur \in Packet /\ cur.s = fr.s /\ cur.m = fr.m /\ cur.kind = fr.kind /\ cur.control = fr.control
         /\ fr.kind = "MESSAGE" => cur.data = Text(fr.s, fr.m, Part(fr))
    BY <1>7, <1>9, <1>10
  <1>12. Len(cur.data) = Part(fr)
    <2>1. CASE fr.kind = "MESSAGE"
      <3>1. Part(fr) \in Nat
        BY <1>7, <2>1, ConnAssumption
      <3>2. fr.s \in Nat /\ fr.m \in Nat
        BY <1>2
      <3>3. Len(Text(fr.s, fr.m, Part(fr))) = Part(fr)
        BY ONLY <3>1, <3>2, TextFacts
      <3> QED BY ONLY <1>11, <2>1, <3>3, Zenon
    <2>2. CASE fr.kind # "MESSAGE"
      BY <1>8, <1>9, <1>10, <2>2
    <2> QED BY <2>1, <2>2
  <1>13. err = (same /\ Part(fr) > MaxPacket)
    <2>1. ~id_less(fr.s, fr.m, asm.s, asm.m)
      BY <1>1 DEF Precedes
    <2>2. same => ~(fr.kind # asm.cur.kind)
      BY <1>9
    <2> QED BY ONLY <1>5, <1>12, <2>1, <2>2
  <1>14. r.err = err /\ r.pkt = IF ~err /\ fr.done THEN cur ELSE None
    BY ONLY <1>6
  <1>15. PICK m1 : m1 = fr.m + 1
    OBVIOUS
  <1>16. r.asm = CASE err -> asm
                   [] ~err /\ fr.done -> [s |-> fr.s, m |-> m1, cur |-> None]
                   [] OTHER -> [s |-> fr.s, m |-> fr.m, cur |-> cur]
    BY ONLY <1>6, <1>15
  <1>17. Part(fr) \in 0..(MaxPacket + 1) /\ MaxPacket \in Nat
    BY <1>7, <1>8, ConnAssumption
  <1>18. err \in BOOLEAN
    BY <1>13
  <1>19. err => srv.huge /\ asm.cur # None /\ fr.done /\ r.asm = asm /\ r.pkt = None
    <2>1. err => Part(fr) = MaxPacket + 1
      <3>1. PICK k \in 0..(MaxPacket + 1) : k = Part(fr)
        BY <1>17
      <3>2. k > MaxPacket => k = MaxPacket + 1
        BY ONLY k \in 0..(MaxPacket + 1), <1>17
      <3> QED BY <1>13, <3>1, <3>2
    <2>2. err => srv.huge /\ fr.done /\ asm.cur # None
      BY <1>1, <1>3, <1>9, <1>13, <2>1 DEF SoundFrame
    <2> QED BY <1>14, <1>16, <2>2
  <1>20. ASSUME ~err, fr.done
         PROVE  /\ r.pkt = cur /\ r.pkt # None /\ SoundPacket(cur)
                /\ r.asm = [s |-> fr.s, m |-> m1, cur |-> None]
    <2>1. r.pkt = cur /\ r.asm = [s |-> fr.s, m |-> m1, cur |-> None]
      BY <1>14, <1>16, <1>20
    <2>2. Sound(fr, Part(fr)) /\ fr.s \in Streams
      BY <1>1, <1>20 DEF SoundFrame
    <2>3. Sound(cur, Len(cur.data))
      BY ONLY <1>11, <1>12, <2>2 DEF Sound
    <2>4. SoundPacket(cur)
      BY <1>11, <1>12, <2>2, <2>3 DEF SoundPacket
    <2> QED BY <1>11, <2>1, <2>4, NotNone
  <1>21. ASSUME ~err, ~fr.done
         PROVE  /\ r.pkt = None /\ r.asm = [s |-> fr.s, m |-> fr.m, cur |-> cur]
                /\ cur.kind = "MESSAGE" /\ cur.control = FALSE
                /\ cur.data = Text(fr.s, fr.m, Part(fr)) /\ Part(fr) \in 1..MaxPacket
    <2>1. fr.kind = "MESSAGE"
      BY <1>8, <1>21
    <2>2. r.pkt = None /\ r.asm = [s |-> fr.s, m |-> fr.m, cur |-> cur]
      BY <1>14, <1>16, <1>21
    <2>3. Part(fr) # MaxPacket + 1
      BY <1>1, <1>21, <2>1 DEF SoundFrame
    <2>4. Part(fr) \in 1..MaxPacket
      <3>1. PICK k \in 1..(MaxPacket + 1) : k = Part(fr)
        BY <1>7, <2>1
      <3>2. k # MaxPacket + 1 => k \in 1..MaxPacket
        BY ONLY k \in 1..(MaxPacket + 1), <1>17
      <3> QED BY <2>3, <3>1, <3>2
    <2> QED BY <1>7, <1>11, <2>1, <2>2, <2>4
  <1> QED BY <1>1, <1>11, <1>14, <1>15, <1>18, <1>19, <1>20, <1>21 DEF Pushed

\* The numbers a step on the pipeline compares.
LEMMA ServerTypes ==
    ASSUME Streaming
    PROVE  srv.s \in Nat /\ srv.m \in Nat /\ srv.cut \in {0, 1} /\ next \in Nat \ {0}
  BY DEF Streaming

\* Whatever becomes of a frame, the rest of them comes after it.
LEMMA RestFrames ==
    ASSUME NEW F \in Seq(Frame), F # <<>>, SoundFrames(F), NEW T, T = Tail(F),
           srv' = srv, sent' = sent
    PROVE  /\ T \in Seq(Frame) /\ Len(T) = Len(F) - 1 /\ SoundFrames(T)'
           /\ \A i \in 1..Len(T) : /\ T[i] = F[i + 1] /\ T[i] \in Frame
                                   /\ ~Precedes(T[i], F[1]) /\ (F[1].done => Precedes(F[1], T[i]))
           /\ T # <<>> => Follows(F[1], T[1]) /\ T[Len(T)] = F[Len(F)]
           /\ T = <<>> => F[Len(F)] = F[1]
  <1>1. PICK n \in Nat : n + 1 = Len(F)
    <2>1. Len(F) \in Nat /\ Len(F) # 0
      OBVIOUS
    <2>2. Len(F) - 1 \in Nat /\ (Len(F) - 1) + 1 = Len(F)
      BY <2>1
    <2> QED BY <2>2
  <1>2. T \in Seq(Frame) /\ Len(T) = n /\ \A i \in 1..n : T[i] = F[i + 1]
    BY <1>1
  <1>3. \A i \in 1..n : i + 1 \in 1..(n + 1) /\ i \in 1..(n + 1) /\ 1 < i + 1
    BY <1>1
  <1>4. \A i \in 1..(n + 1) : SoundFrame(F[i])
    BY <1>1 DEF SoundFrames
  <1>5. \A i \in 1..n : Follows(F[i], F[i + 1])
    <2>1. (n + 1) - 1 = n
      OBVIOUS
    <2> QED BY <1>1, <2>1 DEF SoundFrames
  <1>6. \A i, j \in 1..(n + 1) : i < j => ~Precedes(F[j], F[i]) /\ (F[i].done => Precedes(F[i], F[j]))
    BY <1>1 DEF SoundFrames
  <1>7. \A i \in 1..n : SoundFrame(T[i])'
    <2>1. \A x : SoundFrame(x) => SoundFrame(x)'
      BY DEF SoundFrame, Sound, Precedes
    <2> QED BY <1>2, <1>3, <1>4, <2>1
  <1>8. ASSUME NEW i \in 1..(n - 1) PROVE Follows(T[i], T[i + 1])
    <2>1. i \in 1..n /\ i + 1 \in 1..n
      BY <1>1
    <2> QED BY <1>2, <1>5, <2>1
  <1>9. ASSUME NEW i \in 1..n, NEW j \in 1..n, i < j
        PROVE  ~Precedes(T[j], T[i]) /\ (T[i].done => Precedes(T[i], T[j]))
    <2>1. i + 1 < j + 1 /\ i + 1 \in 1..(n + 1) /\ j + 1 \in 1..(n + 1)
      BY <1>9
    <2> QED BY <1>2, <1>6, <2>1
  <1>10. SoundFrames(T)'
    BY <1>2, <1>7, <1>8, <1>9 DEF SoundFrames
  <1>11. ASSUME NEW i \in 1..n
         PROVE  T[i] = F[i + 1] /\ T[i] \in Frame /\ ~Precedes(T[i], F[1]) /\ (F[1].done => Precedes(F[1], T[i]))
    <2>1. 1 \in 1..(n + 1) /\ i + 1 \in 1..(n + 1) /\ 1 < i + 1
      BY <1>1
    <2> QED BY <1>2, <1>6, <2>1
  <1>12. T # <<>> => Follows(F[1], T[1]) /\ T[n] = F[n + 1]
    <2> SUFFICES ASSUME T # <<>> PROVE Follows(F[1], T[1]) /\ T[n] = F[n + 1]
      OBVIOUS
    <2>1. n # 0
      BY <1>2
    <2>2. 1 \in 1..n /\ n \in 1..n /\ 1 + 1 = 2
      BY <2>1
    <2> QED BY <1>2, <1>5, <2>2
  <1>13. T = <<>> => n = 0
    BY <1>2
  <1> QED BY <1>1, <1>2, <1>10, <1>11, <1>12, <1>13

\* What the assembler holds comes before the rest of the frames.
LEMMA RestAssembling ==
    ASSUME Streaming, NEW F \in Seq(Frame), F # <<>>, SoundFrames(F), Assembling(F),
           asm' = Push(asm, F[1]).asm, srv' = srv, sent' = sent
    PROVE  Assembling(Tail(F))'
  <1>1. PICK T : T = Tail(F)
    OBVIOUS
  <1>2. PICK fr, r : fr = F[1] /\ r = Push(asm, fr)
    OBVIOUS
  <1>3. /\ T \in Seq(Frame)
        /\ \A i \in 1..Len(T) : /\ T[i] \in Frame
                                /\ ~Precedes(T[i], fr) /\ (fr.done => Precedes(fr, T[i]))
        /\ T # <<>> => Follows(fr, T[1])
    BY <1>1, <1>2, RestFrames
  <1>4. /\ fr \in Frame /\ SoundFrame(fr) /\ r.err \in BOOLEAN
        /\ r.err => /\ srv.huge /\ asm.cur # None /\ fr.done
                    /\ r.asm = asm /\ r.pkt = None
        /\ ~r.err /\ fr.done =>
              /\ r.pkt # None /\ SoundPacket(r.pkt)
              /\ r.pkt.s = fr.s /\ r.pkt.m = fr.m /\ r.pkt.kind = fr.kind
              /\ r.asm = [s |-> fr.s, m |-> fr.m + 1, cur |-> None]
        /\ ~r.err /\ ~fr.done =>
              /\ r.pkt = None
              /\ \E p \in Packet :
                    /\ r.asm = [s |-> fr.s, m |-> fr.m, cur |-> p]
                    /\ p.s = fr.s /\ p.m = fr.m /\ p.kind = "MESSAGE" /\ p.control = FALSE
                    /\ p.data = Text(fr.s, fr.m, Part(fr)) /\ Part(fr) \in 1..MaxPacket
    <2>1. Pushed(fr, r)
      BY <1>2, PushRight
    <2> QED BY ONLY <2>1, Zenon DEF Pushed
  <1>5. fr.s \in Nat \ {0} /\ fr.m \in Nat /\ fr.done \in BOOLEAN /\ srv.s \in Nat /\ srv.m \in Nat
    BY <1>4, ServerTypes DEF Frame
  <1>6. asm' = r.asm
    BY <1>2
  <1>7. ~Precedes(srv, fr)
    BY <1>4 DEF SoundFrame
  <1>8. \A i \in 1..Len(T) : T[i].s \in Nat /\ T[i].m \in Nat
    BY <1>3 DEF Frame
  <1>9. T # <<>> => 1 \in 1..Len(T)
    BY <1>3
  <1>10. CASE r.err
    <2>1. asm' = asm /\ asm.cur # None /\ fr.done
      BY <1>4, <1>6, <1>10
    <2>2. /\ asm.s \in Nat \ {0} /\ asm.m \in Nat /\ ~Precedes(fr, asm)
          /\ \/ asm.s < srv.s \/ (asm.s = srv.s /\ asm.m <= srv.m + 1)
             \/ srv.s = 0 /\ asm.s = 1 /\ asm.m = 1
      <3>1. 1 \in 1..Len(F)
        OBVIOUS
      <3> QED BY <1>2, <3>1 DEF Assembling
    <2>3. /\ asm.cur \in Packet /\ asm.cur.s = asm.s /\ asm.cur.m = asm.m
          /\ asm.cur.kind = "MESSAGE" /\ asm.cur.control = FALSE
          /\ ~Precedes(srv, asm)
          /\ \E c \in 1..MaxPacket : asm.cur.data = Text(asm.s, asm.m, c)
      BY <2>1 DEF Assembling
    <2>4. \A i \in 1..Len(T) : Precedes(asm, T[i]) /\ ~Precedes(T[i], asm)
      <3> SUFFICES ASSUME NEW i \in 1..Len(T) PROVE Precedes(asm, T[i]) /\ ~Precedes(T[i], asm)
        BY Zenon
      <3>1. Precedes(fr, T[i]) /\ T[i].s \in Nat /\ T[i].m \in Nat
        BY <1>3, <1>8, <2>1
      <3>2. fr.s \in Nat /\ fr.m \in Nat /\ asm.s \in Nat /\ asm.m \in Nat /\ ~Precedes(fr, asm)
        BY ONLY <1>5, <2>2
      <3>3. id_less(fr.s, fr.m, T[i].s, T[i].m) /\ ~id_less(fr.s, fr.m, asm.s, asm.m)
        BY ONLY <3>1, <3>2 DEF Precedes
      <3>4. id_less(asm.s, asm.m, T[i].s, T[i].m) /\ ~id_less(T[i].s, T[i].m, asm.s, asm.m)
        <4>1. PICK s1 \in Nat, m1 \in Nat, s2 \in Nat, m2 \in Nat, s3 \in Nat, m3 \in Nat :
                 s1 = asm.s /\ m1 = asm.m /\ s2 = fr.s /\ m2 = fr.m /\ s3 = T[i].s /\ m3 = T[i].m
          BY ONLY <3>1, <3>2, Zenon
        <4>2. ~(s2 < s1 \/ (s2 = s1 /\ m2 < m1)) /\ (s2 < s3 \/ (s2 = s3 /\ m2 < m3))
          BY ONLY <3>3, <4>1, Zenon DEF id_less
        <4>3. (s1 < s3 \/ (s1 = s3 /\ m1 < m3)) /\ ~(s3 < s1 \/ (s3 = s1 /\ m3 < m1))
          BY ONLY s1 \in Nat, m1 \in Nat, s2 \in Nat, m2 \in Nat, s3 \in Nat, m3 \in Nat, <4>2
        <4> QED BY ONLY <4>1, <4>3, Zenon DEF id_less
      <3> QED BY ONLY <3>4 DEF Precedes
    <2>5. T # <<>> => Part(T[1]) <= 1
      BY <1>3, <2>1 DEF Follows
    <2>6. \A c : T # <<>> => Continues(T[1], c)
      BY <1>9, <2>4, <2>5 DEF Continues
    <2>7. Assembling(T)
      BY <2>1, <2>2, <2>3, <2>4, <2>6 DEF Assembling
    <2>8. Assembling(T)'
      BY <2>1, <2>7 DEF Assembling, Continues, Precedes
    <2> QED BY <1>1, <2>8
  <1>11. CASE ~r.err /\ fr.done
    <2>1. asm' = [s |-> fr.s, m |-> fr.m + 1, cur |-> None]
      BY <1>4, <1>6, <1>11
    <2>2. asm'.s = fr.s /\ asm'.m = fr.m + 1 /\ asm'.cur = None
      BY ONLY <2>1
    <2>3. fr.s < srv.s \/ (fr.s = srv.s /\ fr.m + 1 <= srv.m + 1)
      BY <1>5, <1>7 DEF Precedes, id_less
    <2>4. \A i \in 1..Len(T) : ~id_less(T[i].s, T[i].m, fr.s, fr.m + 1)
      BY <1>3, <1>5, <1>8, <1>11 DEF Precedes, id_less
    <2>5. T # <<>> => Part(T[1]) <= 1
      BY <1>3, <1>11 DEF Follows
    <2>6. asm'.s \in Nat \ {0} /\ asm'.m \in Nat
      BY <1>5, <2>2
    <2>7. \A i \in 1..Len(T) : ~Precedes(T[i], asm')
      BY <2>2, <2>4 DEF Precedes
    <2>8. asm'.s < srv.s \/ (asm'.s = srv.s /\ asm'.m <= srv.m + 1)
      BY <2>2, <2>3
    <2>9. Assembling(T)'
      BY <2>2, <2>5, <2>6, <2>7, <2>8 DEF Assembling, Precedes
    <2> QED BY <1>1, <2>9
  <1>12. CASE ~r.err /\ ~fr.done
    <2>1. PICK p \in Packet :
             /\ asm' = [s |-> fr.s, m |-> fr.m, cur |-> p]
             /\ p.s = fr.s /\ p.m = fr.m /\ p.kind = "MESSAGE" /\ p.control = FALSE
             /\ p.data = Text(fr.s, fr.m, Part(fr)) /\ Part(fr) \in 1..MaxPacket
      BY <1>4, <1>6, <1>12
    <2>2. asm'.s = fr.s /\ asm'.m = fr.m /\ asm'.cur = p
      BY ONLY <2>1
    <2>3. fr.s < srv.s \/ (fr.s = srv.s /\ fr.m <= srv.m + 1)
      BY <1>5, <1>7 DEF Precedes, id_less
    <2>4. \A i \in 1..Len(T) : ~Precedes(T[i], asm')
      BY <1>3, <2>2 DEF Precedes
    <2>5. ~Precedes(srv, asm')
      BY <1>7, <2>2 DEF Precedes
    <2>6. PICK c \in 1..MaxPacket : c = Part(fr)
      BY <2>1
    <2>7. T # <<>> => \/ Precedes(fr, T[1]) /\ Part(T[1]) <= 1
                      \/ T[1].kind = "MESSAGE" /\ T[1].s = fr.s /\ T[1].m = fr.m /\ Part(T[1]) = c + 1
      BY <1>3, <2>6 DEF Follows
    <2>8. T # <<>> => Continues(T[1], c)'
      BY <2>2, <2>7 DEF Continues, Precedes
    <2>9. p.data = Text(fr.s, fr.m, c)
      BY <2>1, <2>6
    <2>10. asm'.cur # None => /\ asm'.cur \in Packet /\ asm'.cur.s = asm'.s /\ asm'.cur.m = asm'.m
                              /\ asm'.cur.kind = "MESSAGE" /\ asm'.cur.control = FALSE
                              /\ asm'.cur.data = Text(asm'.s, asm'.m, c)
      BY <2>1, <2>2, <2>9
    <2>11. asm'.cur # None
      BY <2>2, NotNone
    <2>12. asm'.s \in Nat \ {0} /\ asm'.m \in Nat /\ (asm'.s < srv.s \/ (asm'.s = srv.s /\ asm'.m <= srv.m + 1))
      BY <1>5, <2>2, <2>3
    <2>13. Assembling(T)'
      BY <2>4, <2>5, <2>8, <2>10, <2>11, <2>12 DEF Assembling, Precedes
    <2> QED BY <1>1, <2>13
  <1> QED BY <1>4, <1>5, <1>10, <1>11, <1>12

\* The rest of the frames ends as all of them did.
LEMMA RestCut ==
    ASSUME Streaming, NEW F \in Seq(Frame), F # <<>>, SoundFrames(F), Assembling(F), CutShows(F),
           asm' = Push(asm, F[1]).asm, srv' = srv, sent' = sent,
           Len(buf') + Len(down') = Len(buf) + Len(down) - 2, Len(buf) + Len(down) \in Nat
    PROVE  CutShows(Tail(F))'
  <1>1. PICK T : T = Tail(F)
    OBVIOUS
  <1>2. PICK fr, r : fr = F[1] /\ r = Push(asm, fr)
    OBVIOUS
  <1>3. /\ T \in Seq(Frame) /\ Len(T) = Len(F) - 1
        /\ T # <<>> => T[Len(T)] = F[Len(F)]
        /\ T = <<>> => F[Len(F)] = fr
    BY <1>1, <1>2, RestFrames
  <1>4. /\ fr \in Frame /\ r.err \in BOOLEAN
        /\ r.err => srv.huge /\ asm.cur # None /\ fr.done /\ r.asm = asm
        /\ ~r.err /\ fr.done => r.asm = [s |-> fr.s, m |-> fr.m + 1, cur |-> None]
        /\ ~r.err /\ ~fr.done => \E p \in Packet : r.asm = [s |-> fr.s, m |-> fr.m, cur |-> p]
    <2>1. Pushed(fr, r)
      BY <1>2, PushRight
    <2> QED BY ONLY <2>1, Zenon DEF Pushed
  <1>5. fr.done \in BOOLEAN /\ srv.cut \in {0, 1} /\ asm' = r.asm
    BY <1>2, <1>4, ServerTypes DEF Frame
  <1>6. r.err => srv.huge /\ asm'.cur # None /\ fr.done
    BY <1>4, <1>5
  <1>7. ~r.err /\ fr.done => asm'.cur = None
    BY <1>4, <1>5
  <1>8. ~r.err /\ ~fr.done => asm'.cur # None
    <2> SUFFICES ASSUME ~r.err /\ ~fr.done PROVE asm'.cur # None
      OBVIOUS
    <2>1. PICK p \in Packet : asm' = [s |-> fr.s, m |-> fr.m, cur |-> p]
      BY <1>4, <1>5
    <2>2. asm'.cur = p
      BY ONLY <2>1
    <2> QED BY <2>2, NotNone
  <1>9. PICK n \in Nat, l \in Nat : n = Len(F) /\ l = Len(buf) + Len(down) /\ Len(T) = n - 1 /\ n >= 1
    BY <1>3
  <1>10. (Len(buf') + Len(down') = 2 * Len(T) + 1) = (l = 2 * n + 1)
    BY <1>9
  <1>11. /\ srv.cut = 0 => F[n].done
         /\ srv.cut = 1 => l = 2 * n + 1 \/ ~F[n].done
         /\ l = 2 * n + 1 => srv.gone /\ srv.cut = 1
    BY <1>9 DEF CutShows
  <1>12. /\ T # <<>> => (srv.cut = 0 => T[Len(T)].done)
         /\ asm'.cur # None /\ T = <<>> => srv.cut = 1 \/ srv.huge
         /\ srv.cut = 1 => l = 2 * n + 1 \/ (T # <<>> /\ ~T[Len(T)].done) \/ (T = <<>> /\ asm'.cur # None)
    BY <1>3, <1>5, <1>6, <1>7, <1>8, <1>9, <1>11
  <1>13. CutShows(T)'
    BY <1>10, <1>11, <1>12 DEF CutShows
  <1> QED BY <1>1, <1>13

-----------------------------------------------------------------------------
(* The call *)

\* A call goes on, or returns.
Control ==
    /\ next' = next /\ calls' = calls
    /\ op' # None => op'.s = op.s
    /\ op' = None /\ stream' # None => stream'.s = op.s
    /\ Probing'

\* The next await is of the same stream.
LEMMA StepDoneControl ==
    ASSUME WireInv, Streaming, op # None, NEW mid \in Nat, StepDone(mid)
    PROVE  Control /\ (last' = last \/ last' = [call |-> op.call, s |-> op.s, outcome |-> "ok"])
  <1>1. CASE Len(op.todo) = 1
    <2>1. /\ op' = None /\ next' = next /\ calls' = calls
          /\ last' = [call |-> op.call, s |-> op.s, outcome |-> "ok"]
          /\ stream' = None \/ stream' = [s |-> op.s, mid |-> mid]
      BY <1>1 DEF StepDone
    <2>2. stream' # None => stream'.s = op.s
      BY <2>1
    <2> QED BY <2>1, <2>2 DEF Control, Probing
  <1>2. CASE Len(op.todo) # 1
    <2>1. op' = [op EXCEPT !.todo = Tail(@), !.mid = mid, !.off = 0] /\ next' = next /\ calls' = calls
          /\ stream' = stream /\ last' = last
      BY <1>2 DEF StepDone
    <2>2. /\ op \in [call : Calls, s : Nat, mid : Nat, todo : Seq(StepKinds), off : Nat, was : BOOLEAN]
          /\ op.todo # <<>>
      BY DEF WireInv, WireTypeOK
    <2>3. op'.call = op.call /\ op'.s = op.s /\ op'.todo = Tail(op.todo)
      BY ONLY <2>1, <2>2
    <2>4. PICK todo \in Seq(StepKinds) : todo = op.todo /\ todo # <<>>
      BY <2>2
    <2>5. PICK n \in Nat : Len(todo) = n + 1
      <3>1. Len(todo) \in Nat /\ Len(todo) # 0
        BY <2>4
      <3>2. Len(todo) - 1 \in Nat /\ Len(todo) = (Len(todo) - 1) + 1
        BY <3>1
      <3> QED BY <3>2
    <2>6. Len(Tail(todo)) = n /\ \A i \in 1..n : Tail(todo)[i] = todo[i + 1] /\ i + 1 \in 1..(n + 1)
      BY <2>4, <2>5
    <2>7. \A i \in 1..(n + 1) : todo[i] = "drain" => op.call = "send"
      BY <2>4, <2>5 DEF Streaming, Probing
    <2>8. Probing'
      BY <2>3, <2>4, <2>6, <2>7 DEF Probing
    <2>9. op' # None
      <3>1. Tail(op.todo) \in Seq(StepKinds)
        BY <2>2
      <3>2. op' \in [call : Calls, s : Nat, mid : Nat, todo : Seq(StepKinds), off : Nat, was : BOOLEAN]
        BY <2>1, <2>2, <3>1
      <3> QED BY ONLY <3>2, ConnAssumption, Zenon
    <2> QED BY <2>1, <2>3, <2>8, <2>9 DEF Control
  <1> QED BY <1>1, <1>2

\* A call that returns leaves no stream but its own.
LEMMA ReturnControl ==
    ASSUME op # None, NEW outcome, NEW p, Return(outcome, p), outcome # "ok"
    PROVE  /\ Control /\ op' = None /\ stream' = None
           /\ last' = [call |-> op.call, s |-> op.s, outcome |-> outcome]
  BY DEF Return, Control, Probing

\* The server has sent what it had.
SameServer ==
    /\ srv'.s = srv.s /\ srv'.m = srv.m /\ srv'.ended = srv.ended
    /\ srv'.huge = srv.huge /\ srv'.gone = srv.gone /\ srv'.cut = srv.cut

\* A step of a call keeps to its stream.
LEMMA StreamingMoves ==
    ASSUME Streaming, op # None, Control, SameServer, srv'.seen \subseteq srv.seen \cup {op.s}
    PROVE  Streaming'
  <1>1. op.s = Cur /\ next \in Nat /\ next > 1 /\ next' = next
    BY DEF Streaming, Control, Live
  <1>2. op.s \in 1..(next - 1)
    BY <1>1 DEF Cur
  <1>3. srv'.seen \subseteq 1..(next' - 1)
    BY <1>1, <1>2 DEF Streaming
  <1> QED BY <1>1, <1>3 DEF Streaming, Control, SameServer, Live, Cur

\* So does one that leaves the server alone.
LEMMA StreamingKept ==
    ASSUME Streaming, op # None, Control, srv' = srv
    PROVE  Streaming'
  BY StreamingMoves DEF SameServer

\* The stream in use is one there can be.
LEMMA CurStream ==
    ASSUME Streaming, Live
    PROVE  Cur \in Streams /\ Cur \in Nat \ {0} /\ Cur + 1 = next /\ srv.s <= Cur
  <1>1. PICK b \in Budgets \cup {NoCall, OneCall} : next + calls.left <= b.calls + 1
    BY DEF Streaming
  <1>2. next \in Nat /\ next > 1 /\ calls.left \in Nat /\ srv.s \in Nat /\ srv.s < next
    BY DEF Streaming
  <1>3. b.calls \in Nat
    BY <1>1, ConnAssumption DEF NoCall, OneCall
  <1>4. next - 1 \in 1..b.calls
    BY <1>1, <1>2, <1>3
  <1>5. b # NoCall
    <2>1. NoCall.calls = 0
      BY DEF NoCall
    <2> QED BY <1>2, <1>4, <2>1
  <1>6. next - 1 \in Streams
    <2>1. b \in Budgets \cup {OneCall}
      BY <1>1, <1>5
    <2> QED BY <1>4, <2>1 DEF Streams
  <1> QED BY <1>2, <1>6 DEF Cur

\* A call that goes on, or ends well, says nothing new.
LEMMA LastMoves ==
    ASSUME Streaming, LastRight, op # None, Control, SameServer, sent' = sent,
           \A x \in Streams : x # Cur => got'[x] = got[x],
           last' = last \/ last'.outcome \notin {"closed", "truncated", "frame", "unexpected"}
    PROVE  LastRight'
  <1>1. CASE last' = last
    <2>1. Live /\ next' = next /\ Cur \in Nat
      BY CurStream DEF Live, Control
    <2>2. ASSUME last.call \in {"recv", "invoke"} /\ last.outcome = "closed"
          PROVE  last.s \in Streams /\ last.s < next /\ last.s < Cur /\ got'[last.s] = got[last.s]
      <3>1. last.s \in Streams /\ last.s < next /\ last.s < Cur
        BY <2>1, <2>2 DEF LastRight
      <3>2. last.s # Cur
        BY <2>1, <3>1
      <3> QED BY <3>1, <3>2
    <2> QED BY <1>1, <2>1, <2>2 DEF LastRight, Cur, SameServer
  <1>2. CASE last'.outcome \notin {"closed", "truncated", "frame", "unexpected"}
    BY <1>2 DEF LastRight
  <1> QED BY <1>1, <1>2

\* An outcome that says nothing of what was read is right.
LEMMA LastKept ==
    ASSUME Streaming, LastRight, op # None, Control, srv' = srv, sent' = sent,
           \A x \in Streams : x # Cur => got'[x] = got[x],
           last' = last \/ last'.outcome \notin {"closed", "truncated", "frame", "unexpected"}
    PROVE  LastRight'
  BY LastMoves DEF SameServer

-----------------------------------------------------------------------------
(* The packet a call reads *)

\* Packet p comes before the queue Q and the frames F, and nothing of the
\* stream in use is missing from them.
NextPacket(p, Q, F) ==
    /\ SoundPacket(p) /\ p.s <= Cur
    /\ \A j \in 1..Len(sent[Cur]) : j > Len(got[Cur]) =>
          \/ p.s = Cur /\ p.kind = "MESSAGE" /\ p.m = sent[Cur][j][2]
          \/ InQueue(Q, Cur, sent[Cur][j][2]) \/ InFrames(F, Cur, sent[Cur][j][2])
    /\ \A j \in 1..Len(got[Cur]) :
          /\ p.s = Cur => sent[Cur][j][2] < p.m
          /\ \A i \in 1..Len(Q) : Q[i].s = Cur => sent[Cur][j][2] < Q[i].m
          /\ \A i \in 1..Len(F) : F[i].s = Cur => sent[Cur][j][2] < F[i].m
    /\ p.s = Cur => /\ \A i \in 1..Len(Q) : Q[i].s = Cur => p.m < Q[i].m
                    /\ \A i \in 1..Len(F) : F[i].s = Cur => p.m < F[i].m

\* The message a stream delivers is the next one it was sent.
LEMMA DeliverRight ==
    ASSUME Streaming, SentRight, GotRight, op # None, Control, sent' = sent,
           NEW Q \in Seq(Packet), NEW F \in Seq(Frame), NEW p, NextPacket(p, Q, F), pending' = Q,
           p.s = Cur, p.kind = "MESSAGE", got' = [got EXCEPT ![Cur] = Append(@, p.data)]
    PROVE  GotRight' /\ Complete(F)'
  <1>1. PICK c \in Streams : c = Cur
    <2>1. Cur \in Streams
      BY CurStream DEF Live
    <2> QED BY ONLY <2>1, Zenon
  <1>2. PICK S \in Seq(Nat \X Nat) : S = sent[c]
    <2>1. sent[c] \in Seq(Nat \X Nat)
      BY <1>1 DEF SentRight
    <2> QED BY ONLY <2>1, Zenon
  <1>3. PICK G \in Seq(Seq(Payload)) : G = got[c]
    <2>1. got[c] \in Seq(Seq(Payload))
      BY <1>1 DEF GotRight
    <2> QED BY ONLY <2>1, Zenon
  <1>4. PICK ls \in Nat, lg \in Nat : ls = Len(S) /\ lg = Len(G) /\ lg <= ls
    BY <1>1, <1>2, <1>3 DEF GotRight
  <1>5. /\ \A i \in 1..lg : G[i] = Text(c, S[i][2], S[i][1])
        /\ \A i, j \in 1..ls : i < j => S[i][2] < S[j][2]
    <2>1. \A i \in 1..Len(got[c]) : got[c][i] = Text(c, sent[c][i][2], sent[c][i][1])
      BY <1>1 DEF GotRight
    <2>2. \A i, j \in 1..Len(sent[c]) : i < j => sent[c][i][2] < sent[c][j][2]
      BY <1>1 DEF SentRight
    <2> QED BY ONLY <1>2, <1>3, <1>4, <2>1, <2>2, Zenon
  <1>6. p \in Packet /\ p.m \in Nat /\ p.data \in Seq(Payload)
    BY DEF NextPacket, SoundPacket, Packet
  <1>7. \A i \in 1..ls : S[i][1] \in Nat /\ S[i][2] \in Nat
    <2>1. \A i \in 1..Len(S) : S[i][1] \in Nat /\ S[i][2] \in Nat
      BY ONLY S \in Seq(Nat \X Nat)
    <2> QED BY ONLY <1>4, <2>1, Zenon
  <1>8. /\ \A j \in 1..ls : j > lg => \/ p.m = S[j][2]
                                      \/ InQueue(Q, c, S[j][2]) \/ InFrames(F, c, S[j][2])
        /\ \A j \in 1..lg : /\ S[j][2] < p.m
                            /\ \A i \in 1..Len(Q) : Q[i].s = c => S[j][2] < Q[i].m
                            /\ \A i \in 1..Len(F) : F[i].s = c => S[j][2] < F[i].m
        /\ \A i \in 1..Len(Q) : Q[i].s = c => p.m < Q[i].m
        /\ \A i \in 1..Len(F) : F[i].s = c => p.m < F[i].m
    BY <1>1, <1>2, <1>3, <1>4 DEF NextPacket
  <1>9. PICK j \in 1..ls : S[j][2] = p.m /\ S[j][1] = Len(p.data)
    <2>1. \E j \in 1..Len(sent[p.s]) : sent[p.s][j] = <<Len(p.data), p.m>>
      BY DEF NextPacket, SoundPacket, Sound
    <2>2. PICK j \in 1..ls : S[j] = <<Len(p.data), p.m>>
      BY <1>1, <1>2, <1>4, <2>1
    <2>3. S[j][2] = p.m /\ S[j][1] = Len(p.data)
      BY ONLY <2>2
    <2> QED BY <2>3
  <1>10. ~(j <= lg)
    <2> SUFFICES ASSUME j <= lg PROVE FALSE
      OBVIOUS
    <2>1. j \in 1..lg
      BY <1>4
    <2>2. S[j][2] < p.m
      BY <1>8, <2>1
    <2> QED BY ONLY <1>6, <1>9, <2>2
  <1>11. j = lg + 1
    <2> SUFFICES ASSUME j # lg + 1 PROVE FALSE
      OBVIOUS
    <2>1. PICK k \in 1..ls : k = lg + 1 /\ k < j /\ k > lg
      <3>1. lg + 1 \in 1..ls /\ lg + 1 < j /\ lg + 1 > lg
        BY ONLY ls \in Nat, lg \in Nat, j \in 1..ls, <1>10, j # lg + 1
      <3> QED BY <3>1
    <2>2. S[k][2] < p.m /\ S[k][2] \in Nat
      BY <1>5, <1>7, <1>9, <2>1
    <2>3. p.m # S[k][2]
      BY ONLY <1>6, <2>2
    <2>4. InQueue(Q, c, S[k][2]) \/ InFrames(F, c, S[k][2])
      BY <1>8, <2>1, <2>3
    <2>5. p.m < S[k][2]
      BY <1>8, <2>4 DEF InQueue, InFrames
    <2> QED BY ONLY <1>6, <2>2, <2>5
  <1>12. PICK H \in Seq(Seq(Payload)) : H = Append(G, p.data)
    <2>1. Append(G, p.data) \in Seq(Seq(Payload))
      BY <1>6
    <2> QED BY ONLY <2>1, Zenon
  <1>13. Len(H) = lg + 1 /\ (\A i \in 1..lg : H[i] = G[i]) /\ H[lg + 1] = p.data
    BY <1>4, <1>6, <1>12
  <1>14. got' = [got EXCEPT ![c] = H]
    BY ONLY got' = [got EXCEPT ![Cur] = Append(@, p.data)], <1>1, <1>3, <1>12, Zenon
  <1>15. /\ got' \in [Streams -> Seq(Seq(Payload))]
         /\ got'[c] = H /\ \A s \in Streams : s # c => got'[s] = got[s]
    BY <1>14 DEF GotRight
  <1>16. p.data = Text(c, p.m, Len(p.data))
    BY <1>1 DEF NextPacket, SoundPacket
  <1>17. lg + 1 <= ls
    BY <1>4, <1>11
  <1>18. ASSUME NEW i \in 1..(lg + 1) PROVE H[i] = Text(c, S[i][2], S[i][1])
    <2>1. CASE i = lg + 1
      <3>1. H[i] = p.data /\ S[i][2] = p.m /\ S[i][1] = Len(p.data)
        BY <1>9, <1>11, <1>13, <2>1
      <3> QED BY ONLY <1>16, <3>1, Zenon
    <2>2. CASE i # lg + 1
      <3>1. i \in 1..lg
        BY <2>2
      <3> QED BY <1>5, <1>13, <3>1
    <2> QED BY <2>1, <2>2
  <1>19. ASSUME NEW s \in Streams
         PROVE  /\ Len(got'[s]) <= Len(sent'[s])
                /\ \A i \in 1..Len(got'[s]) : got'[s][i] = Text(s, sent'[s][i][2], sent'[s][i][1])
    <2>1. CASE s = c
      BY <1>2, <1>4, <1>13, <1>15, <1>17, <1>18, <2>1
    <2>2. CASE s # c
      BY <1>15, <2>2 DEF GotRight
    <2> QED BY <2>1, <2>2
  <1>20. GotRight'
    BY <1>15, <1>19 DEF GotRight
  <1>21. ASSUME NEW k \in 1..ls, k > lg + 1
         PROVE  InQueue(Q, c, S[k][2]) \/ InFrames(F, c, S[k][2])
    <2>1. k > lg /\ lg + 1 < k /\ lg + 1 \in 1..ls
      BY ONLY ls \in Nat, lg \in Nat, <1>17, <1>21
    <2>2. S[lg + 1][2] < S[k][2]
      BY <1>5, <2>1
    <2>3. p.m # S[k][2]
      BY <1>7, <1>9, <1>11, <2>2
    <2> QED BY <1>8, <2>1, <2>3
  <1>22. ASSUME NEW k \in 1..(lg + 1)
         PROVE  /\ \A i \in 1..Len(Q) : Q[i].s = c => S[k][2] < Q[i].m
                /\ \A i \in 1..Len(F) : F[i].s = c => S[k][2] < F[i].m
    <2>1. CASE k = lg + 1
      BY <1>8, <1>9, <1>11, <2>1
    <2>2. CASE k # lg + 1
      <3>1. k \in 1..lg
        BY <2>2
      <3> QED BY <1>8, <3>1
    <2> QED BY <2>1, <2>2
  <1>23. Cur' = c
    BY <1>1 DEF Cur, Control
  <1>24. Complete(F)'
    BY <1>2, <1>4, <1>13, <1>15, <1>21, <1>22, <1>23 DEF Complete
  <1> QED BY <1>20, <1>24

\* What the next packet means to the call that reads it.
LEMMA MeaningRight ==
    ASSUME Streaming, op # None, NEW Q, NEW F, NEW p, NextPacket(p, Q, F)
    PROVE  \/ Meaning(p) = "skip" /\ ~(p.s = Cur /\ p.kind = "MESSAGE")
           \/ Meaning(p) = "deliver" /\ p.s = Cur /\ p.kind = "MESSAGE"
           \/ Meaning(p) = "remote"
           \/ Meaning(p) = "closed" /\ p.s = Cur /\ p.kind \in Ends
  <1>1. op.s = Cur /\ Cur \in Nat
    BY CurStream DEF Streaming, Live
  <1>2. p.s \in Nat /\ p.s <= Cur /\ p.kind \in AnswerKinds /\ p.control = (p.kind = "PING")
    BY DEF NextPacket, SoundPacket, Sound, Packet
  <1>3. CASE p.s < Cur
    <2>1. p.s # Cur /\ ~(p.s > Cur)
      BY <1>1, <1>2, <1>3
    <2> QED BY <1>1, <1>3, <2>1 DEF Meaning
  <1>4. CASE p.s = Cur
    <2>1. ~(p.s < op.s) /\ ~(p.s > op.s) /\ p.s = op.s
      BY <1>1, <1>4
    <2>2. p.kind \in {"MESSAGE", "ERROR", "CLOSE", "CLOSE_SEND", "PING"}
      BY <1>2 DEF AnswerKinds
    <2>3. CASE p.kind = "MESSAGE"
      BY <1>4, <2>1, <2>3 DEF Meaning
    <2>4. CASE p.kind = "ERROR"
      BY <1>4, <2>1, <2>4 DEF Meaning
    <2>5. CASE p.kind \in {"CLOSE", "CLOSE_SEND"}
      BY <1>4, <2>1, <2>5 DEF Meaning, Ends
    <2>6. CASE p.kind = "PING"
      BY <1>2, <1>4, <2>1, <2>6 DEF Meaning
    <2> QED BY <2>2, <2>3, <2>4, <2>5, <2>6
  <1>5. p.s < Cur \/ p.s = Cur
    BY <1>1, <1>2
  <1> QED BY <1>3, <1>4, <1>5

\* recv_msg and invoke on the next packet.
LEMMA HandleRight ==
    ASSUME WireInv, Streaming, LastRight, SentRight, GotRight, op # None, sent' = sent, srv' = srv,
           NEW Q \in Seq(Packet), NEW F \in Seq(Frame), NEW p, NextPacket(p, Q, F), pending' = Q, Handle(p)
    PROVE  Streaming' /\ LastRight' /\ GotRight' /\ Complete(F)'
  <1>1. op.s = Cur /\ Cur \in Streams /\ op.mid \in Nat /\ Live
    BY CurStream DEF Streaming, Live, WireInv, WireTypeOK
  <1>2. CASE Meaning(p) = "skip" /\ ~(p.s = Cur /\ p.kind = "MESSAGE")
    <2>1. UNCHANGED <<op, stream, next, poisoned, calls, last, got>>
      BY <1>2 DEF Handle
    <2>2. Control
      BY <1>1, <2>1 DEF Control, Streaming, Probing
    <2>3. Streaming' /\ LastRight'
      BY <2>1, <2>2, StreamingKept, LastKept
    <2>4. GotRight'
      BY <2>1 DEF GotRight
    <2>5. Complete(F)'
      BY <1>2, <2>1 DEF Complete, NextPacket, Live, Cur
    <2> QED BY <2>3, <2>4, <2>5
  <1>3. CASE Meaning(p) = "deliver" /\ p.s = Cur /\ p.kind = "MESSAGE"
    <2>1. got' = [got EXCEPT ![Cur] = Append(@, p.data)] /\ StepDone(op.mid)
      BY <1>1, <1>3 DEF Handle
    <2>2. Control /\ (last' = last \/ last' = [call |-> op.call, s |-> op.s, outcome |-> "ok"])
      BY <1>1, <2>1, StepDoneControl
    <2>3. \A x \in Streams : x # Cur => got'[x] = got[x]
      BY <2>1 DEF GotRight
    <2>4. last' = last \/ last'.outcome \notin {"closed", "truncated", "frame", "unexpected"}
      BY <2>2
    <2>5. Streaming' /\ LastRight'
      BY <2>2, <2>3, <2>4, StreamingKept, LastKept
    <2>6. GotRight' /\ Complete(F)'
      BY <1>3, <2>1, <2>2, DeliverRight
    <2> QED BY <2>5, <2>6
  <1>4. ASSUME NEW outcome, outcome \in {"remote", "closed"}, Meaning(p) = outcome
        PROVE  /\ Control /\ op' = None /\ stream' = None /\ got' = got
               /\ last' = [call |-> op.call, s |-> op.s, outcome |-> outcome]
               /\ Streaming' /\ GotRight' /\ Complete(F)'
    <2>1. Return(outcome, poisoned) /\ got' = got
      BY <1>4 DEF Handle
    <2>2. /\ Control /\ op' = None /\ stream' = None
          /\ last' = [call |-> op.call, s |-> op.s, outcome |-> outcome]
      BY <1>4, <2>1, ReturnControl
    <2>3. Streaming' /\ GotRight'
      BY <2>1, <2>2, StreamingKept DEF GotRight
    <2>4. Complete(F)'
      BY <2>2 DEF Complete, Live
    <2> QED BY <2>1, <2>2, <2>3, <2>4
  <1>5. CASE Meaning(p) = "remote"
    <2>1. /\ Control /\ got' = got /\ last'.outcome = "remote"
          /\ Streaming' /\ GotRight' /\ Complete(F)'
      BY <1>4, <1>5
    <2>2. LastRight'
      BY <2>1 DEF LastRight
    <2> QED BY <2>1, <2>2
  <1>6. CASE Meaning(p) = "closed" /\ p.s = Cur /\ p.kind \in Ends
    <2>1. /\ Control /\ op' = None /\ stream' = None /\ got' = got /\ last'.outcome = "closed" /\ last'.s = Cur
          /\ Streaming' /\ GotRight' /\ Complete(F)'
      BY <1>1, <1>4, <1>6
    <2>2. p.s \in srv.ended /\ \A j \in 1..Len(sent[Cur]) : sent[Cur][j][2] < p.m
      BY <1>6 DEF NextPacket, SoundPacket, Sound, Ends
    <2>3. PICK S \in Seq(Nat \X Nat), G \in Seq(Seq(Payload)) : S = sent[Cur] /\ G = got[Cur]
      <3>1. sent[Cur] \in Seq(Nat \X Nat) /\ got[Cur] \in Seq(Seq(Payload))
        BY <1>1 DEF SentRight, GotRight
      <3> QED BY ONLY <3>1, Zenon
    <2>4. PICK ls \in Nat, lg \in Nat : ls = Len(S) /\ lg = Len(G) /\ lg <= ls
      BY <1>1, <2>3 DEF GotRight
    <2>5. p.m \in Nat
      BY DEF NextPacket, SoundPacket, Packet
    <2>6. ASSUME NEW j \in 1..ls, j > lg PROVE FALSE
      <3>1. S[j][2] < p.m /\ S[j][2] \in Nat
        BY <2>2, <2>3, <2>4
      <3>2. p.m # S[j][2]
        BY ONLY <2>5, <3>1
      <3>3. InQueue(Q, Cur, S[j][2]) \/ InFrames(F, Cur, S[j][2])
        BY <2>3, <2>4, <2>6, <3>2 DEF NextPacket
      <3>4. p.m < S[j][2]
        BY <1>6, <3>3 DEF NextPacket, InQueue, InFrames
      <3> QED BY ONLY <2>5, <3>1, <3>4
    <2>7. lg = ls
      <3>1. ~(lg < ls)
        <4> SUFFICES ASSUME lg < ls PROVE FALSE
          OBVIOUS
        <4>1. ls \in 1..ls /\ ls > lg
          BY ONLY ls \in Nat, lg \in Nat, lg < ls
        <4> QED BY <2>6, <4>1
      <3> QED BY ONLY ls \in Nat, lg \in Nat, <2>4, <3>1
    <2>8. Len(got[Cur]) = Len(sent[Cur])
      BY ONLY <2>3, <2>4, <2>7, Zenon
    <2>9. next' = next /\ Cur < next
      BY <1>1, <2>1, CurStream DEF Control
    <2>10. ~Live'
      BY <2>1 DEF Live
    <2>11. LastRight'
      BY <1>1, <1>6, <2>1, <2>2, <2>8, <2>9, <2>10 DEF LastRight
    <2> QED BY <2>1, <2>11
  <1> QED BY <1>2, <1>3, <1>5, <1>6, MeaningRight

-----------------------------------------------------------------------------
(* The steps of a reader *)

\* What is buffered and what is to come are sequences of the same units.
LEMMA WireTypes ==
    ASSUME QueueInv
    PROVE  \E U : buf \in Seq(U) /\ down \in Seq(U)
  <1>1. PICK V : buf \in Seq(V)
    BY DEF QueueInv, IsWire
  <1>2. PICK W : down \in Seq(W)
    BY DEF QueueInv, IsWire
  <1>3. PICK U : U = V \cup W
    OBVIOUS
  <1>4. buf \in Seq(U) /\ down \in Seq(U)
    BY <1>1, <1>2, <1>3
  <1> QED BY ONLY <1>4, Zenon

\* parse_one takes the first frame.
LEMMA ParseArrives ==
    ASSUME QueueInv, Streaming, NEW F \in Seq(Frame), Arriving(F), parse_one,
           srv' = srv, sent' = sent, down' = down
    PROVE  /\ F # <<>> /\ Pushed(F[1], Taken) /\ asm' = Taken.asm
           /\ Tail(F) \in Seq(Frame) /\ Arriving(Tail(F))'
           /\ ~Precedes(F[1], asm) /\ asm.s \in Nat /\ asm.m \in Nat
           /\ \A i \in 1..Len(Tail(F)) : /\ Tail(F)[i] = F[i + 1]
                                         /\ F[1].done => Precedes(F[1], Tail(F)[i])
           /\ Len(F) \in Nat /\ Len(Tail(F)) = Len(F) - 1
  <1>1. PICK U : buf \in Seq(U) /\ down \in Seq(U)
    BY WireTypes
  <1>2. PICK b \in Seq(U), d \in Seq(U) : b = buf /\ d = down
    BY ONLY <1>1, Zenon
  <1>3. Len(b) >= 2
    BY <1>2 DEF parse_one, HasFrame, Parsed
  <1>4. Pipe(b, d, F) /\ SoundFrames(F) /\ Assembling(F) /\ CutShows(F)
    BY <1>2 DEF Arriving
  <1>5. /\ F # <<>> /\ b[1][1] = F[1]
        /\ Pipe(SubSeq(b, 3, Len(b)), d, Tail(F))
        /\ Len(SubSeq(b, 3, Len(b))) = Len(b) - 2
    BY ONLY b \in Seq(U), d \in Seq(U), F \in Seq(Frame), <1>3, <1>4, PipeParse
  <1>6. buf' = SubSeq(b, 3, Len(b)) /\ Taken = Push(asm, F[1]) /\ asm' = Taken.asm /\ down' = d
    BY <1>2, <1>5 DEF parse_one, Taken
  <1>7. Pushed(F[1], Taken)
    <2>1. PICK fr, r : fr = F[1] /\ r = Push(asm, fr)
      OBVIOUS
    <2>2. Pushed(fr, r)
      BY <1>4, <1>5, <2>1, PushRight
    <2> QED BY ONLY <1>6, <2>1, <2>2, Zenon
  <1>8. PICK T : T = Tail(F)
    OBVIOUS
  <1>9. /\ T \in Seq(Frame) /\ Len(T) = Len(F) - 1 /\ SoundFrames(T)'
        /\ \A i \in 1..Len(T) : T[i] = F[i + 1] /\ (F[1].done => Precedes(F[1], T[i]))
    <2>1. F # <<>> /\ SoundFrames(F)
      BY <1>4, <1>5
    <2>2. SoundFrames(T)'
      BY <1>8, <2>1, RestFrames
    <2>3. T \in Seq(Frame) /\ Len(T) = Len(F) - 1
      BY <1>8, <2>1, RestFrames
    <2>4. ASSUME NEW i \in 1..Len(T) PROVE T[i] = F[i + 1] /\ (F[1].done => Precedes(F[1], T[i]))
      <3>1. T[i] = F[i + 1]
        BY <1>8, <2>1, RestFrames
      <3>2. F[1].done => Precedes(F[1], T[i])
        BY <1>8, <2>1, RestFrames
      <3> QED BY <3>1, <3>2
    <2> QED BY <2>2, <2>3, <2>4
  <1>10. asm' = Push(asm, F[1]).asm
    BY ONLY <1>6, Zenon
  <1>11. Assembling(T)'
    BY <1>4, <1>5, <1>8, <1>10, RestAssembling
  <1>12. PICK lb \in Nat, ld \in Nat : lb = Len(buf) /\ ld = Len(down) /\ Len(buf') = lb - 2 /\ Len(down') = ld /\ lb >= 2
    <2>1. PICK x \in Nat, y \in Nat : x = Len(b) /\ y = Len(d)
      BY ONLY b \in Seq(U), d \in Seq(U)
    <2> QED BY ONLY <1>2, <1>3, <1>5, <1>6, <2>1, Zenon
  <1>13. Len(buf') + Len(down') = Len(buf) + Len(down) - 2 /\ Len(buf) + Len(down) \in Nat
    <2>1. (lb - 2) + ld = lb + ld - 2 /\ lb + ld \in Nat
      BY ONLY lb \in Nat, ld \in Nat
    <2> QED BY ONLY <1>12, <2>1, Zenon
  <1>14. CutShows(T)'
    BY <1>4, <1>5, <1>8, <1>10, <1>13, RestCut
  <1>15. Pipe(buf', down', T)
    BY ONLY <1>5, <1>6, <1>8, Zenon
  <1>16. Arriving(T)'
    BY <1>9, <1>11, <1>14, <1>15 DEF Arriving, Pipe, Unit
  <1>17. ~Precedes(F[1], asm) /\ asm.s \in Nat /\ asm.m \in Nat
    <2>1. 1 \in 1..Len(F)
      BY <1>5
    <2> QED BY <1>4, <2>1 DEF Assembling
  <1> QED BY <1>5, <1>6, <1>7, <1>8, <1>9, <1>16, <1>17

\* What is in assembly only moves on.
LEMMA AssemblerMoves ==
    ASSUME NEW fr, NEW r, Pushed(fr, r), ~Precedes(fr, asm), asm.s \in Nat, asm.m \in Nat,
           NEW x, x.s \in Nat, x.m \in Nat, Precedes(x, asm)
    PROVE  Precedes(x, r.asm) /\ Precedes(x, fr)
  <1>1. fr.s \in Nat /\ fr.m \in Nat /\ fr.done \in BOOLEAN /\ r.err \in BOOLEAN
    BY DEF Pushed, Frame
  <1>2. Precedes(x, fr)
    BY <1>1 DEF Precedes, id_less
  <1>3. CASE r.err
    BY <1>2, <1>3 DEF Pushed
  <1>4. CASE ~r.err /\ fr.done
    <2>1. r.asm = [s |-> fr.s, m |-> fr.m + 1, cur |-> None]
      BY <1>4 DEF Pushed
    <2>2. r.asm.s = fr.s /\ r.asm.m = fr.m + 1
      BY ONLY <2>1
    <2> QED BY <1>1, <1>2, <2>2 DEF Precedes, id_less
  <1>5. CASE ~r.err /\ ~fr.done
    <2>1. PICK p : r.asm = [s |-> fr.s, m |-> fr.m, cur |-> p]
      BY <1>5 DEF Pushed
    <2>2. r.asm.s = fr.s /\ r.asm.m = fr.m
      BY ONLY <2>1
    <2> QED BY <1>2, <2>2 DEF Precedes, id_less
  <1> QED BY <1>1, <1>2, <1>3, <1>4, <1>5

\* A frame taken off is missing from the rest of them.
LEMMA FramesSplit ==
    ASSUME NEW F \in Seq(Frame), F # <<>>, NEW T \in Seq(Frame), NEW n \in Nat, Len(F) = n + 1, Len(T) = n,
           \A i \in 1..n : T[i] = F[i + 1], NEW s, NEW m, InFrames(F, s, m)
    PROVE  \/ F[1].s = s /\ F[1].m = m /\ F[1].kind = "MESSAGE" /\ F[1].done
           \/ InFrames(T, s, m)
  <1>1. PICK i \in 1..(n + 1) : F[i].s = s /\ F[i].m = m /\ F[i].kind = "MESSAGE" /\ F[i].done
    BY DEF InFrames
  <1>2. CASE i = 1
    BY <1>1, <1>2
  <1>3. CASE i # 1
    <2>1. PICK k \in 1..n : i = k + 1
      <3>1. i - 1 \in 1..n /\ i = (i - 1) + 1
        BY ONLY n \in Nat, i \in 1..(n + 1), <1>3
      <3> QED BY <3>1
    <2>2. T[k] = F[i]
      BY <2>1
    <2> QED BY <1>1, <2>2 DEF InFrames
  <1> QED BY <1>2, <1>3

\* The packet parsed is the next one when nothing is queued.
LEMMA ParsedNext ==
    ASSUME Streaming, op # None, SentRight, GotRight, pending = <<>>,
           NEW F \in Seq(Frame), F # <<>>, Complete(F), NEW r, Pushed(F[1], r), ~r.err, F[1].done,
           NEW T \in Seq(Frame), NEW n \in Nat, Len(F) = n + 1, Len(T) = n,
           \A i \in 1..n : T[i] = F[i + 1] /\ Precedes(F[1], T[i])
    PROVE  NextPacket(r.pkt, <<>>, T)
  <1>1. PICK p : p = r.pkt
    OBVIOUS
  <1>2. /\ SoundPacket(p) /\ p.s = F[1].s /\ p.m = F[1].m /\ p.kind = F[1].kind
        /\ F[1] \in Frame /\ SoundFrame(F[1])
    BY <1>1 DEF Pushed
  <1>3. F[1].s \in Nat /\ F[1].m \in Nat
    BY <1>2 DEF Frame
  <1>4. Live /\ Cur \in Nat /\ srv.s <= Cur /\ srv.s \in Nat /\ srv.m \in Nat
    BY CurStream, ServerTypes DEF Live
  <1>5. p.s <= Cur
    <2>1. F[1].s <= srv.s
      BY <1>2, <1>3, <1>4 DEF SoundFrame, Precedes, id_less
    <2> QED BY <1>2, <1>3, <1>4, <2>1
  <1>6. PICK S, G : S = sent[Cur] /\ G = got[Cur]
    OBVIOUS
  <1>7. /\ \A j \in 1..Len(S) : j > Len(G) => InQueue(pending, Cur, S[j][2]) \/ InFrames(F, Cur, S[j][2])
        /\ \A j \in 1..Len(G) : \A i \in 1..Len(F) : F[i].s = Cur => S[j][2] < F[i].m
    BY <1>4, <1>6 DEF Complete
  <1>8. \A s, m : ~InQueue(<<>>, s, m)
    BY DEF InQueue
  <1>9. ASSUME NEW j \in 1..Len(S), j > Len(G)
        PROVE  (p.s = Cur /\ p.kind = "MESSAGE" /\ p.m = S[j][2]) \/ InFrames(T, Cur, S[j][2])
    <2>1. InFrames(F, Cur, S[j][2])
      BY <1>7, <1>8, <1>9
    <2> QED BY <1>2, <2>1, FramesSplit
  <1>10. 1 \in 1..Len(F) /\ \A i \in 1..n : i + 1 \in 1..Len(F)
    OBVIOUS
  <1>11. ASSUME NEW j \in 1..Len(G)
         PROVE  (p.s = Cur => S[j][2] < p.m) /\ \A i \in 1..Len(T) : T[i].s = Cur => S[j][2] < T[i].m
    BY <1>2, <1>7, <1>10
  <1>12. p.s = Cur => \A i \in 1..Len(T) : T[i].s = Cur => p.m < T[i].m
    <2>1. \A i \in 1..n : T[i] \in Frame
      OBVIOUS
    <2>2. \A i \in 1..n : T[i].s \in Nat /\ T[i].m \in Nat
      BY <2>1 DEF Frame
    <2> QED BY <1>2, <1>3, <1>4, <2>2 DEF Precedes, id_less
  <1>13. Len(<<>>) = 0
    OBVIOUS
  <1>14. NextPacket(p, <<>>, T)
    BY <1>2, <1>5, <1>6, <1>9, <1>11, <1>12, <1>13 DEF NextPacket
  <1> QED BY <1>1, <1>14

\* A read takes a frame, and perhaps delivers a packet.
LEMMA RecvParsesRight ==
    ASSUME WireInv, QueueInv, ReadInv, RecvParses
    PROVE  ReadInv'
  <1>1. Streaming /\ LastRight /\ SentRight /\ GotRight
    BY DEF ReadInv, Stocks
  <1>2. PICK F \in Seq(Frame) : Arriving(F) /\ Complete(F)
    BY DEF ReadInv
  <1>3. /\ op # None /\ pending = <<>> /\ pending' = <<>> /\ parse_one
        /\ srv' = srv /\ sent' = sent /\ down' = down
    BY DEF RecvParses, serverVars
  <1>4. PICK T \in Seq(Frame) : T = Tail(F) /\ Arriving(T)'
    <2>1. Tail(F) \in Seq(Frame) /\ Arriving(Tail(F))'
      BY <1>1, <1>2, <1>3, ParseArrives
    <2>2. PICK T : T = Tail(F)
      OBVIOUS
    <2> QED BY <2>1, <2>2
  <1>5. PICK r : r = Taken
    OBVIOUS
  <1>6. F # <<>> /\ Pushed(F[1], r)
    BY <1>1, <1>2, <1>3, <1>5, ParseArrives
  <1>7. PICK n \in Nat : /\ Len(F) = n + 1 /\ Len(T) = n
                         /\ \A i \in 1..n : T[i] = F[i + 1] /\ (F[1].done => Precedes(F[1], T[i]))
    <2>1. Len(F) \in Nat /\ Len(F) # 0 /\ Len(T) = Len(F) - 1
      BY <1>4, <1>6
    <2>2. PICK n \in Nat : Len(F) = n + 1 /\ Len(T) = n
      <3>1. Len(F) - 1 \in Nat /\ Len(F) = (Len(F) - 1) + 1
        BY <2>1
      <3> QED BY <2>1, <3>1
    <2>3. \A i \in 1..Len(Tail(F)) : Tail(F)[i] = F[i + 1] /\ (F[1].done => Precedes(F[1], Tail(F)[i]))
      BY <1>1, <1>2, <1>3, ParseArrives
    <2> QED BY <1>4, <2>2, <2>3
  <1>8. SentRight' /\ SoundQueue'
    <2>1. SentRight'
      BY <1>1, <1>3 DEF SentRight
    <2>2. pending' \in Seq(Packet) /\ Len(pending') = 0
      BY <1>3
    <2> QED BY <2>1, <2>2 DEF SoundQueue
  <1>9. F[1].done \in BOOLEAN /\ r.err \in BOOLEAN
    BY <1>6 DEF Pushed, Frame
  <1>10. Streaming' /\ LastRight' /\ GotRight' /\ Complete(T)'
    <2>1. CASE r.err
      <3>1. srv.huge /\ r.pkt = None
        BY <1>6, <2>1 DEF Pushed
      <3>2. Return("frame", poisoned) /\ got' = got
        BY <1>5, <2>1, <3>1 DEF RecvParses
      <3>3. Control /\ op' = None /\ stream' = None /\ last' = [call |-> op.call, s |-> op.s, outcome |-> "frame"]
        BY <1>3, <3>2, ReturnControl
      <3>4. Streaming'
        BY <1>1, <1>3, <3>3, StreamingKept
      <3>5. LastRight'
        BY <1>3, <3>1, <3>3 DEF LastRight
      <3>6. GotRight' /\ Complete(T)'
        BY <1>1, <1>3, <3>2, <3>3 DEF GotRight, Complete, Live
      <3> QED BY <3>4, <3>5, <3>6
    <2>2. CASE ~r.err /\ F[1].done
      <3>1. Handle(r.pkt)
        <4>1. r.pkt # None
          BY <1>6, <2>2 DEF Pushed
        <4> QED BY <1>5, <2>2, <4>1 DEF RecvParses
      <3>2. PICK Q \in Seq(Packet) : Q = <<>>
        <4>1. <<>> \in Seq(Packet)
          OBVIOUS
        <4> QED BY ONLY <4>1, Zenon
      <3>3. NextPacket(r.pkt, <<>>, T)
        BY <1>1, <1>2, <1>3, <1>6, <1>7, <2>2, ParsedNext
      <3>4. NextPacket(r.pkt, Q, T) /\ pending' = Q
        BY ONLY <1>3, <3>2, <3>3, Zenon
      <3> QED BY <1>1, <1>3, <3>1, <3>4, HandleRight
    <2>3. CASE ~r.err /\ ~F[1].done
      <3>1. UNCHANGED <<op, stream, next, poisoned, calls, last, got>>
        <4>1. r.pkt = None
          BY <1>6, <2>3 DEF Pushed
        <4> QED BY <1>5, <2>3, <4>1 DEF RecvParses
      <3>2. Control
        BY <1>1, <1>3, <3>1 DEF Control, Streaming, Probing
      <3>3. Streaming' /\ LastRight'
        BY <1>1, <1>3, <3>1, <3>2, StreamingKept, LastKept
      <3>4. GotRight'
        BY <1>1, <1>3, <3>1 DEF GotRight
      <3>5. \A s, m : InFrames(F, s, m) => InFrames(T, s, m)
        BY <1>6, <1>7, <2>3, FramesSplit
      <3>6. \A i \in 1..Len(T) : i + 1 \in 1..Len(F) /\ T[i] = F[i + 1]
        BY <1>7
      <3>7. Complete(T)
        BY <1>2, <3>5, <3>6 DEF Complete
      <3>8. Complete(T)'
        BY <1>3, <3>1, <3>7 DEF Complete, Live, Cur
      <3> QED BY <3>3, <3>4, <3>8
    <2> QED BY <1>9, <2>1, <2>2, <2>3
  <1> QED BY <1>4, <1>8, <1>10 DEF ReadInv, Stocks

\* What a step that takes no frame keeps.
LEMMA ArrivingMoves ==
    ASSUME NEW F \in Seq(Frame), Arriving(F), SameServer, UNCHANGED <<asm, sent>>, Pipe(buf', down', F),
           Len(buf') + Len(down') = Len(buf) + Len(down)
    PROVE  Arriving(F)'
  <1>1. \A x : SoundFrame(x) => SoundFrame(x)'
    BY DEF SoundFrame, Sound, Precedes, SameServer
  <1>2. SoundFrames(F)'
    BY <1>1 DEF Arriving, SoundFrames
  <1>3. Assembling(F)'
    BY DEF Arriving, Assembling, Continues, Precedes, SameServer
  <1>4. PICK l : l = Len(buf) + Len(down)
    OBVIOUS
  <1>5. CutShows(F)'
    BY <1>4 DEF Arriving, CutShows, SameServer
  <1> QED BY <1>2, <1>3, <1>5 DEF Arriving

\* What is on its way stays when nothing of it is touched.
LEMMA ArrivingKept ==
    ASSUME NEW F \in Seq(Frame), Arriving(F), UNCHANGED <<buf, down, asm, srv, sent>>
    PROVE  Arriving(F)'
  <1>1. Pipe(buf', down', F) /\ SameServer
    BY DEF Arriving, SameServer
  <1> QED BY <1>1, ArrivingMoves

\* A read takes the first packet of the queue.
LEMMA RecvQueuedRight ==
    ASSUME WireInv, ReadInv, RecvQueued
    PROVE  ReadInv'
  <1>1. Streaming /\ LastRight /\ SentRight /\ GotRight /\ SoundQueue
    BY DEF ReadInv, Stocks
  <1>2. PICK F \in Seq(Frame) : Arriving(F) /\ Complete(F)
    BY DEF ReadInv
  <1>3. /\ op # None /\ pending # <<>> /\ pending' = Tail(pending) /\ Handle(Head(pending))
        /\ srv' = srv /\ sent' = sent /\ down' = down /\ buf' = buf /\ asm' = asm
    BY DEF RecvQueued, serverVars
  <1>4. PICK R \in Seq(Packet) : R = pending
    <2>1. pending \in Seq(Packet)
      BY <1>1 DEF SoundQueue
    <2> QED BY ONLY <2>1, Zenon
  <1>5. PICK n \in Nat : Len(R) = n + 1
    <2>1. Len(R) \in Nat /\ Len(R) # 0
      BY <1>3, <1>4
    <2>2. Len(R) - 1 \in Nat /\ Len(R) = (Len(R) - 1) + 1
      BY <2>1
    <2> QED BY <2>2
  <1>6. PICK Q \in Seq(Packet) : Q = Tail(R)
    <2>1. Tail(R) \in Seq(Packet)
      BY <1>3, <1>4
    <2> QED BY ONLY <2>1, Zenon
  <1>7. Len(Q) = n /\ \A i \in 1..n : Q[i] = R[i + 1]
    BY <1>3, <1>4, <1>5, <1>6
  <1>8. PICK p \in Packet : p = R[1] /\ p = Head(pending)
    <2>1. R[1] \in Packet /\ R[1] = Head(pending)
      BY <1>3, <1>4
    <2> QED BY ONLY <2>1, Zenon
  <1>9. /\ \A i \in 1..(n + 1) : SoundPacket(R[i]) /\ Precedes(R[i], asm)
        /\ \A i, j \in 1..(n + 1) : i < j => Precedes(R[i], R[j])
    BY <1>1, <1>4, <1>5 DEF SoundQueue
  <1>10. 1 \in 1..(n + 1) /\ \A i \in 1..n : i + 1 \in 1..(n + 1) /\ 1 < i + 1
    OBVIOUS
  <1>11. SoundPacket(p) /\ Precedes(p, asm) /\ \A i \in 1..n : Precedes(p, Q[i])
    BY <1>7, <1>8, <1>9, <1>10
  <1>12. Live /\ Cur \in Nat \ {0} /\ srv.s <= Cur /\ srv.s \in Nat /\ srv.m \in Nat
    BY <1>1, <1>3, CurStream, ServerTypes DEF Live
  <1>13. p.s \in Nat /\ p.m \in Nat /\ \A i \in 1..n : Q[i].s \in Nat /\ Q[i].m \in Nat
    <2>1. \A i \in 1..n : Q[i] \in Packet
      BY <1>7
    <2> QED BY <2>1 DEF Packet
  <1>14. /\ asm.s \in Nat /\ asm.m \in Nat /\ \A i \in 1..Len(F) : ~Precedes(F[i], asm)
         /\ asm.s <= srv.s \/ asm.s = 1
    <2>1. Assembling(F)
      BY <1>2 DEF Arriving
    <2> QED BY <1>12, <2>1 DEF Assembling
  <1>15. p.s <= Cur
    BY <1>11, <1>12, <1>13, <1>14 DEF Precedes, id_less
  <1>16. ASSUME NEW s, NEW m, InQueue(pending, s, m)
         PROVE  (p.s = s /\ p.kind = "MESSAGE" /\ p.m = m) \/ InQueue(Q, s, m)
    <2>1. PICK i \in 1..(n + 1) : R[i].s = s /\ R[i].m = m /\ R[i].kind = "MESSAGE"
      BY <1>4, <1>5, <1>16 DEF InQueue
    <2>2. CASE i = 1
      BY <1>8, <2>1, <2>2
    <2>3. CASE i # 1
      <3>1. PICK k \in 1..n : i = k + 1
        <4>1. i - 1 \in 1..n /\ i = (i - 1) + 1
          BY ONLY n \in Nat, i \in 1..(n + 1), <2>3
        <4> QED BY <4>1
      <3>2. Q[k] = R[i]
        BY <1>7, <3>1
      <3> QED BY <1>7, <2>1, <3>2 DEF InQueue
    <2> QED BY <2>2, <2>3
  <1>17. PICK S, G : S = sent[Cur] /\ G = got[Cur]
    OBVIOUS
  <1>18. /\ \A j \in 1..Len(S) : j > Len(G) => InQueue(pending, Cur, S[j][2]) \/ InFrames(F, Cur, S[j][2])
         /\ \A j \in 1..Len(G) : /\ \A i \in 1..(n + 1) : R[i].s = Cur => S[j][2] < R[i].m
                                 /\ \A i \in 1..Len(F) : F[i].s = Cur => S[j][2] < F[i].m
    BY <1>2, <1>4, <1>5, <1>12, <1>17 DEF Complete
  <1>19. ASSUME NEW j \in 1..Len(G)
         PROVE  (p.s = Cur => S[j][2] < p.m) /\ \A i \in 1..Len(Q) : Q[i].s = Cur => S[j][2] < Q[i].m
    BY <1>7, <1>8, <1>10, <1>18
  <1>20. p.s = Cur => \A i \in 1..Len(Q) : Q[i].s = Cur => p.m < Q[i].m
    BY <1>7, <1>11, <1>12, <1>13 DEF Precedes, id_less
  <1>21. p.s = Cur => \A i \in 1..Len(F) : F[i].s = Cur => p.m < F[i].m
    <2>1. \A i \in 1..Len(F) : F[i] \in Frame
      OBVIOUS
    <2>2. \A i \in 1..Len(F) : F[i].s \in Nat /\ F[i].m \in Nat
      BY <2>1 DEF Frame
    <2> QED BY <1>11, <1>12, <1>13, <1>14, <2>2 DEF Precedes, id_less
  <1>22. NextPacket(p, Q, F)
    BY <1>11, <1>15, <1>16, <1>17, <1>18, <1>19, <1>20, <1>21 DEF NextPacket
  <1>23. Streaming' /\ LastRight' /\ GotRight' /\ Complete(F)'
    <2>1. pending' = Q /\ Handle(p)
      BY <1>3, <1>4, <1>6, <1>8
    <2> QED BY <1>1, <1>3, <1>22, <2>1, HandleRight
  <1>24. SentRight' /\ SoundQueue'
    <2>1. SentRight'
      BY <1>1, <1>3 DEF SentRight
    <2>2. pending' = Q
      BY <1>3, <1>4, <1>6
    <2>3. \A i \in 1..n : SoundPacket(Q[i]) /\ Precedes(Q[i], asm)
      BY <1>7, <1>9, <1>10
    <2>4. ASSUME NEW i \in 1..n, NEW j \in 1..n, i < j PROVE Precedes(Q[i], Q[j])
      <3>1. i + 1 < j + 1
        BY <2>4
      <3> QED BY <1>7, <1>9, <1>10, <3>1
    <2>5. \A x : SoundPacket(x) => SoundPacket(x)'
      BY <1>3 DEF SoundPacket, Sound
    <2>6. \A x : Precedes(x, asm) => Precedes(x, asm')
      BY <1>3
    <2> QED BY <1>7, <2>1, <2>2, <2>3, <2>4, <2>5, <2>6 DEF SoundQueue, Precedes
  <1>25. Arriving(F)'
    BY <1>2, <1>3, ArrivingKept
  <1> QED BY <1>23, <1>24, <1>25 DEF ReadInv, Stocks

\* The probe queues the packet it has parsed.
LEMMA QueueRight ==
    ASSUME Streaming, SoundQueue, NEW fr, NEW r, Pushed(fr, r), ~Precedes(fr, asm),
           asm.s \in Nat, asm.m \in Nat, asm' = r.asm, srv' = srv, sent' = sent,
           pending' = IF r.pkt # None THEN Append(pending, r.pkt) ELSE pending
    PROVE  SoundQueue'
  <1>1. PICK R \in Seq(Packet) : R = pending
    <2>1. pending \in Seq(Packet)
      BY DEF SoundQueue
    <2> QED BY ONLY <2>1, Zenon
  <1>2. PICK n \in Nat : n = Len(R)
    BY <1>1
  <1>3. /\ \A i \in 1..n : SoundPacket(R[i]) /\ Precedes(R[i], asm)
        /\ \A i, j \in 1..n : i < j => Precedes(R[i], R[j])
    BY <1>1, <1>2 DEF SoundQueue
  <1>4. \A x : SoundPacket(x) => SoundPacket(x)'
    BY DEF SoundPacket, Sound
  <1>5. ASSUME NEW i \in 1..n PROVE Precedes(R[i], r.asm) /\ Precedes(R[i], fr)
    <2>1. R[i].s \in Nat /\ R[i].m \in Nat /\ Precedes(R[i], asm)
      BY <1>3 DEF SoundPacket, Packet
    <2> QED BY <2>1, AssemblerMoves
  <1>6. r.err \in BOOLEAN /\ fr.done \in BOOLEAN /\ fr.s \in Nat /\ fr.m \in Nat
    BY DEF Pushed, Frame
  <1>7. CASE ~r.err /\ fr.done
    <2>1. PICK p : p = r.pkt
      OBVIOUS
    <2>2. /\ p # None /\ SoundPacket(p) /\ p.s = fr.s /\ p.m = fr.m
          /\ r.asm = [s |-> fr.s, m |-> fr.m + 1, cur |-> None]
      BY <1>7, <2>1 DEF Pushed
    <2>3. p \in Packet
      BY <2>2 DEF SoundPacket
    <2>4. PICK Q : Q = Append(R, p)
      OBVIOUS
    <2>5. Q \in Seq(Packet) /\ Len(Q) = n + 1 /\ Q[n + 1] = p /\ \A i \in 1..n : Q[i] = R[i]
      BY <1>2, <2>3, <2>4
    <2>6. pending' = Q
      BY <1>1, <2>1, <2>2, <2>4
    <2>7. Precedes(p, r.asm)
      <3>1. r.asm.s = fr.s /\ r.asm.m = fr.m + 1
        BY ONLY <2>2
      <3> QED BY <1>6, <2>2, <3>1 DEF Precedes, id_less
    <2>8. \A i \in 1..n : Precedes(R[i], p)
      BY <1>5, <2>2 DEF Precedes
    <2>9. ASSUME NEW i \in 1..(n + 1) PROVE SoundPacket(Q[i]) /\ Precedes(Q[i], r.asm)
      <3>1. CASE i = n + 1
        BY <2>2, <2>5, <2>7, <3>1
      <3>2. CASE i # n + 1
        <4>1. i \in 1..n
          BY <3>2
        <4> QED BY <1>3, <1>5, <2>5, <4>1
      <3> QED BY <3>1, <3>2
    <2>10. ASSUME NEW i \in 1..(n + 1), NEW j \in 1..(n + 1), i < j PROVE Precedes(Q[i], Q[j])
      <3>1. i \in 1..n
        BY <2>10
      <3>2. CASE j = n + 1
        BY <2>5, <2>8, <3>1, <3>2
      <3>3. CASE j # n + 1
        <4>1. j \in 1..n
          BY <3>3
        <4> QED BY <1>3, <2>5, <2>10, <3>1, <4>1
      <3> QED BY <3>2, <3>3
    <2>11. \A i \in 1..(n + 1) : SoundPacket(Q[i])' /\ Precedes(Q[i], asm')
      BY <1>4, <2>9
    <2> QED BY <2>5, <2>6, <2>10, <2>11 DEF SoundQueue, Precedes
  <1>8. CASE r.err \/ ~fr.done
    <2>1. r.pkt = None
      BY <1>6, <1>8 DEF Pushed
    <2>2. pending' = R
      BY <1>1, <2>1
    <2>3. \A i \in 1..n : SoundPacket(R[i])' /\ Precedes(R[i], asm')
      BY <1>3, <1>4, <1>5
    <2> QED BY <1>2, <1>3, <2>2, <2>3 DEF SoundQueue, Precedes
  <1> QED BY <1>6, <1>7, <1>8

\* The end of a probe.
LEMMA DrainedRight ==
    ASSUME WireInv, Streaming, LastRight, Draining, NEW found, Drained(found), srv' = srv, sent' = sent, got' = got,
           found \in {"ok", "frame", "closed", "truncated"}, found = "frame" => srv.huge
    PROVE  /\ Streaming' /\ LastRight' /\ Control
           /\ found # "ok" => ~Live'
  <1>1. op # None /\ op.mid \in Nat /\ op.call = "send"
    <2>1. op # None /\ op.mid \in Nat /\ op.todo \in Seq(StepKinds) /\ op.todo # <<>> /\ Head(op.todo) = "drain"
      BY DEF Draining, WireInv, WireTypeOK
    <2>2. 1 \in 1..Len(op.todo) /\ op.todo[1] = "drain"
      BY <2>1
    <2> QED BY <2>1, <2>2 DEF Streaming, Probing
  <1>2. ASSUME NEW outcome, outcome \in {"terminated", "frame", "closed", "truncated"},
               Return(outcome, poisoned), outcome = "frame" => srv.huge
        PROVE  Streaming' /\ LastRight' /\ Control /\ ~Live'
    <2>1. Control /\ op' = None /\ stream' = None /\ last' = [call |-> "send", s |-> op.s, outcome |-> outcome]
      BY <1>1, <1>2, ReturnControl
    <2>2. Streaming'
      BY <1>1, <2>1, StreamingKept
    <2>3. LastRight'
      BY <1>2, <2>1 DEF LastRight
    <2> QED BY <2>1, <2>2, <2>3 DEF Live
  <1>3. CASE Terminated
    <2>1. Return("terminated", poisoned)
      BY <1>3 DEF Drained
    <2> QED BY <1>2, <2>1
  <1>4. CASE ~Terminated /\ found # "ok"
    <2>1. Return(found, poisoned)
      BY <1>4 DEF Drained
    <2> QED BY <1>2, <1>4, <2>1
  <1>5. CASE ~Terminated /\ found = "ok"
    <2>1. StepDone(op.mid)
      BY <1>5 DEF Drained
    <2>2. Control /\ (last' = last \/ last' = [call |-> op.call, s |-> op.s, outcome |-> "ok"])
      BY <1>1, <2>1, StepDoneControl
    <2>3. last' = last \/ last'.outcome \notin {"closed", "truncated", "frame", "unexpected"}
      BY <2>2
    <2>4. Streaming' /\ LastRight'
      BY <1>1, <2>2, <2>3, StreamingKept, LastKept
    <2> QED BY <1>5, <2>2, <2>4
  <1> QED BY <1>3, <1>4, <1>5

\* The probe takes a frame, and perhaps queues a packet.
LEMMA DrainParsesRight ==
    ASSUME WireInv, QueueInv, ReadInv, DrainParses
    PROVE  ReadInv'
  <1>1. Streaming /\ LastRight /\ SentRight /\ GotRight /\ SoundQueue
    BY DEF ReadInv, Stocks
  <1>2. PICK F \in Seq(Frame) : Arriving(F) /\ Complete(F)
    BY DEF ReadInv
  <1>3. /\ op # None /\ Draining /\ parse_one
        /\ srv' = srv /\ sent' = sent /\ down' = down /\ got' = got
    BY DEF DrainParses, serverVars, Draining
  <1>4. PICK T \in Seq(Frame) : T = Tail(F) /\ Arriving(T)'
    <2>1. Tail(F) \in Seq(Frame) /\ Arriving(Tail(F))'
      BY <1>1, <1>2, <1>3, ParseArrives
    <2>2. PICK T : T = Tail(F)
      OBVIOUS
    <2> QED BY <2>1, <2>2
  <1>5. PICK r, fr : r = Taken /\ fr = F[1]
    OBVIOUS
  <1>6. F # <<>> /\ Pushed(fr, r) /\ asm' = r.asm /\ ~Precedes(fr, asm) /\ asm.s \in Nat /\ asm.m \in Nat
    BY <1>1, <1>2, <1>3, <1>5, ParseArrives
  <1>7. pending' = IF r.pkt # None THEN Append(pending, r.pkt) ELSE pending
    BY <1>5 DEF DrainParses
  <1>8. SoundQueue'
    BY <1>1, <1>3, <1>6, <1>7, QueueRight
  <1>9. SentRight' /\ GotRight'
    BY <1>1, <1>3 DEF SentRight, GotRight
  <1>10. r.err \in BOOLEAN /\ fr.done \in BOOLEAN
    BY <1>6 DEF Pushed, Frame
  <1>11. CASE r.err
    <2>1. srv.huge /\ Drained("frame")
      BY <1>5, <1>6, <1>11 DEF DrainParses, Pushed
    <2>2. Streaming' /\ LastRight' /\ ~Live'
      BY <1>1, <1>3, <2>1, DrainedRight
    <2>3. Complete(T)'
      BY <2>2 DEF Complete
    <2> QED BY <1>4, <1>8, <1>9, <2>2, <2>3 DEF ReadInv, Stocks
  <1>12. CASE ~r.err
    <2>1. UNCHANGED <<op, stream, next, poisoned, calls, last>>
      BY <1>5, <1>12 DEF DrainParses
    <2>2. Control
      BY <1>1, <1>3, <2>1 DEF Control, Streaming, Probing
    <2>3. Streaming' /\ LastRight'
      BY <1>1, <1>3, <2>1, <2>2, StreamingKept, LastKept
    <2>4. PICK n \in Nat : Len(F) = n + 1 /\ Len(T) = n /\ \A i \in 1..n : T[i] = F[i + 1]
      <3>1. Len(F) \in Nat /\ Len(F) # 0 /\ Len(T) = Len(F) - 1
        BY <1>4, <1>6
      <3>2. PICK n \in Nat : Len(F) = n + 1 /\ Len(T) = n
        <4>1. Len(F) - 1 \in Nat /\ Len(F) = (Len(F) - 1) + 1
          BY <3>1
        <4> QED BY <3>1, <4>1
      <3>3. \A i \in 1..n : T[i] = F[i + 1]
        BY <1>4, <1>6, <3>2
      <3> QED BY <3>2, <3>3
    <2>5. ASSUME NEW s, NEW m, InFrames(F, s, m)
          PROVE  (fr.s = s /\ fr.m = m /\ fr.kind = "MESSAGE" /\ fr.done) \/ InFrames(T, s, m)
      BY <1>5, <1>6, <2>4, <2>5, FramesSplit
    <2>6. PICK R \in Seq(Packet), k \in Nat : R = pending /\ k = Len(R)
      <3>1. pending \in Seq(Packet) /\ Len(pending) \in Nat
        BY <1>1 DEF SoundQueue
      <3> QED BY ONLY <3>1, Zenon
    <2>7. PICK Q : Q = pending'
      OBVIOUS
    <2>8. /\ Len(Q) \in Nat /\ Len(Q) >= k /\ \A i \in 1..k : Q[i] = R[i]
          /\ fr.done => /\ Len(Q) = k + 1 /\ Q[k + 1].s = fr.s /\ Q[k + 1].m = fr.m /\ Q[k + 1].kind = fr.kind
          /\ ~fr.done => Len(Q) = k
      <3>1. CASE fr.done
        <4>1. PICK p \in Packet : p = r.pkt /\ p # None /\ p.s = fr.s /\ p.m = fr.m /\ p.kind = fr.kind
          <5>1. /\ r.pkt # None /\ r.pkt.s = fr.s /\ r.pkt.m = fr.m /\ r.pkt.kind = fr.kind
                /\ r.pkt \in Packet
            BY <1>6, <1>12, <3>1 DEF Pushed, SoundPacket
          <5> QED BY ONLY <5>1, Zenon
        <4>2. Q = Append(R, p)
          BY <1>7, <2>6, <2>7, <4>1
        <4>3. Len(Q) = k + 1 /\ Q[k + 1] = p /\ \A i \in 1..k : Q[i] = R[i]
          BY <2>6, <4>2
        <4> QED BY <3>1, <4>1, <4>3
      <3>2. CASE ~fr.done
        <4>1. r.pkt = None
          BY <1>6, <1>12, <3>2 DEF Pushed
        <4>2. Q = R
          BY <1>7, <2>6, <2>7, <4>1
        <4> QED BY <2>6, <3>2, <4>2
      <3> QED BY <1>10, <3>1, <3>2
    <2>9. Live /\ Cur' = Cur
      BY <1>3, <2>1 DEF Live, Cur
    <2>10. PICK S, G : S = sent[Cur] /\ G = got[Cur]
      OBVIOUS
    <2>11. /\ \A j \in 1..Len(S) : j > Len(G) => InQueue(R, Cur, S[j][2]) \/ InFrames(F, Cur, S[j][2])
           /\ \A j \in 1..Len(G) : /\ \A i \in 1..k : R[i].s = Cur => S[j][2] < R[i].m
                                   /\ \A i \in 1..Len(F) : F[i].s = Cur => S[j][2] < F[i].m
      BY <1>2, <2>6, <2>9, <2>10 DEF Complete
    <2>12. ASSUME NEW s, NEW m, InQueue(R, s, m) \/ (fr.s = s /\ fr.m = m /\ fr.kind = "MESSAGE" /\ fr.done)
           PROVE  InQueue(Q, s, m)
      <3>1. \A i \in 1..k : i \in 1..Len(Q)
        BY <2>6, <2>8
      <3>2. fr.done => k + 1 \in 1..Len(Q)
        BY <2>6, <2>8
      <3> QED BY <2>6, <2>8, <2>12, <3>1, <3>2 DEF InQueue
    <2>13. \A j \in 1..Len(S) : j > Len(G) => InQueue(Q, Cur, S[j][2]) \/ InFrames(T, Cur, S[j][2])
      BY <2>5, <2>11, <2>12
    <2>14. ASSUME NEW j \in 1..Len(G), NEW i \in 1..Len(Q), Q[i].s = Cur PROVE S[j][2] < Q[i].m
      <3>1. CASE i \in 1..k
        BY <2>8, <2>11, <2>14, <3>1
      <3>2. CASE i \notin 1..k
        <4>1. fr.done /\ i = k + 1
          <5>1. Len(Q) # k
            BY <3>2
          <5>2. fr.done /\ Len(Q) = k + 1
            BY <1>10, <2>8, <5>1
          <5>3. i \in 1..(k + 1)
            BY <5>2
          <5>4. i = k + 1
            BY ONLY k \in Nat, <3>2, <5>3
          <5> QED BY <5>2, <5>4
        <4>2. fr.s = Cur /\ Q[i].m = fr.m
          BY <2>8, <2>14, <4>1
        <4>3. 1 \in 1..Len(F)
          BY <1>6
        <4> QED BY <1>5, <2>11, <4>2, <4>3
      <3> QED BY <3>1, <3>2
    <2>15. ASSUME NEW j \in 1..Len(G), NEW i \in 1..Len(T), T[i].s = Cur PROVE S[j][2] < T[i].m
      <3>1. i + 1 \in 1..Len(F) /\ T[i] = F[i + 1]
        BY <2>4
      <3> QED BY <2>11, <2>15, <3>1
    <2>16. Complete(T)'
      BY <1>3, <2>7, <2>9, <2>10, <2>13, <2>14, <2>15 DEF Complete
    <2> QED BY <1>4, <1>8, <1>9, <2>3, <2>16 DEF ReadInv, Stocks
  <1> QED BY <1>10, <1>11, <1>12

\* A step of a call that leaves what is read alone.
LEMMA StillRight ==
    ASSUME ReadInv, op # None, Control, Streaming', LastRight',
           SameServer, UNCHANGED <<asm, sent, got, pending>>,
           \A F \in Seq(Frame) : Arriving(F) => Arriving(F)'
    PROVE  ReadInv'
  <1>1. PICK F \in Seq(Frame) : Arriving(F) /\ Complete(F)
    BY DEF ReadInv
  <1>2. Complete(F)'
    BY <1>1 DEF Complete, Control, Live, Cur
  <1>3. SentRight' /\ GotRight'
    BY DEF ReadInv, Stocks, SentRight, GotRight, SameServer
  <1>4. \A x : SoundPacket(x) => SoundPacket(x)'
    BY DEF SoundPacket, Sound, SameServer
  <1>5. SoundQueue'
    BY <1>4 DEF ReadInv, Stocks, SoundQueue, Precedes
  <1> QED BY <1>1, <1>2, <1>3, <1>5 DEF ReadInv, Stocks

\* fill moves units from the transport to the buffer.
LEMMA FillRight ==
    ASSUME QueueInv, ReadInv, op # None, NEW n \in {1, Len(down)}, down # <<>>, Fill(n),
           UNCHANGED <<srv, sent, got, asm, pending, op, stream, next, poisoned, calls, last>>
    PROVE  ReadInv'
  <1>1. PICK U : buf \in Seq(U) /\ down \in Seq(U)
    BY WireTypes
  <1>2. PICK b \in Seq(U), d \in Seq(U) : b = buf /\ d = down
    BY ONLY <1>1, Zenon
  <1>3. n \in Nat /\ 1 <= n /\ n <= Len(d)
    BY <1>2
  <1>4. ASSUME NEW F \in Seq(Frame), Arriving(F) PROVE Arriving(F)'
    <2>1. Pipe(b, d, F)
      BY <1>2, <1>4 DEF Arriving
    <2>2. /\ Pipe(b \o SubSeq(d, 1, n), SubSeq(d, n + 1, Len(d)), F)
          /\ Len(b \o SubSeq(d, 1, n)) + Len(SubSeq(d, n + 1, Len(d))) = Len(b) + Len(d)
      BY ONLY b \in Seq(U), d \in Seq(U), F \in Seq(Frame), <1>3, <2>1, PipeFill
    <2>3. buf' = b \o SubSeq(d, 1, n) /\ down' = SubSeq(d, n + 1, Len(d))
      BY <1>2 DEF Fill
    <2>4. Pipe(buf', down', F) /\ Len(buf') + Len(down') = Len(buf) + Len(down)
      BY ONLY <1>2, <2>2, <2>3, Zenon
    <2> QED BY <1>4, <2>4, ArrivingMoves DEF SameServer
  <1>5. Streaming /\ LastRight
    BY DEF ReadInv
  <1>6. Control
    BY <1>5 DEF Control, Streaming, Probing
  <1>7. Streaming' /\ LastRight'
    BY <1>5, <1>6, StreamingKept, LastKept
  <1> QED BY <1>4, <1>6, <1>7, StillRight DEF SameServer

\* eof_error: at the end of the transport nothing is left but what it says.
LEMMA EofRight ==
    ASSUME QueueInv, Streaming, GotRight, SentRight, Live, pending = <<>>, ~HasFrame, down = <<>>,
           NEW F \in Seq(Frame), Arriving(F), Complete(F)
    PROVE  /\ eof_error = "closed" => Len(got[Cur]) = Len(sent[Cur]) /\ srv.cut = 0
           /\ eof_error = "truncated" => srv.cut = 1 \/ srv.huge
  <1>1. PICK U : buf \in Seq(U) /\ down \in Seq(U)
    BY WireTypes
  <1>2. PICK lb \in Nat, lf \in Nat : lb = Len(buf) /\ lf = Len(F)
    BY <1>1
  <1>3. Len(down) = 0
    OBVIOUS
  <1>4. lb \in {2 * lf, 2 * lf + 1}
    <2>1. Len(buf) + Len(down) \in {2 * Len(F), 2 * Len(F) + 1}
      BY DEF Arriving, Pipe
    <2> QED BY <1>2, <1>3, <2>1
  <1>5. lf = 0
    <2> SUFFICES ASSUME lf # 0 PROVE FALSE
      OBVIOUS
    <2>1. 1 \in 1..lf /\ 2 * 1 - 1 = 1 /\ 2 * 1 = 2 /\ lb >= 2
      BY ONLY lf \in Nat, lb \in Nat, lf # 0, <1>4
    <2>2. Unit(buf, down, 1) = <<F[1], 1>> /\ Unit(buf, down, 2) = <<F[1], 2>>
      BY <1>2, <2>1 DEF Arriving, Pipe
    <2>3. buf[1] = <<F[1], 1>> /\ buf[2] = <<F[1], 2>>
      BY <1>2, <2>1, <2>2 DEF Unit
    <2>4. buf[1][1] = F[1] /\ buf[1][2] = 1
      BY ONLY <2>3
    <2>5. Parsed(buf) = "frame"
      BY <1>2, <2>1, <2>3, <2>4 DEF Parsed
    <2> QED BY <2>5 DEF HasFrame
  <1>6. F = <<>> /\ (lb = 0 \/ lb = 1) /\ (lb = 0 => buf = <<>>) /\ (buf = <<>> => lb = 0)
    <2>1. F = <<>>
      <3>1. Len(F) = 0
        BY <1>2, <1>5
      <3> QED BY ONLY F \in Seq(Frame), <3>1, EmptySeq
    <2>2. lb = 0 \/ lb = 1
      BY ONLY <1>4, <1>5
    <2>3. (lb = 0 => buf = <<>>) /\ (buf = <<>> => lb = 0)
      BY ONLY <1>1, <1>2
    <2> QED BY <2>1, <2>2, <2>3
  <1>7. Len(buf) + Len(down) = lb /\ 2 * Len(F) + 1 = 1
    BY <1>2, <1>3, <1>5
  <1>8. CutShows(F) /\ srv.cut \in {0, 1}
    BY ServerTypes DEF Arriving
  <1>9. /\ asm.cur # None => srv.cut = 1 \/ srv.huge
        /\ srv.cut = 1 => lb = 1 \/ asm.cur # None
        /\ lb = 1 => srv.cut = 1
    BY <1>6, <1>7, <1>8 DEF CutShows
  <1>10. CASE buf = <<>> /\ asm.cur = None
    <2>1. eof_error = "closed" /\ srv.cut = 0
      BY <1>6, <1>8, <1>9, <1>10 DEF eof_error
    <2>2. PICK S \in Seq(Nat \X Nat), G \in Seq(Seq(Payload)) : S = sent[Cur] /\ G = got[Cur]
      <3>1. sent[Cur] \in Seq(Nat \X Nat) /\ got[Cur] \in Seq(Seq(Payload))
        BY CurStream DEF SentRight, GotRight
      <3> QED BY ONLY <3>1, Zenon
    <2>3. PICK ls \in Nat, lg \in Nat : ls = Len(S) /\ lg = Len(G) /\ lg <= ls
      BY <2>2, CurStream DEF GotRight
    <2>4. \A s, m : ~InQueue(pending, s, m) /\ ~InFrames(F, s, m)
      BY <1>6 DEF InQueue, InFrames
    <2>5. \A j \in 1..ls : ~(j > lg)
      BY <2>2, <2>3, <2>4 DEF Complete
    <2>6. ls = lg
      <3>1. ~(lg < ls)
        <4> SUFFICES ASSUME lg < ls PROVE FALSE
          OBVIOUS
        <4>1. ls \in 1..ls /\ ls > lg
          BY ONLY ls \in Nat, lg \in Nat, lg < ls
        <4> QED BY <2>5, <4>1
      <3> QED BY ONLY ls \in Nat, lg \in Nat, <2>3, <3>1
    <2>7. Len(got[Cur]) = Len(sent[Cur])
      BY ONLY <2>2, <2>3, <2>6, Zenon
    <2> QED BY <2>1, <2>7
  <1>11. CASE ~(buf = <<>> /\ asm.cur = None)
    <2>1. eof_error = "truncated"
      BY <1>11 DEF eof_error
    <2>2. srv.cut = 1 \/ srv.huge
      BY <1>6, <1>9, <1>11
    <2> QED BY <2>1, <2>2
  <1> QED BY <1>10, <1>11

\* A read takes units off the transport, or reports its end.
LEMMA RecvReadsRight ==
    ASSUME WireInv, QueueInv, ReadInv, RecvReads
    PROVE  ReadInv'
  <1>1. op # None /\ pending = <<>> /\ ~HasFrame /\ UNCHANGED <<srv, sent, got, asm, pending>>
    BY DEF RecvReads
  <1>2. CASE (\E n \in {1, Len(down)} : down # <<>> /\ Fill(n)) /\ UNCHANGED <<op, stream, next, poisoned, calls, last>>
    BY <1>1, <1>2, FillRight
  <1>3. CASE down = <<>> /\ srv.gone /\ Return(eof_error, poisoned) /\ UNCHANGED <<down, buf>>
    <2>1. Streaming /\ GotRight /\ SentRight /\ Live
      BY <1>1 DEF ReadInv, Stocks, Live
    <2>2. PICK e : e = eof_error /\ e \in {"closed", "truncated"}
      BY DEF eof_error
    <2>3. Control /\ op' = None /\ stream' = None /\ last' = [call |-> op.call, s |-> op.s, outcome |-> e]
      BY <1>1, <1>3, <2>2, ReturnControl
    <2>4. PICK F \in Seq(Frame) : Arriving(F) /\ Complete(F)
      BY DEF ReadInv
    <2>5. /\ e = "closed" => Len(got[Cur]) = Len(sent[Cur]) /\ srv.cut = 0
          /\ e = "truncated" => srv.cut = 1 \/ srv.huge
      BY <1>1, <1>3, <2>1, <2>2, <2>4, EofRight
    <2>6. Streaming'
      BY <1>1, <2>1, <2>3, StreamingKept
    <2>7. op.s = Cur /\ Cur \in Streams /\ Cur < next /\ next' = next
      BY <1>1, <2>1, <2>3, CurStream DEF Streaming, Control
    <2>8. last'.s = Cur /\ last'.outcome = e /\ ~Live'
      BY <2>3, <2>7 DEF Live
    <2>9. LastRight'
      BY <1>1, <1>3, <2>2, <2>5, <2>7, <2>8 DEF LastRight
    <2>10. \A X \in Seq(Frame) : Arriving(X) => Arriving(X)'
      BY <1>1, <1>3, ArrivingKept
    <2> QED BY <1>1, <2>3, <2>6, <2>9, <2>10, StillRight DEF SameServer
  <1> QED BY <1>2, <1>3 DEF RecvReads

\* The probe ends, full or with nothing more to read.
LEMMA DrainEndsRight ==
    ASSUME WireInv, ReadInv, DrainEnds
    PROVE  ReadInv'
  <1>1. /\ Draining /\ op # None /\ UNCHANGED <<srv, sent, down, got, buf, asm, pending>>
        /\ Streaming /\ LastRight
    BY DEF DrainEnds, Draining, serverVars, ReadInv
  <1>2. PICK found : Drained(found) /\ found \in {"ok", "closed", "truncated"}
    <2>1. Drained("ok") \/ Drained(IF srv.gone THEN eof_error ELSE "ok")
      BY DEF DrainEnds
    <2>2. PICK e : e = IF srv.gone THEN eof_error ELSE "ok"
      OBVIOUS
    <2>3. e \in {"ok", "closed", "truncated"}
      BY <2>2 DEF eof_error
    <2>4. Drained("ok") \/ Drained(e)
      BY ONLY <2>1, <2>2, Zenon
    <2> QED BY ONLY <2>3, <2>4
  <1>3. Streaming' /\ LastRight' /\ Control
    BY <1>1, <1>2, DrainedRight
  <1>4. \A X \in Seq(Frame) : Arriving(X) => Arriving(X)'
    BY <1>1, ArrivingKept
  <1> QED BY <1>1, <1>3, <1>4, StillRight DEF SameServer

-----------------------------------------------------------------------------
(* The other steps of a call *)

\* A call that fails says nothing of what was read.
LEMMA FailsRight ==
    ASSUME ReadInv, op # None, NEW outcome \in {"io", "timeout", "cancelled"}, NEW p, Return(outcome, p),
           UNCHANGED <<buf, down, asm, srv, sent, got, pending>>
    PROVE  ReadInv'
  <1>1. Streaming /\ LastRight
    BY DEF ReadInv
  <1>2. Control /\ last' = [call |-> op.call, s |-> op.s, outcome |-> outcome]
    BY ReturnControl
  <1>3. last'.outcome \notin {"closed", "truncated", "frame", "unexpected"}
    BY <1>2
  <1>4. Streaming' /\ LastRight'
    BY <1>1, <1>2, <1>3, StreamingKept, LastKept
  <1>5. \A X \in Seq(Frame) : Arriving(X) => Arriving(X)'
    BY ArrivingKept
  <1> QED BY <1>2, <1>4, <1>5, StillRight DEF SameServer

\* Only a send probes.
LEMMA StepsProbe ==
    ASSUME NEW c \in Calls
    PROVE  \A i \in 1..Len(Steps(c)) : Steps(c)[i] = "drain" => c = "send"
  <1>1. c \in {"invoke", "open", "send", "close_send", "close", "recv"}
    BY DEF Calls
  <1>2. CASE c = "invoke"
    BY <1>2 DEF Steps
  <1>3. CASE c \in {"open", "close_send", "close"}
    BY <1>3 DEF Steps
  <1>4. CASE c = "send"
    BY <1>4
  <1>5. CASE c = "recv"
    BY <1>5 DEF Steps
  <1> QED BY <1>1, <1>2, <1>3, <1>4, <1>5

\* A new stream has sent nothing yet, and what the last one said stays said.
LEMMA CallStartsRight ==
    ASSUME WireInv, ReadInv, NEW c \in Calls, CallStarts(c)
    PROVE  ReadInv'
  <1>1. Streaming /\ LastRight /\ SentRight /\ GotRight /\ SoundQueue
    BY DEF ReadInv, Stocks
  <1>2. PICK F \in Seq(Frame) : Arriving(F) /\ Complete(F)
    BY DEF ReadInv
  <1>3. /\ op = None /\ calls.left > 0 /\ calls' = [calls EXCEPT !.left = @ - 1]
        /\ UNCHANGED <<stream, buf, asm, pending, last, down, srv, sent, got>>
    BY DEF CallStarts, serverVars
  <1>4. PICK b \in Budgets \cup {NoCall, OneCall} : next + calls.left <= b.calls + 1
    BY <1>1 DEF Streaming
  <1>5. next \in Nat \ {0} /\ calls.left \in Nat /\ b.calls \in Nat /\ srv.s \in Nat /\ srv.m \in Nat /\ srv.s < next
    BY <1>1, <1>4, ConnAssumption DEF Streaming, NoCall, OneCall
  <1>6. calls'.left = calls.left - 1
    BY <1>3
  <1>7. WireInv'
    BY CallStartsWire
  <1>8. /\ op' # None /\ op'.todo = Steps(c) /\ op'.call = c
        /\ c \in {"invoke", "open"} => op'.s = next /\ next' = next + 1
        /\ c \notin {"invoke", "open"} => op'.s = stream.s /\ next' = next /\ stream # None
    <2>1. PICK s, mid : op' = [call |-> c, s |-> s, mid |-> mid, todo |-> Steps(c), off |-> 0, was |-> FALSE]
      BY DEF CallStarts
    <2>2. op' # None
      <3>1. PICK t, m : t = next /\ m = 0
        OBVIOUS
      <3>2. CASE c \in {"invoke", "open"}
        <4>1. op' = [call |-> c, s |-> next, mid |-> 0, todo |-> Steps(c), off |-> 0, was |-> FALSE]
          BY <3>2 DEF CallStarts
        <4>2. op' \in [call : Calls, s : Nat, mid : Nat, todo : Seq(StepKinds), off : Nat, was : BOOLEAN]
          BY <1>5, <4>1, StepsFacts
        <4> QED BY ONLY <4>2, ConnAssumption, Zenon
      <3>3. CASE c \notin {"invoke", "open"}
        <4>1. op' = [call |-> c, s |-> stream.s, mid |-> stream.mid, todo |-> Steps(c), off |-> 0, was |-> FALSE]
              /\ stream # None
          BY <3>3 DEF CallStarts
        <4>2. stream.s \in Nat /\ stream.mid \in Nat
          BY <4>1 DEF WireInv, WireTypeOK
        <4>3. op' \in [call : Calls, s : Nat, mid : Nat, todo : Seq(StepKinds), off : Nat, was : BOOLEAN]
          BY <4>1, <4>2, StepsFacts
        <4> QED BY ONLY <4>3, ConnAssumption, Zenon
      <3> QED BY <3>2, <3>3
    <2>3. op'.todo = Steps(c) /\ op'.call = c
      BY <2>1
    <2> QED BY <2>2, <2>3 DEF CallStarts
  <1>9. Probing'
    BY <1>8, StepsProbe DEF Probing
  <1>10. Streaming'
    <2>1. next' \in Nat \ {0} /\ calls'.left \in Nat /\ next' + calls'.left <= b.calls + 1
          /\ next <= next'
      <3>1. PICK k \in Nat, l \in Nat, m \in Nat : k = next /\ l = calls.left /\ m = b.calls
        BY <1>5
      <3>2. k + l <= m + 1 /\ l > 0 /\ calls'.left = l - 1 /\ k # 0 /\ (next' = k + 1 \/ next' = k)
        BY <1>3, <1>4, <1>5, <1>6, <1>8, <3>1
      <3>3. next' \in Nat \ {0} /\ calls'.left \in Nat /\ next' + calls'.left <= m + 1 /\ k <= next'
        BY ONLY k \in Nat, l \in Nat, m \in Nat, <3>2
      <3> QED BY ONLY <3>1, <3>3, Zenon
    <2>2. op'.s = Cur' /\ next' > 1
      <3>1. CASE c \in {"invoke", "open"}
        BY <1>5, <1>8, <3>1 DEF Cur
      <3>2. CASE c \notin {"invoke", "open"}
        <4>1. stream # None /\ Live
          BY <1>8, <3>2 DEF Live
        <4> QED BY <1>1, <1>3, <1>8, <3>2, <4>1 DEF Streaming, Cur
      <3> QED BY <3>1, <3>2
    <2>3. srv.seen \subseteq 1..(next - 1) /\ srv.cut \in {0, 1}
      BY <1>1 DEF Streaming
    <2>4. srv'.seen \subseteq 1..(next' - 1)
      BY <1>3, <1>5, <2>1, <2>3
    <2>5. srv'.s \in Nat /\ srv'.m \in Nat /\ srv'.cut \in {0, 1}
      BY <1>1, <1>3 DEF Streaming
    <2>6. srv'.s < next'
      <3>1. srv.s \in Nat /\ next \in Nat /\ srv.s < next /\ srv' = srv
        BY <1>1, <1>3 DEF Streaming
      <3>2. srv.s < next'
        BY ONLY <2>1, <3>1
      <3> QED BY ONLY <3>1, <3>2, Zenon
    <2> QED BY ONLY b \in Budgets \cup {NoCall, OneCall}, <1>8, <1>9, <2>1, <2>2, <2>4, <2>5, <2>6, Zenon DEF Streaming
  <1>11. Live' /\ Cur' \in Streams
    <2>1. Live'
      BY <1>8 DEF Live
    <2>2. (Streaming /\ Live => Cur \in Streams)'
      BY CurStream, PTL
    <2> QED BY <1>10, <2>1, <2>2
  <1>12. c \in {"invoke", "open"} => Cur' = next /\ sent[Cur'] = <<>> /\ got[Cur'] = <<>>
    <2> SUFFICES ASSUME c \in {"invoke", "open"} PROVE Cur' = next /\ sent[Cur'] = <<>> /\ got[Cur'] = <<>>
      OBVIOUS
    <2>1. PICK x \in Streams : x = Cur' /\ x = next
      BY <1>5, <1>8, <1>11 DEF Cur
    <2>2. x > srv.s
      BY <1>5, <2>1
    <2>3. sent[x] = <<>> /\ Len(sent[x]) = 0
      BY <1>1, <2>2 DEF SentRight
    <2>4. got[x] \in Seq(Seq(Payload)) /\ Len(got[x]) <= 0
      BY <1>1, <2>3 DEF GotRight
    <2>5. got[x] = <<>>
      BY <2>4
    <2> QED BY <2>1, <2>3, <2>5
  <1>13. LastRight'
    <2>1. ASSUME last.call \in {"recv", "invoke"}, last.outcome = "closed"
          PROVE  last.s < next' /\ last.s < Cur'
      <3>1. CASE c \in {"invoke", "open"}
        <4>1. last.s \in Streams /\ last.s < next
          BY <1>1, <2>1 DEF LastRight
        <4>2. last.s \in Nat
          BY <4>1, ConnAssumption DEF Streams, OneCall
        <4> QED BY <1>5, <1>8, <1>12, <3>1, <4>1, <4>2
      <3>2. CASE c \notin {"invoke", "open"}
        <4>1. Live /\ next' = next
          BY <1>8, <3>2 DEF Live
        <4> QED BY <1>1, <2>1, <4>1 DEF LastRight, Cur
      <3> QED BY <3>1, <3>2
    <2> QED BY <1>1, <1>3, <2>1 DEF LastRight
  <1>14. Complete(F)'
    <2>1. CASE c \in {"invoke", "open"}
      <3>1. sent'[Cur'] = <<>> /\ got'[Cur'] = <<>>
        BY <1>3, <1>12, <2>1
      <3>2. Len(sent'[Cur']) = 0 /\ Len(got'[Cur']) = 0
        BY <3>1
      <3> QED BY <3>2 DEF Complete
    <2>2. CASE c \notin {"invoke", "open"}
      <3>1. Live /\ Cur' = Cur
        BY <1>8, <2>2 DEF Live, Cur
      <3> QED BY <1>2, <1>3, <3>1 DEF Complete
    <2> QED BY <2>1, <2>2
  <1>15. SentRight' /\ GotRight'
    BY <1>1, <1>3 DEF SentRight, GotRight
  <1>16. \A x : SoundPacket(x) => SoundPacket(x)'
    BY <1>3 DEF SoundPacket, Sound
  <1>17. SoundQueue'
    BY <1>1, <1>3, <1>16 DEF SoundQueue, Precedes
  <1>18. Arriving(F)'
    BY <1>2, <1>3, ArrivingKept
  <1> QED BY <1>10, <1>13, <1>14, <1>15, <1>17, <1>18 DEF ReadInv, Stocks

\* The units of the packet a call writes carry the id of its stream.
LEMMA WireStream ==
    ASSUME NEW o
    PROVE  \E W : WireOf(o) \in Seq(W) /\ \A u \in W : u[1].s = o.s
  <1>1. PICK n \in Nat : n = Payloads(Head(o.todo))
    BY DEF Payloads
  <1>2. PICK k \in Nat : k = (IF n = 0 THEN 1 ELSE n)
    OBVIOUS
  <1>3. PICK fs : fs = Frames(o.s, o.mid + 1, Head(o.todo), FALSE, n)
    OBVIOUS
  <1>4. DOMAIN fs = 1..k /\ fs = [i \in 1..k |-> fs[i]] /\ \A i \in 1..k : fs[i].s = o.s
    BY <1>2, <1>3 DEF Frames
  <1>5. PICK S : S = {fs[i] : i \in 1..k}
    OBVIOUS
  <1>6. fs \in Seq(S)
    BY ONLY k \in Nat, <1>4, <1>5
  <1>7. PICK W : W = S \X {1, 2}
    OBVIOUS
  <1>8. WireOf(o) \in Seq(W)
    <2>1. WireOf(o) = Units(fs)
      BY <1>1, <1>3 DEF WireOf
    <2>2. Units(fs) \in Seq(S \X {1, 2})
      BY ONLY <1>6, UnitsFacts
    <2> QED BY ONLY <1>7, <2>1, <2>2, Zenon
  <1>9. \A u \in W : u[1].s = o.s
    BY <1>4, <1>5, <1>7
  <1> QED BY ONLY <1>8, <1>9, Zenon

\* What the server learns from what is written of a packet on stream s.
Learns(v, w, s) ==
    /\ w.s = v.s /\ w.m = v.m /\ w.ended = v.ended /\ w.huge = v.huge /\ w.gone = v.gone /\ w.cut = v.cut
    /\ w.seen \subseteq v.seen \cup {s}

\* What is written opens no stream but that of the call.
LEMMA ServeSeen ==
    ASSUME NEW v, IsServer(v), NEW W, NEW b \in Seq(W), NEW units, b = v.buf \o units, NEW s,
           \A u \in W : u[1].s = s, NEW w, w = Serve(v, units)
    PROVE  Learns(v, w, s)
  <1> DEFINE h == Len(b) \div 2
             ok(i) == Parsed(SubSeq(b, 2 * i - 1, 2 * i)) = "frame"
             opened == {b[2 * i][1].s : i \in {j \in 1..h : ok(j) /\ b[2 * j][1].kind = "INVOKE"}}
             bad == \E i \in 1..h : ~ok(i)
  <1>1. w = [v EXCEPT !.buf = SubSeq(b, 2 * h + 1, Len(b)),
                      !.garbled = @ \/ bad,
                      !.seen = @ \cup opened]
    BY DEF Serve
  <1>2. opened \subseteq {s}
    <2>1. ASSUME NEW i \in 1..h PROVE b[2 * i] \in W
      <3>1. PICK l \in Nat : l = Len(b)
        OBVIOUS
      <3>2. PICK k \in Nat : k = l \div 2 /\ 2 * k <= l
        <4>1. l \div 2 \in Nat /\ 2 * (l \div 2) <= l
          BY ONLY l \in Nat, HalfFacts
        <4> QED BY ONLY <4>1, Zenon
      <3>3. i \in 1..k
        BY <3>1, <3>2
      <3>4. PICK x \in 1..l : x = 2 * i
        <4>1. 2 * i \in 1..l
          BY ONLY l \in Nat, k \in Nat, <3>2, <3>3
        <4> QED BY ONLY <4>1, Zenon
      <3>5. b[x] \in W
        BY ONLY b \in Seq(W), <3>1, <3>4
      <3> QED BY ONLY <3>4, <3>5, Zenon
    <2> QED BY <2>1
  <1> HIDE DEF opened, ok, bad, h
  <1>3. PICK x, y, z : w = [v EXCEPT !.buf = x, !.garbled = y, !.seen = z] /\ z = v.seen \cup opened
    <2>1. PICK x : x = SubSeq(b, 2 * h + 1, Len(b))
      OBVIOUS
    <2>2. PICK y : y = (v.garbled \/ bad)
      OBVIOUS
    <2>3. PICK z : z = v.seen \cup opened
      OBVIOUS
    <2>4. w = [v EXCEPT !.buf = x, !.garbled = y, !.seen = z]
      BY ONLY <1>1, <2>1, <2>2, <2>3, Zenon
    <2> QED BY ONLY <2>3, <2>4, Zenon
  <1>4. /\ w.s = v.s /\ w.m = v.m /\ w.ended = v.ended /\ w.huge = v.huge /\ w.gone = v.gone /\ w.cut = v.cut
        /\ w.seen = z
    BY ONLY IsServer(v), <1>3 DEF IsServer, SrvFields
  <1> QED BY <1>2, <1>3, <1>4 DEF Learns

\* A write leaves what is read alone.
LEMMA WritesRight ==
    ASSUME WireInv, ReadInv, Writes
    PROVE  ReadInv'
  <1>1. Streaming /\ LastRight
    BY DEF ReadInv
  <1>2. /\ op # None /\ Writing /\ UNCHANGED <<down, sent, got, buf, asm, pending>>
    BY DEF Writes, Writing
  <1>3. /\ IsServer(srv)
        /\ op \in [call : Calls, s : Nat, mid : Nat, todo : Seq(StepKinds), off : Nat, was : BOOLEAN]
        /\ op.off < Len(WireOf(op)) /\ srv.buf = Torn(WireOf(op), op.off)
    BY <1>2 DEF WireInv, WireTypeOK, WireClean
  <1>4. PICK W : WireOf(op) \in Seq(W) /\ \A u \in W : u[1].s = op.s
    BY WireStream
  <1>5. PICK wire \in Seq(W), off \in Nat, l \in Nat :
           wire = WireOf(op) /\ off = op.off /\ l = Len(wire) /\ off < l
    <2>1. WireOf(op) \in Seq(W) /\ op.off \in Nat /\ Len(WireOf(op)) \in Nat /\ op.off < Len(WireOf(op))
      BY <1>3, <1>4
    <2> QED BY ONLY <2>1, Zenon
  <1>6. PICK n \in {1, l - off} :
           /\ srv' = Serve(srv, SubSeq(wire, off + 1, off + n))
           /\ IF n = l - off THEN StepDone(op.mid + 1)
              ELSE /\ op' = [op EXCEPT !.off = @ + n]
                   /\ UNCHANGED <<poisoned, next, calls, last, stream>>
    BY <1>5 DEF Writes
  <1>7. n \in Nat /\ off + n \in Nat /\ off <= off + n /\ off + n <= l
    BY <1>5
  <1>8. PICK b \in Seq(W), units \in Seq(W) : b = srv.buf \o units /\ units = SubSeq(wire, off + 1, off + n)
    <2>1. PICK u : u = SubSeq(wire, off + 1, off + n)
      OBVIOUS
    <2>2. u \in Seq(W)
      <3>1. PICK to \in Nat : to = off + n
        BY <1>7
      <3>2. off <= to /\ to <= Len(wire)
        BY <1>5, <1>7, <3>1
      <3>3. SubSeq(wire, off + 1, to) \in Seq(W)
        BY ONLY wire \in Seq(W), off \in Nat, to \in Nat, <3>2, PartFacts
      <3> QED BY ONLY <2>1, <3>1, <3>3, Zenon
    <2>3. srv.buf \in Seq(W)
      <3>1. PICK e \in Nat : e = 2 * (off \div 2) /\ e <= off
        <4>1. 2 * (off \div 2) \in Nat /\ 2 * (off \div 2) <= off
          BY HalfFacts
        <4> QED BY ONLY <4>1, Zenon
      <3>2. e <= off /\ off <= Len(wire)
        BY <1>5, <3>1
      <3>3. SubSeq(wire, e + 1, off) \in Seq(W)
        BY ONLY wire \in Seq(W), off \in Nat, e \in Nat, <3>2, PartFacts
      <3>4. srv.buf = SubSeq(wire, e + 1, off)
        BY ONLY <1>3, <1>5, <3>1, Zenon DEF Torn
      <3> QED BY ONLY <3>3, <3>4, Zenon
    <2>4. srv.buf \o u \in Seq(W)
      BY ONLY <2>2, <2>3
    <2> QED BY ONLY <2>1, <2>2, <2>4, Zenon
  <1>9. SameServer /\ srv'.seen \subseteq srv.seen \cup {op.s}
    <2>1. PICK v : v = srv
      OBVIOUS
    <2>2. PICK w : w = srv'
      OBVIOUS
    <2>3. IsServer(v) /\ b = v.buf \o units /\ w = Serve(v, units)
      BY ONLY <1>3, <1>6, <1>8, <2>1, <2>2, Zenon
    <2>4. PICK s : s = op.s /\ \A u \in W : u[1].s = s
      BY ONLY <1>4, Zenon
    <2>5. Learns(v, w, s)
      BY ONLY b \in Seq(W), <2>3, <2>4, ServeSeen
    <2> QED BY ONLY <2>1, <2>2, <2>4, <2>5, Zenon DEF Learns, SameServer
  <1>10. Control /\ (last' = last \/ last'.outcome \notin {"closed", "truncated", "frame", "unexpected"})
    <2>1. CASE n = l - off
      <3>1. StepDone(op.mid + 1) /\ op.mid + 1 \in Nat
        BY <1>3, <1>6, <2>1
      <3>2. Control /\ (last' = last \/ last' = [call |-> op.call, s |-> op.s, outcome |-> "ok"])
        BY <1>1, <1>2, <3>1, StepDoneControl
      <3> QED BY <3>2
    <2>2. CASE n # l - off
      <3>1. op' = [op EXCEPT !.off = @ + n] /\ UNCHANGED <<next, calls, last, stream>>
        BY <1>6, <2>2
      <3>2. op'.s = op.s /\ op'.todo = op.todo /\ op'.call = op.call
        BY <1>3, <3>1
      <3>3. op' # None
        <4>1. op.off + n \in Nat
          BY <1>3, <1>7
        <4>2. op' \in [call : Calls, s : Nat, mid : Nat, todo : Seq(StepKinds), off : Nat, was : BOOLEAN]
          BY <1>3, <3>1, <4>1
        <4> QED BY ONLY <4>2, ConnAssumption, Zenon
      <3>4. Probing'
        BY <1>1, <1>2, <3>2 DEF Streaming, Probing
      <3> QED BY <3>1, <3>2, <3>3, <3>4 DEF Control
    <2> QED BY <2>1, <2>2
  <1>11. Streaming' /\ LastRight'
    BY <1>1, <1>2, <1>9, <1>10, StreamingMoves, LastMoves
  <1>12. ASSUME NEW F \in Seq(Frame), Arriving(F) PROVE Arriving(F)'
    <2>1. Pipe(buf', down', F)
      BY <1>2, <1>12 DEF Arriving
    <2> QED BY <1>2, <1>9, <1>12, <2>1, ArrivingMoves
  <1> QED BY <1>2, <1>9, <1>10, <1>11, <1>12, StillRight

\* So does a flush.
LEMMA FlushesRight ==
    ASSUME WireInv, ReadInv, Flushes
    PROVE  ReadInv'
  <1>1. /\ op # None /\ StepDone(op.mid) /\ UNCHANGED <<srv, sent, down, got, buf, asm, pending>>
        /\ Streaming /\ LastRight /\ op.mid \in Nat
    BY DEF Flushes, serverVars, ReadInv, WireInv, WireTypeOK
  <1>2. Control /\ (last' = last \/ last' = [call |-> op.call, s |-> op.s, outcome |-> "ok"])
    BY <1>1, StepDoneControl
  <1>3. last' = last \/ last'.outcome \notin {"closed", "truncated", "frame", "unexpected"}
    BY <1>2
  <1>4. Streaming' /\ LastRight'
    BY <1>1, <1>2, <1>3, StreamingKept, LastKept
  <1>5. \A X \in Seq(Frame) : Arriving(X) => Arriving(X)'
    BY <1>1, ArrivingKept
  <1> QED BY <1>1, <1>2, <1>4, <1>5, StillRight DEF SameServer

-----------------------------------------------------------------------------
(* The server's steps *)

\* The frames of an answer.
OutRight(out, s, m, a) ==
    /\ out \in Seq(Frame) /\ Len(out) >= 1
    /\ \A i \in 1..Len(out) : /\ out[i].s = s /\ out[i].m = m /\ out[i].kind = a.kind
                              /\ out[i].control = (a.kind = "PING")
    /\ a.kind = "MESSAGE" =>
          /\ \A i \in 1..Len(out) : /\ out[i].data = <<<<s, m, i>>>> /\ Part(out[i]) = i
                                    /\ out[i].done = (i = a.n)
          /\ Len(out) = IF a.cut THEN 1 ELSE a.n
    /\ a.kind # "MESSAGE" => Len(out) = 1 /\ out[1].data = <<>> /\ Part(out[1]) = 0 /\ out[1].done = TRUE

\* The kinds and sizes of an answer.
LEMMA AnswerFacts ==
    ASSUME NEW a \in Answers
    PROVE  /\ a.kind \in AnswerKinds /\ a.n \in Nat /\ a.cut \in BOOLEAN
           /\ a.kind = "MESSAGE" /\ ~a.cut => a.n \in {MaxPacket, MaxPacket + 1} /\ a.n >= 1
           /\ a.cut => a.kind = "MESSAGE" /\ a.n = 2
           /\ a.kind # "MESSAGE" => a.n = 0
  <1>1. CASE a \in {[kind |-> "MESSAGE", n |-> k, cut |-> FALSE] : k \in {MaxPacket, MaxPacket + 1}}
    <2>1. PICK k \in {MaxPacket, MaxPacket + 1} : a = [kind |-> "MESSAGE", n |-> k, cut |-> FALSE]
      BY <1>1
    <2>2. a.kind = "MESSAGE" /\ a.n = k /\ a.cut = FALSE
      BY ONLY <2>1
    <2>3. k \in Nat /\ k >= 1
      BY ConnAssumption
    <2> QED BY <2>2, <2>3 DEF AnswerKinds
  <1>2. CASE a \in {[kind |-> k, n |-> 0, cut |-> FALSE] : k \in {"ERROR", "CLOSE", "CLOSE_SEND", "PING"}}
    <2>1. PICK k \in {"ERROR", "CLOSE", "CLOSE_SEND", "PING"} : a = [kind |-> k, n |-> 0, cut |-> FALSE]
      BY <1>2
    <2>2. a.kind = k /\ a.n = 0 /\ a.cut = FALSE
      BY ONLY <2>1
    <2>3. k # "MESSAGE" /\ k \in AnswerKinds
      BY ONLY k \in {"ERROR", "CLOSE", "CLOSE_SEND", "PING"} DEF AnswerKinds
    <2>4. 0 \in Nat
      OBVIOUS
    <2> QED BY ONLY <2>2, <2>3, <2>4
  <1>3. CASE a = [kind |-> "MESSAGE", n |-> 2, cut |-> TRUE]
    <2>1. a.kind = "MESSAGE" /\ a.n = 2 /\ a.cut = TRUE
      BY ONLY <1>3
    <2>2. "MESSAGE" \in AnswerKinds /\ 2 \in Nat
      BY ONLY TRUE DEF AnswerKinds
    <2> QED BY ONLY <2>1, <2>2
  <1> QED BY <1>1, <1>2, <1>3 DEF Answers

\* The frames an answer is sent in.
LEMMA OutFacts ==
    ASSUME NEW s \in Nat \ {0}, NEW m \in Nat, NEW a \in Answers, NEW fs, NEW out,
           fs = Frames(s, m, a.kind, a.kind = "PING", a.n), out = IF a.cut THEN SubSeq(fs, 1, 1) ELSE fs
    PROVE  OutRight(out, s, m, a)
  <1>1. /\ a.kind \in AnswerKinds /\ a.n \in Nat /\ a.cut \in BOOLEAN
        /\ a.kind = "MESSAGE" /\ ~a.cut => a.n >= 1
        /\ a.cut => a.kind = "MESSAGE" /\ a.n = 2
        /\ a.kind # "MESSAGE" => a.n = 0
    BY AnswerFacts
  <1>2. PICK n \in Nat, kind \in AnswerKinds, c \in BOOLEAN : n = a.n /\ kind = a.kind /\ c = (a.kind = "PING")
    BY <1>1
  <1>3. PICK k \in Nat : k = (IF n = 0 THEN 1 ELSE n) /\ k >= 1
    OBVIOUS
  <1>4. fs = [i \in 1..k |-> [s |-> s, m |-> m, kind |-> kind, control |-> c, done |-> i >= n,
                              data |-> IF n = 0 THEN <<>> ELSE <<<<s, m, i>>>>]]
    BY <1>2, <1>3 DEF Frames
  <1>5. ASSUME NEW i \in 1..k
        PROVE  /\ fs[i] \in Frame
               /\ fs[i].s = s /\ fs[i].m = m /\ fs[i].kind = kind /\ fs[i].control = c /\ fs[i].done = (i >= n)
               /\ fs[i].data = IF n = 0 THEN <<>> ELSE <<<<s, m, i>>>>
               /\ Part(fs[i]) = IF n = 0 THEN 0 ELSE i
    <2>1. PICK d \in Seq(Payload) : d = IF n = 0 THEN <<>> ELSE <<<<s, m, i>>>>
      <3>1. PICK x \in Payload : x = <<s, m, i>>
        <4>1. <<s, m, i>> \in Payload
          BY DEF Payload
        <4> QED BY ONLY <4>1, Zenon
      <3>2. <<x>> \in Seq(Payload) /\ <<>> \in Seq(Payload)
        OBVIOUS
      <3>3. (IF n = 0 THEN <<>> ELSE <<x>>) \in Seq(Payload)
        BY ONLY <3>2
      <3> QED BY ONLY <3>1, <3>3, Zenon
    <2>2. PICK e \in BOOLEAN : e = (i >= n)
      <3>1. (i >= n) \in BOOLEAN
        OBVIOUS
      <3> QED BY ONLY <3>1, Zenon
    <2>3. fs[i] = [s |-> s, m |-> m, kind |-> kind, control |-> c, done |-> e, data |-> d]
      <3>1. fs[i] = [s |-> s, m |-> m, kind |-> kind, control |-> c, done |-> i >= n,
                     data |-> IF n = 0 THEN <<>> ELSE <<<<s, m, i>>>>]
        BY ONLY i \in 1..k, <1>4
      <3> QED BY ONLY <2>1, <2>2, <3>1, Zenon
    <2>4. /\ fs[i] \in Frame
          /\ fs[i].s = s /\ fs[i].m = m /\ fs[i].kind = kind /\ fs[i].control = c /\ fs[i].done = e
          /\ fs[i].data = d
      BY ONLY s \in Nat \ {0}, m \in Nat, kind \in AnswerKinds, c \in BOOLEAN, e \in BOOLEAN, d \in Seq(Payload), <2>3 DEF Frame
    <2>5. Part(fs[i]) = IF n = 0 THEN 0 ELSE i
      <3>1. CASE n = 0
        BY <2>1, <2>4, <3>1 DEF Part
      <3>2. CASE n # 0
        <4>1. d = <<<<s, m, i>>>>
          BY <2>1, <3>2
        <4>2. d # <<>> /\ d[1] = <<s, m, i>>
          BY ONLY <4>1
        <4>3. d[1][3] = i
          BY ONLY <4>2
        <4> QED BY ONLY <2>4, <3>2, <4>2, <4>3 DEF Part
      <3> QED BY <3>1, <3>2
    <2> QED BY ONLY <2>1, <2>2, <2>4, <2>5, Zenon
  <1>6. fs \in Seq(Frame) /\ Len(fs) = k
    <2>1. DOMAIN fs = 1..k /\ fs = [i \in 1..k |-> fs[i]]
      BY ONLY <1>4
    <2>2. \A i \in 1..k : fs[i] \in Frame
      BY <1>5
    <2> QED BY ONLY k \in Nat, <2>1, <2>2
  <1>7. PICK l \in 1..k : /\ out \in Seq(Frame) /\ Len(out) = l /\ (\A i \in 1..l : out[i] = fs[i])
                          /\ l = IF a.cut THEN 1 ELSE k
    <2>1. CASE a.cut
      <3>1. PICK lo \in Nat, hi \in Nat : lo = 0 /\ hi = 1 /\ lo <= hi /\ hi <= Len(fs)
        <4>1. 0 \in Nat /\ 1 \in Nat /\ 0 <= 1 /\ 1 <= Len(fs)
          BY <1>3, <1>6
        <4> QED BY ONLY <4>1, Zenon
      <3>2. /\ SubSeq(fs, lo + 1, hi) \in Seq(Frame)
            /\ Len(SubSeq(fs, lo + 1, hi)) = hi - lo
            /\ \A i \in 1..(hi - lo) : SubSeq(fs, lo + 1, hi)[i] = fs[lo + i]
        BY ONLY <1>6, lo \in Nat, hi \in Nat, <3>1, PartFacts
      <3>3. lo + 1 = 1 /\ hi - lo = 1 /\ \A i \in 1..1 : lo + i = i
        BY ONLY <3>1
      <3>4. out = SubSeq(fs, lo + 1, hi)
        BY <2>1, <3>1, <3>3
      <3>5. out \in Seq(Frame) /\ Len(out) = 1 /\ \A i \in 1..1 : out[i] = fs[i]
        BY ONLY <3>2, <3>3, <3>4
      <3>6. 1 \in 1..k
        BY <1>3
      <3> QED BY <2>1, <3>5, <3>6
    <2>2. CASE ~a.cut
      <3>1. out = fs /\ k \in 1..k
        BY <1>3, <2>2
      <3> QED BY <1>6, <2>2, <3>1
    <2> QED BY <1>1, <2>1, <2>2
  <1>8. \A i \in 1..l : i \in 1..k
    OBVIOUS
  <1>9. ASSUME NEW i \in 1..Len(out)
        PROVE  out[i].s = s /\ out[i].m = m /\ out[i].kind = a.kind /\ out[i].control = (a.kind = "PING")
    <2>1. i \in 1..k /\ out[i] = fs[i]
      BY <1>7, <1>8
    <2>2. fs[i].s = s /\ fs[i].m = m /\ fs[i].kind = kind /\ fs[i].control = c
      BY <1>5, <2>1
    <2> QED BY ONLY <1>2, <2>1, <2>2, Zenon
  <1>10. ASSUME a.kind = "MESSAGE"
         PROVE  /\ \A i \in 1..Len(out) : /\ out[i].data = <<<<s, m, i>>>> /\ Part(out[i]) = i
                                          /\ out[i].done = (i = a.n)
                /\ Len(out) = IF a.cut THEN 1 ELSE a.n
    <2>1. n # 0 /\ k = n
      BY <1>1, <1>2, <1>3, <1>10
    <2>2. ASSUME NEW i \in 1..l
          PROVE  out[i].data = <<<<s, m, i>>>> /\ Part(out[i]) = i /\ out[i].done = (i = a.n)
      <3>1. /\ out[i] = fs[i] /\ i \in 1..k
            /\ fs[i].data = IF n = 0 THEN <<>> ELSE <<<<s, m, i>>>>
            /\ Part(fs[i]) = IF n = 0 THEN 0 ELSE i
            /\ fs[i].done = (i >= n)
        BY <1>5, <1>7, <1>8
      <3>2. (i >= n) = (i = n)
        BY <2>1, <3>1
      <3> QED BY ONLY <1>2, <2>1, <3>1, <3>2
    <2>3. Len(out) = IF a.cut THEN 1 ELSE a.n
      BY <1>2, <1>7, <2>1
    <2> QED BY <1>7, <2>2, <2>3
  <1>11. ASSUME a.kind # "MESSAGE"
         PROVE  Len(out) = 1 /\ out[1].data = <<>> /\ Part(out[1]) = 0 /\ out[1].done = TRUE
    <2>1. n = 0 /\ k = 1 /\ ~a.cut
      BY <1>1, <1>2, <1>3, <1>11
    <2>2. 1 \in 1..k /\ l = 1 /\ 1 >= n
      BY <1>7, <2>1
    <2> QED BY <1>5, <1>7, <2>1, <2>2
  <1>12. Len(out) >= 1
    BY <1>7
  <1> QED BY <1>7, <1>9, <1>10, <1>11, <1>12 DEF OutRight

\* The server sends answer a on stream s, as packet m of it.
NewAnswer(s, m, a) ==
    /\ s \in Streams /\ s \in Nat \ {0} /\ s < next /\ s \notin srv.ended /\ ~srv.gone
    /\ m \in Nat \ {0} /\ a \in Answers
    /\ (srv.s < s /\ m = 1) \/ (srv.s = s /\ m = srv.m + 1)
    /\ srv'.s = s /\ srv'.m = m /\ srv'.cut = (IF a.cut THEN 1 ELSE 0)
    /\ srv'.gone = srv.gone /\ srv'.seen = srv.seen
    /\ srv.huge => srv'.huge
    /\ a.n > MaxPacket => srv'.huge
    /\ srv'.ended = srv.ended \cup (IF a.kind \in Ends THEN {s} ELSE {})
    /\ sent' = IF a.kind = "MESSAGE" /\ ~a.cut THEN [sent EXCEPT ![s] = Append(@, <<a.n, m>>)] ELSE sent
    /\ UNCHANGED <<op, stream, next, calls, last, buf, asm, pending, got>>

\* The server sends an answer.
LEMMA SendsFacts ==
    ASSUME WireInv, Streaming, ServerSends
    PROVE  \E s, m, a, out : NewAnswer(s, m, a) /\ OutRight(out, s, m, a) /\ down' = down \o Units(out)
  <1>1. PICK s \in srv.seen, a \in Answers :
           LET m == IF s = srv.s THEN srv.m + 1 ELSE 1
               fs == Frames(s, m, a.kind, a.kind = "PING", a.n)
               out == IF a.cut THEN SubSeq(fs, 1, 1) ELSE fs
           IN  /\ s >= srv.s /\ s \notin srv.ended
               /\ down' = down \o Units(out)
               /\ srv' = [srv EXCEPT !.s = s, !.m = m, !.left = @ - 1,
                                     !.cut = IF a.cut THEN 1 ELSE 0,
                                     !.huge = @ \/ a.n > MaxPacket,
                                     !.ended = @ \cup (IF a.kind \in {"ERROR", "CLOSE", "CLOSE_SEND"}
                                                       THEN {s} ELSE {})]
               /\ sent' = IF a.kind = "MESSAGE" /\ ~a.cut
                          THEN [sent EXCEPT ![s] = Append(@, <<a.n, m>>)] ELSE sent
    BY Zenon DEF ServerSends
  <1>2. PICK m : m = IF s = srv.s THEN srv.m + 1 ELSE 1
    OBVIOUS
  <1>3. PICK fs, out : /\ fs = Frames(s, m, a.kind, a.kind = "PING", a.n)
                       /\ out = IF a.cut THEN SubSeq(fs, 1, 1) ELSE fs
    OBVIOUS
  <1>4. /\ s >= srv.s /\ s \notin srv.ended /\ down' = down \o Units(out)
        /\ srv' = [srv EXCEPT !.s = s, !.m = m, !.left = @ - 1,
                              !.cut = IF a.cut THEN 1 ELSE 0,
                              !.huge = @ \/ a.n > MaxPacket,
                              !.ended = @ \cup (IF a.kind \in {"ERROR", "CLOSE", "CLOSE_SEND"}
                                                THEN {s} ELSE {})]
        /\ sent' = IF a.kind = "MESSAGE" /\ ~a.cut
                   THEN [sent EXCEPT ![s] = Append(@, <<a.n, m>>)] ELSE sent
    BY ONLY <1>1, <1>2, <1>3, Zenon
  <1>5. PICK left, cut, huge, ended :
           /\ srv' = [srv EXCEPT !.s = s, !.m = m, !.left = left, !.cut = cut, !.huge = huge, !.ended = ended]
           /\ cut = (IF a.cut THEN 1 ELSE 0) /\ huge = (srv.huge \/ a.n > MaxPacket)
           /\ ended = srv.ended \cup (IF a.kind \in Ends THEN {s} ELSE {})
    <2>1. PICK left : left = srv.left - 1
      OBVIOUS
    <2>2. PICK cut : cut = IF a.cut THEN 1 ELSE 0
      OBVIOUS
    <2>3. PICK huge : huge = (srv.huge \/ a.n > MaxPacket)
      OBVIOUS
    <2>4. PICK ended : ended = srv.ended \cup (IF a.kind \in Ends THEN {s} ELSE {})
      OBVIOUS
    <2>5. srv' = [srv EXCEPT !.s = s, !.m = m, !.left = left, !.cut = cut, !.huge = huge, !.ended = ended]
      BY ONLY <1>4, <2>1, <2>2, <2>3, <2>4, Zenon DEF Ends
    <2> QED BY ONLY <2>2, <2>3, <2>4, <2>5, Zenon
  <1>6. /\ srv'.s = s /\ srv'.m = m /\ srv'.cut = cut /\ srv'.huge = huge /\ srv'.ended = ended
        /\ srv'.gone = srv.gone /\ srv'.seen = srv.seen
    <2>1. IsServer(srv)
      BY DEF WireInv, WireTypeOK
    <2> QED BY ONLY <1>5, <2>1 DEF IsServer, SrvFields
  <1>7. /\ srv.seen \subseteq 1..(next - 1) /\ srv.s \in Nat /\ srv.m \in Nat /\ next \in Nat \ {0}
        /\ calls.left \in Nat
    BY DEF Streaming
  <1>8. s \in Nat \ {0} /\ s < next
    BY <1>7
  <1>9. m \in Nat \ {0} /\ ((srv.s < s /\ m = 1) \/ (srv.s = s /\ m = srv.m + 1))
    BY <1>2, <1>4, <1>7, <1>8
  <1>10. s \in Streams
    <2>1. PICK b \in Budgets \cup {NoCall, OneCall} : next + calls.left <= b.calls + 1
      BY DEF Streaming
    <2>2. b.calls \in Nat
      BY <2>1, ConnAssumption DEF NoCall, OneCall
    <2>3. s \in 1..b.calls
      BY <1>7, <1>8, <2>1, <2>2
    <2>4. b # NoCall
      <3>1. NoCall.calls = 0
        BY DEF NoCall
      <3> QED BY <1>8, <2>3, <3>1
    <2> QED BY <2>1, <2>3, <2>4 DEF Streams
  <1>11. UNCHANGED <<op, stream, next, calls, last, buf, asm, pending, got>> /\ ~srv.gone
    BY DEF ServerSends, clientVars
  <1>12. NewAnswer(s, m, a)
    BY ONLY a \in Answers, <1>4, <1>5, <1>6, <1>8, <1>9, <1>10, <1>11, Zenon DEF NewAnswer
  <1>13. OutRight(out, s, m, a)
    <2>1. m \in Nat
      BY <1>9
    <2> QED BY ONLY a \in Answers, <1>3, <1>8, <2>1, OutFacts
  <1> QED BY ONLY <1>4, <1>12, <1>13, Zenon

\* What was sent stays so, and at most one message is new.
Grown(s, m, a) ==
    /\ sent' \in [Streams -> Seq(Nat \X Nat)]
    /\ \A x \in Streams : x # s => sent'[x] = sent[x]
    /\ \A x \in Streams : /\ Len(sent[x]) \in Nat /\ Len(sent'[x]) \in Nat /\ Len(sent[x]) <= Len(sent'[x])
                          /\ \A j \in 1..Len(sent[x]) : sent'[x][j] = sent[x][j]
    /\ a.kind = "MESSAGE" /\ ~a.cut => /\ Len(sent'[s]) = Len(sent[s]) + 1
                                       /\ sent'[s][Len(sent[s]) + 1] = <<a.n, m>>
    /\ ~(a.kind = "MESSAGE" /\ ~a.cut) => sent' = sent

\* The server sends an answer: what was sent grows by no more than it.
LEMMA SentGrows ==
    ASSUME SentRight, NEW s, NEW m, NEW a, NewAnswer(s, m, a)
    PROVE  Grown(s, m, a)
  <1>1. sent \in [Streams -> Seq(Nat \X Nat)] /\ s \in Streams
    BY DEF SentRight, NewAnswer
  <1>2. CASE a.kind = "MESSAGE" /\ ~a.cut
    <2>1. PICK x \in Nat \X Nat : x = <<a.n, m>>
      <3>1. a.n \in Nat /\ m \in Nat
        BY AnswerFacts DEF NewAnswer
      <3>2. <<a.n, m>> \in Nat \X Nat
        BY ONLY <3>1
      <3> QED BY ONLY <3>2, Zenon
    <2>2. PICK S \in Seq(Nat \X Nat) : S = sent[s]
      <3>1. sent[s] \in Seq(Nat \X Nat)
        BY <1>1
      <3> QED BY ONLY <3>1, Zenon
    <2>3. PICK T \in Seq(Nat \X Nat) : T = Append(S, x)
      <3>1. Append(S, x) \in Seq(Nat \X Nat)
        OBVIOUS
      <3> QED BY ONLY <3>1, Zenon
    <2>4. Len(S) \in Nat /\ Len(T) = Len(S) + 1 /\ T[Len(S) + 1] = x /\ \A j \in 1..Len(S) : T[j] = S[j]
      BY <2>3
    <2>5. sent' = [sent EXCEPT ![s] = T]
      <3>1. sent' = [sent EXCEPT ![s] = Append(@, <<a.n, m>>)]
        BY <1>2 DEF NewAnswer
      <3> QED BY ONLY <2>1, <2>2, <2>3, <3>1, Zenon
    <2>6. /\ sent' \in [Streams -> Seq(Nat \X Nat)] /\ sent'[s] = T
          /\ \A y \in Streams : y # s => sent'[y] = sent[y]
      BY <1>1, <2>5
    <2>7. ASSUME NEW y \in Streams
          PROVE  /\ Len(sent[y]) \in Nat /\ Len(sent'[y]) \in Nat /\ Len(sent[y]) <= Len(sent'[y])
                 /\ \A j \in 1..Len(sent[y]) : sent'[y][j] = sent[y][j]
      <3>1. CASE y = s
        BY <2>2, <2>4, <2>6, <3>1
      <3>2. CASE y # s
        <4>1. sent'[y] = sent[y] /\ Len(sent[y]) \in Nat
          BY <1>1, <2>6, <3>2
        <4> QED BY ONLY <4>1
      <3> QED BY <3>1, <3>2
    <2> QED BY <1>2, <2>1, <2>2, <2>4, <2>6, <2>7 DEF Grown
  <1>3. CASE ~(a.kind = "MESSAGE" /\ ~a.cut)
    <2>1. sent' = sent
      BY <1>3 DEF NewAnswer
    <2>2. \A x \in Streams : Len(sent[x]) \in Nat
      BY <1>1
    <2> QED BY <1>1, <1>3, <2>1, <2>2 DEF Grown
  <1> QED BY <1>2, <1>3

\* What a stream was sent comes before a new answer on it.
LEMMA SentBefore ==
    ASSUME Streaming, SentRight, NEW s, NEW m, NEW a, NewAnswer(s, m, a)
    PROVE  \A j \in 1..Len(sent[s]) : sent[s][j][2] \in Nat /\ sent[s][j][2] < m
  <1>1. /\ s \in Streams /\ s \in Nat /\ m \in Nat
        /\ (srv.s < s /\ m = 1) \/ (srv.s = s /\ m = srv.m + 1)
    BY DEF NewAnswer
  <1>2. srv.s \in Nat /\ srv.m \in Nat
    BY ServerTypes
  <1>3. \A j \in 1..Len(sent[s]) : sent[s][j][2] \in Nat
    <2>1. PICK S \in Seq(Nat \X Nat) : S = sent[s]
      <3>1. sent[s] \in Seq(Nat \X Nat)
        BY <1>1 DEF SentRight
      <3> QED BY ONLY <3>1, Zenon
    <2>2. \A j \in 1..Len(S) : S[j][2] \in Nat
      BY ONLY S \in Seq(Nat \X Nat)
    <2> QED BY ONLY <2>1, <2>2, Zenon
  <1>4. CASE srv.s < s
    <2>1. s > srv.s
      BY <1>1, <1>2, <1>4
    <2>2. sent[s] = <<>>
      BY <1>1, <2>1 DEF SentRight
    <2>3. Len(sent[s]) = 0
      BY <2>2
    <2> QED BY <2>3
  <1>5. CASE srv.s = s /\ m = srv.m + 1
    <2>1. \A j \in 1..Len(sent[s]) : sent[s][j][2] <= srv.m
      BY <1>1, <1>5 DEF SentRight
    <2> QED BY <1>2, <1>3, <1>5, <2>1
  <1> QED BY <1>1, <1>4, <1>5

\* What is on its way stays sound.
LEMMA SoundGrows ==
    ASSUME Streaming, SentRight, NEW s, NEW m, NEW a, NewAnswer(s, m, a)
    PROVE  /\ \A x : SoundFrame(x) => SoundFrame(x)'
           /\ \A x : SoundPacket(x) => SoundPacket(x)'
  <1>1. /\ \A x \in Streams : x # s => sent'[x] = sent[x]
        /\ \A x \in Streams : /\ Len(sent[x]) \in Nat /\ Len(sent'[x]) \in Nat /\ Len(sent[x]) <= Len(sent'[x])
                              /\ \A j \in 1..Len(sent[x]) : sent'[x][j] = sent[x][j]
    <2>1. Grown(s, m, a)
      BY ONLY SentRight, NewAnswer(s, m, a), SentGrows
    <2> QED BY ONLY <2>1, Zenon DEF Grown
  <1>2. s \notin srv.ended /\ srv.ended \subseteq srv'.ended /\ (srv.huge => srv'.huge)
    BY DEF NewAnswer
  <1>3. ASSUME NEW p, NEW n, p.s \in Streams, Sound(p, n) PROVE Sound(p, n)'
    <2>1. ASSUME p.kind = "MESSAGE" PROVE \E j \in 1..Len(sent'[p.s]) : sent'[p.s][j] = <<n, p.m>>
      <3>1. PICK j \in 1..Len(sent[p.s]) : sent[p.s][j] = <<n, p.m>>
        BY <1>3, <2>1 DEF Sound
      <3>2. j \in 1..Len(sent'[p.s]) /\ sent'[p.s][j] = sent[p.s][j]
        BY <1>1, <1>3
      <3> QED BY <3>1, <3>2
    <2>2. ASSUME p.kind \in Ends PROVE p.s \in srv'.ended /\ \A j \in 1..Len(sent'[p.s]) : sent'[p.s][j][2] < p.m
      <3>1. p.s \in srv.ended /\ \A j \in 1..Len(sent[p.s]) : sent[p.s][j][2] < p.m
        BY <1>3, <2>2 DEF Sound
      <3>2. sent'[p.s] = sent[p.s]
        BY <1>1, <1>2, <1>3, <3>1
      <3> QED BY <1>2, <3>1, <3>2
    <2>3. p.control = (p.kind = "PING")
      BY <1>3 DEF Sound
    <2> QED BY <2>1, <2>2, <2>3 DEF Sound
  <1>4. /\ srv.s \in Nat /\ srv.m \in Nat /\ srv'.s \in Nat /\ srv'.m \in Nat
        /\ srv.s < srv'.s \/ (srv.s = srv'.s /\ srv.m < srv'.m)
    <2>1. /\ srv'.s = s /\ srv'.m = m /\ s \in Nat /\ m \in Nat
          /\ (srv.s < s /\ m = 1) \/ (srv.s = s /\ m = srv.m + 1)
      BY DEF NewAnswer
    <2> QED BY <2>1, ServerTypes
  <1>5. ASSUME NEW x, SoundFrame(x) PROVE SoundFrame(x)'
    <2>1. x \in Frame /\ x.s \in Streams /\ ~Precedes(srv, x) /\ x.s \in Nat /\ x.m \in Nat
      BY <1>5 DEF SoundFrame, Frame
    <2>2. ~Precedes(srv', x)
      BY <1>4, <2>1 DEF Precedes, id_less
    <2>3. x.done => Sound(x, Part(x))'
      BY <1>3, <1>5, <2>1 DEF SoundFrame
    <2> QED BY <1>2, <1>5, <2>1, <2>2, <2>3 DEF SoundFrame, Precedes
  <1>6. ASSUME NEW x, SoundPacket(x) PROVE SoundPacket(x)'
    BY <1>3, <1>6 DEF SoundPacket
  <1> QED BY <1>5, <1>6

\* An answer opens no stream.
LEMMA AnswerStreaming ==
    ASSUME Streaming, NEW s, NEW m, NEW a, NewAnswer(s, m, a)
    PROVE  Streaming'
  <1>1. a.cut \in BOOLEAN
    BY AnswerFacts DEF NewAnswer
  <1>2. /\ srv'.s = s /\ srv'.m = m /\ s \in Nat /\ m \in Nat /\ s < next /\ srv'.cut \in {0, 1} /\ srv'.seen = srv.seen
        /\ UNCHANGED <<op, stream, next, calls>>
    BY <1>1 DEF NewAnswer
  <1> QED BY <1>2 DEF Streaming, Live, Cur, Probing

\* An answer does not belie what was reported: none comes on a stream that ended.
LEMMA AnswerLast ==
    ASSUME Streaming, LastRight, SentRight, NEW s, NEW m, NEW a, NewAnswer(s, m, a)
    PROVE  LastRight'
  <1>1. /\ ~srv.gone /\ s \notin srv.ended /\ srv.ended \subseteq srv'.ended /\ (srv.huge => srv'.huge)
        /\ UNCHANGED <<op, stream, next, last, got>>
    BY DEF NewAnswer
  <1>2. \A x \in Streams : x # s => sent'[x] = sent[x]
    <2>1. Grown(s, m, a)
      BY ONLY SentRight, NewAnswer(s, m, a), SentGrows
    <2> QED BY ONLY <2>1, Zenon DEF Grown
  <1>3. ASSUME last.call \in {"recv", "invoke"}, last.outcome = "closed"
        PROVE  last.s \in srv'.ended /\ sent'[last.s] = sent[last.s]
    BY <1>1, <1>2, <1>3 DEF LastRight
  <1> QED BY <1>1, <1>3 DEF LastRight, Live, Cur

\* An answer is new: what was sent before it comes before it.
LEMMA AnswerStocks ==
    ASSUME Streaming, Stocks, NEW s, NEW m, NEW a, NewAnswer(s, m, a)
    PROVE  Stocks'
  <1>1. SentRight /\ GotRight /\ SoundQueue
    BY DEF Stocks
  <1>2. /\ sent' \in [Streams -> Seq(Nat \X Nat)]
        /\ \A x \in Streams : x # s => sent'[x] = sent[x]
        /\ \A x \in Streams : /\ Len(sent[x]) \in Nat /\ Len(sent'[x]) \in Nat /\ Len(sent[x]) <= Len(sent'[x])
                              /\ \A j \in 1..Len(sent[x]) : sent'[x][j] = sent[x][j]
        /\ a.kind = "MESSAGE" /\ ~a.cut => /\ Len(sent'[s]) = Len(sent[s]) + 1
                                           /\ sent'[s][Len(sent[s]) + 1] = <<a.n, m>>
        /\ ~(a.kind = "MESSAGE" /\ ~a.cut) => sent' = sent
    <2>1. Grown(s, m, a)
      BY ONLY NewAnswer(s, m, a), <1>1, SentGrows
    <2> QED BY ONLY <2>1, Zenon DEF Grown
  <1>3. /\ s \in Streams /\ s \in Nat /\ m \in Nat /\ srv'.s = s /\ srv'.m = m
        /\ (srv.s < s /\ m = 1) \/ (srv.s = s /\ m = srv.m + 1)
        /\ UNCHANGED <<asm, pending, got>>
    BY DEF NewAnswer
  <1>4. srv.s \in Nat /\ srv.m \in Nat
    BY ServerTypes
  <1>5. \A x \in Streams : x \in Nat
    BY ConnAssumption DEF Streams, OneCall
  <1>6. \A x \in Streams : /\ \A j \in 1..Len(sent[x]) : sent[x][j][2] \in Nat
                           /\ \A j \in 1..Len(sent'[x]) : sent'[x][j][2] \in Nat
    <2>1. \A x \in Streams : sent[x] \in Seq(Nat \X Nat) /\ sent'[x] \in Seq(Nat \X Nat)
      BY <1>1, <1>2 DEF SentRight
    <2>2. ASSUME NEW S \in Seq(Nat \X Nat) PROVE \A j \in 1..Len(S) : S[j][2] \in Nat
      OBVIOUS
    <2> QED BY ONLY <2>1, <2>2, Zenon
  <1>7. \A j \in 1..Len(sent[s]) : sent[s][j][2] < m
    BY <1>1, SentBefore
  <1>8. ASSUME NEW j \in 1..Len(sent'[s])
        PROVE  sent'[s][j][2] <= m /\ (j \notin 1..Len(sent[s]) => /\ j = Len(sent[s]) + 1
                                                                   /\ sent'[s][j][2] = m)
    <2>1. CASE j \in 1..Len(sent[s])
      <3>1. sent'[s][j] = sent[s][j] /\ sent[s][j][2] < m /\ sent[s][j][2] \in Nat
        BY <1>2, <1>3, <1>6, <1>7, <2>1
      <3> QED BY <1>3, <2>1, <3>1
    <2>2. CASE j \notin 1..Len(sent[s])
      <3>1. a.kind = "MESSAGE" /\ ~a.cut
        BY <1>2, <2>2
      <3>2. PICK l \in Nat : l = Len(sent[s]) /\ j \in 1..(l + 1) /\ j \notin 1..l /\ sent'[s][l + 1] = <<a.n, m>>
        BY <1>2, <1>3, <2>2, <3>1
      <3>3. j = l + 1
        BY ONLY l \in Nat, <3>2
      <3>4. sent'[s][j] = <<a.n, m>>
        BY <3>2, <3>3
      <3>5. sent'[s][j][2] = m
        BY ONLY <3>4
      <3> QED BY <1>3, <3>2, <3>3, <3>5
    <2> QED BY <2>1, <2>2
  <1>9. ASSUME NEW x \in Streams
        PROVE  /\ x > srv'.s => sent'[x] = <<>>
               /\ \A j \in 1..Len(sent'[x]) : x = srv'.s => sent'[x][j][2] <= srv'.m
               /\ \A i, j \in 1..Len(sent'[x]) : i < j => sent'[x][i][2] < sent'[x][j][2]
    <2>1. CASE x = s
      <3>1. ~(x > srv'.s)
        BY <1>3, <2>1
      <3>2. ASSUME NEW i \in 1..Len(sent'[s]), NEW j \in 1..Len(sent'[s]), i < j
            PROVE  sent'[s][i][2] < sent'[s][j][2]
        <4>1. PICK l \in Nat, k \in Nat : l = Len(sent[s]) /\ k = Len(sent'[s])
          BY <1>2, <1>3
        <4>2. CASE j \in 1..l
          <5>1. i \in 1..l
            BY <3>2, <4>1, <4>2
          <5>2. sent[s][i][2] < sent[s][j][2]
            BY <1>1, <1>3, <3>2, <4>1, <4>2, <5>1 DEF SentRight
          <5>3. sent'[s][i] = sent[s][i] /\ sent'[s][j] = sent[s][j]
            BY <1>2, <1>3, <4>1, <4>2, <5>1
          <5> QED BY ONLY <5>2, <5>3
        <4>3. CASE j \notin 1..l
          <5>1. j = l + 1 /\ sent'[s][j][2] = m
            BY <1>8, <4>1, <4>3
          <5>2. i \in 1..l
            BY <3>2, <4>1, <5>1
          <5>3. sent'[s][i] = sent[s][i] /\ sent[s][i][2] < m
            BY <1>2, <1>3, <1>7, <4>1, <5>2
          <5> QED BY ONLY <5>1, <5>3
        <4> QED BY <4>2, <4>3
      <3> QED BY <1>3, <1>8, <2>1, <3>1, <3>2
    <2>2. CASE x # s
      <3>1. sent'[x] = sent[x]
        BY <1>2, <2>2
      <3>2. x > srv'.s => x > srv.s
        BY <1>3, <1>4, <1>5
      <3> QED BY <1>1, <1>3, <2>2, <3>1, <3>2 DEF SentRight
    <2> QED BY <2>1, <2>2
  <1>10. SentRight'
    BY <1>2, <1>9 DEF SentRight
  <1>11. ASSUME NEW x \in Streams
         PROVE  /\ Len(got[x]) <= Len(sent'[x])
                /\ \A i \in 1..Len(got[x]) : got[x][i] = Text(x, sent'[x][i][2], sent'[x][i][1])
    <2>1. PICK g \in Nat, l \in Nat, k \in Nat :
             g = Len(got[x]) /\ l = Len(sent[x]) /\ k = Len(sent'[x]) /\ g <= l /\ l <= k
      <3>1. got[x] \in Seq(Seq(Payload)) /\ Len(got[x]) <= Len(sent[x])
        BY <1>1 DEF GotRight
      <3>2. Len(got[x]) \in Nat
        BY ONLY <3>1
      <3> QED BY <1>2, <3>1, <3>2
    <2>2. \A i \in 1..g : i \in 1..l
      BY <2>1
    <2>3. \A i \in 1..g : got[x][i] = Text(x, sent[x][i][2], sent[x][i][1])
      BY <1>1, <2>1 DEF GotRight
    <2>4. \A i \in 1..l : sent'[x][i] = sent[x][i]
      BY <1>2, <2>1
    <2>5. g <= k
      BY ONLY g \in Nat, l \in Nat, k \in Nat, <2>1
    <2> QED BY <2>1, <2>2, <2>3, <2>4, <2>5
  <1>12. GotRight'
    BY <1>1, <1>3, <1>11 DEF GotRight
  <1>13. \A x : SoundPacket(x) => SoundPacket(x)'
    BY <1>1, SoundGrows
  <1>14. SoundQueue'
    BY <1>1, <1>3, <1>13 DEF SoundQueue, Precedes
  <1> QED BY <1>10, <1>12, <1>14 DEF Stocks

\* The frames of an answer are sound.
LEMMA OutSound ==
    ASSUME Streaming, SentRight, NEW s, NEW m, NEW a, NewAnswer(s, m, a), NEW out, OutRight(out, s, m, a),
           NEW i \in 1..Len(out)
    PROVE  SoundFrame(out[i])'
  <1>g. Grown(s, m, a)
    BY ONLY SentRight, NewAnswer(s, m, a), SentGrows
  <1>o. out \in Seq(Frame)
    BY DEF OutRight
  <1>l. PICK l \in Nat : l = Len(out)
    BY ONLY <1>o
  <1>f. PICK fr \in Frame : fr = out[i]
    <2>1. out[i] \in Frame
      BY ONLY <1>o, i \in 1..Len(out)
    <2> QED BY ONLY <2>1, Zenon
  <1>1. fr = out[i] /\ l = Len(out)
    BY <1>l, <1>f
  <1>2. /\ fr \in Frame /\ fr.s = s /\ fr.m = m /\ fr.kind = a.kind /\ fr.control = (a.kind = "PING")
        /\ fr.done \in BOOLEAN /\ i \in 1..l
    <2>1. fr.s = s /\ fr.m = m /\ fr.kind = a.kind /\ fr.control = (a.kind = "PING")
      BY <1>1 DEF OutRight
    <2>2. fr.done \in BOOLEAN
      BY ONLY fr \in Frame DEF Frame
    <2> QED BY <1>1, <2>1, <2>2
  <1>3. a.kind = "MESSAGE" => /\ fr.data = <<<<s, m, i>>>> /\ Part(fr) = i /\ fr.done = (i = a.n)
                              /\ l = IF a.cut THEN 1 ELSE a.n
    BY <1>1 DEF OutRight
  <1>4. a.kind # "MESSAGE" => fr.data = <<>> /\ Part(fr) = 0 /\ fr.done = TRUE
    <2>1. a.kind # "MESSAGE" => i = 1
      BY <1>1, <1>2 DEF OutRight
    <2> QED BY <1>1, <2>1 DEF OutRight
  <1>5. /\ a.n \in Nat /\ a.cut \in BOOLEAN /\ MaxPacket \in Nat \ {0}
        /\ a.kind = "MESSAGE" /\ ~a.cut => a.n \in {MaxPacket, MaxPacket + 1}
        /\ a.cut => a.kind = "MESSAGE" /\ a.n = 2
    BY AnswerFacts, ConnAssumption DEF NewAnswer
  <1>6. /\ s \in Streams /\ s \in Nat /\ m \in Nat /\ srv'.s = s /\ srv'.m = m
        /\ a.n > MaxPacket => srv'.huge
        /\ a.kind \in Ends => s \in srv'.ended
    BY DEF NewAnswer
  <1>7. ~Precedes(srv', fr)
    BY <1>2, <1>6 DEF Precedes, id_less
  <1>8. ASSUME a.kind = "MESSAGE"
        PROVE  /\ fr.data = <<<<fr.s, fr.m, Part(fr)>>>> /\ Part(fr) \in 1..(MaxPacket + 1)
               /\ fr.control = FALSE
               /\ Part(fr) = MaxPacket + 1 => fr.done /\ srv'.huge
    <2>1. PICK n \in Nat, p \in Nat : n = a.n /\ p = MaxPacket /\ p # 0
      BY <1>5
    <2>2. CASE a.cut
      <3>1. i = 1 /\ l = 1
        BY <1>2, <1>3, <1>8, <2>2
      <3>2. i \in 1..(p + 1) /\ i # p + 1
        BY ONLY <3>1, p \in Nat, <2>1
      <3>3. fr.data = <<<<fr.s, fr.m, Part(fr)>>>> /\ Part(fr) = i
        BY ONLY <1>2, <1>3, <1>8, Zenon
      <3> QED BY <1>2, <1>8, <2>1, <3>2, <3>3
    <2>3. CASE ~a.cut
      <3>1. i \in 1..n /\ n \in {p, p + 1}
        BY <1>2, <1>3, <1>5, <1>8, <2>1, <2>3
      <3>2. i \in 1..(p + 1) /\ (i = p + 1 => i = n /\ n > p)
        BY ONLY <3>1, p \in Nat, n \in Nat
      <3>3. fr.data = <<<<fr.s, fr.m, Part(fr)>>>> /\ Part(fr) = i
        BY ONLY <1>2, <1>3, <1>8, Zenon
      <3> QED BY <1>2, <1>3, <1>6, <1>8, <2>1, <3>2, <3>3
    <2> QED BY <1>5, <2>2, <2>3
  <1>9. ASSUME fr.done PROVE Sound(fr, Part(fr))'
    <2>1. fr.control = (fr.kind = "PING")
      BY <1>2
    <2>2. ASSUME fr.kind = "MESSAGE"
          PROVE  \E j \in 1..Len(sent'[fr.s]) : sent'[fr.s][j] = <<Part(fr), fr.m>>
      <3>1. i = a.n /\ Part(fr) = a.n
        BY <1>2, <1>3, <1>9, <2>2
      <3>2. ~a.cut
        <4> SUFFICES ASSUME a.cut PROVE FALSE
          OBVIOUS
        <4>1. a.n = 2 /\ l = 1
          BY <1>2, <1>3, <1>5, <2>2
        <4> QED BY <1>2, <3>1, <4>1
      <3>3. PICK j \in Nat : j = Len(sent[s]) /\ Len(sent'[s]) = j + 1 /\ sent'[s][j + 1] = <<a.n, m>>
        <4>1. a.kind = "MESSAGE"
          BY <1>2, <2>2
        <4>2. Len(sent'[s]) = Len(sent[s]) + 1 /\ sent'[s][Len(sent[s]) + 1] = <<a.n, m>>
          BY ONLY <1>g, <3>2, <4>1, Zenon DEF Grown
        <4>3. Len(sent[s]) \in Nat
          BY ONLY <1>g, <1>6, Zenon DEF Grown
        <4> QED BY ONLY <4>2, <4>3, Zenon
      <3>4. j + 1 \in 1..Len(sent'[s])
        BY ONLY j \in Nat, <3>3
      <3>5. sent'[fr.s][j + 1] = <<Part(fr), fr.m>>
        BY ONLY <1>2, <3>1, <3>3, Zenon
      <3>6. j + 1 \in 1..Len(sent'[fr.s])
        BY ONLY <1>2, <3>4, Zenon
      <3> QED BY ONLY <3>5, <3>6, Zenon
    <2>3. ASSUME fr.kind \in Ends
          PROVE  fr.s \in srv'.ended /\ \A j \in 1..Len(sent'[fr.s]) : sent'[fr.s][j][2] < fr.m
      <3>1. a.kind # "MESSAGE"
        BY <1>2, <2>3 DEF Ends
      <3>2. sent' = sent
        BY <3>1 DEF NewAnswer
      <3>3. \A j \in 1..Len(sent[s]) : sent[s][j][2] < m
        BY SentBefore
      <3> QED BY <1>2, <1>6, <2>3, <3>2, <3>3
    <2> QED BY <2>1, <2>2, <2>3 DEF Sound
  <1>10. fr.s \in Streams
    BY <1>2, <1>6
  <1>11. SoundFrame(fr)'
    BY <1>2, <1>4, <1>7, <1>8, <1>9, <1>10 DEF SoundFrame, Precedes
  <1> QED BY <1>1, <1>11

\* The frames on their way and those of an answer behind them.
Joined(X, F, out) ==
    /\ X \in Seq(Frame) /\ Len(X) = Len(F) + Len(out)
    /\ \A i \in 1..Len(F) : X[i] = F[i]
    /\ \A i \in 1..Len(out) : X[Len(F) + i] = out[i]

\* The joined frames exist.
LEMMA Joining ==
    ASSUME NEW F \in Seq(Frame), NEW out \in Seq(Frame)
    PROVE  \E X \in Seq(Frame) : X = F \o out /\ Joined(X, F, out)
  <1>1. PICK a \in Nat, b \in Nat : a = Len(F) /\ b = Len(out)
    OBVIOUS
  <1>2. /\ F \o out \in Seq(Frame) /\ Len(F \o out) = a + b
        /\ \A i \in 1..a : (F \o out)[i] = F[i]
        /\ \A i \in 1..b : (F \o out)[a + i] = out[i]
    BY <1>1, JoinFacts
  <1>3. Joined(F \o out, F, out)
    BY ONLY <1>1, <1>2, Zenon DEF Joined
  <1> QED BY ONLY <1>2, <1>3, Zenon

\* An index of the whole is one of either part.
LEMMA JoinedIndex ==
    ASSUME NEW F \in Seq(Frame), NEW out \in Seq(Frame), NEW X, Joined(X, F, out), NEW i \in 1..Len(X)
    PROVE  \/ i \in 1..Len(F) /\ X[i] = F[i]
           \/ \E k \in 1..Len(out) : i = Len(F) + k /\ X[i] = out[k]
  <1>1. PICK a \in Nat, b \in Nat : a = Len(F) /\ b = Len(out)
    OBVIOUS
  <1>2. /\ i \in 1..(a + b) /\ (\A k \in 1..a : X[k] = F[k])
        /\ \A k \in 1..b : X[a + k] = out[k]
    BY <1>1 DEF Joined
  <1>3. CASE i <= a
    BY <1>1, <1>2, <1>3
  <1>4. CASE ~(i <= a)
    <2>1. PICK k \in 1..b : i = a + k
      <3>1. i - a \in 1..b /\ i = a + (i - a)
        BY ONLY a \in Nat, b \in Nat, <1>2, <1>4
      <3> QED BY ONLY <3>1, Zenon
    <2>2. X[i] = out[k]
      BY ONLY k \in 1..b, <1>2, <2>1, Zenon
    <2> QED BY ONLY <1>1, <2>1, <2>2, Zenon
  <1> QED BY <1>3, <1>4

\* An answer comes after all that was sent before it.
LEMMA AnswerAfter ==
    ASSUME Streaming, NEW s, NEW m, NEW a, NewAnswer(s, m, a), NEW out, OutRight(out, s, m, a),
           NEW k \in 1..Len(out), NEW x, x.s \in Nat, x.m \in Nat, ~Precedes(srv, x)
    PROVE  Precedes(x, out[k]) /\ ~Precedes(out[k], x)
  <1>1. srv.s \in Nat /\ srv.m \in Nat
    BY ServerTypes
  <1>2. /\ s \in Nat /\ m \in Nat
        /\ (srv.s < s /\ m = 1) \/ (srv.s = s /\ m = srv.m + 1)
    BY DEF NewAnswer
  <1>3. out[k].s = s /\ out[k].m = m
    BY DEF OutRight
  <1> QED BY <1>1, <1>2, <1>3 DEF Precedes, id_less

\* Inside an answer only the last frame is done.
LEMMA OutInside ==
    ASSUME NEW s, NEW m, NEW a, NewAnswer(s, m, a), NEW out, OutRight(out, s, m, a),
           NEW i \in 1..Len(out), NEW j \in 1..Len(out), i < j
    PROVE  /\ a.kind = "MESSAGE" /\ ~out[i].done
           /\ Part(out[i]) = i /\ Part(out[j]) = j
           /\ out[i].s = s /\ out[j].s = s /\ out[i].m = m /\ out[j].m = m
           /\ out[i].kind = "MESSAGE" /\ out[j].kind = "MESSAGE"
           /\ ~Precedes(out[j], out[i])
  <1>1. a.n \in Nat /\ a.cut \in BOOLEAN /\ s \in Nat /\ m \in Nat
    BY AnswerFacts DEF NewAnswer
  <1>2. PICK l \in Nat : l = Len(out)
    <2>1. out \in Seq(Frame)
      BY DEF OutRight
    <2> QED BY ONLY <2>1
  <1>3. i \in 1..l /\ j \in 1..l /\ l # 1
    BY <1>2
  <1>4. a.kind = "MESSAGE"
    BY <1>2, <1>3 DEF OutRight
  <1>5. /\ out[i].s = s /\ out[i].m = m /\ out[i].kind = a.kind
        /\ out[j].s = s /\ out[j].m = m /\ out[j].kind = a.kind
    BY DEF OutRight
  <1>6. /\ Part(out[i]) = i /\ Part(out[j]) = j /\ out[i].done = (i = a.n)
        /\ l = IF a.cut THEN 1 ELSE a.n
    BY <1>2, <1>4 DEF OutRight
  <1>7. i # a.n
    BY <1>1, <1>3, <1>6
  <1>8. ~Precedes(out[j], out[i])
    BY <1>1, <1>5 DEF Precedes, id_less
  <1> QED BY <1>4, <1>5, <1>6, <1>7, <1>8

\* Frames sent after sound frames are sound with them.
LEMMA JoinFrames ==
    ASSUME Streaming, SentRight, NEW s, NEW m, NEW a, NewAnswer(s, m, a), NEW out, OutRight(out, s, m, a),
           NEW F \in Seq(Frame), SoundFrames(F), NEW X, Joined(X, F, out)
    PROVE  SoundFrames(X)'
  <1>1. out \in Seq(Frame) /\ Len(out) >= 1
    BY DEF OutRight
  <1>2. PICK f \in Nat, l \in Nat : f = Len(F) /\ l = Len(out) /\ l >= 1
    BY <1>1
  <1>3. /\ Len(X) = f + l
        /\ \A i \in 1..Len(X) : \/ i \in 1..f /\ X[i] = F[i]
                                \/ \E k \in 1..l : i = f + k /\ X[i] = out[k]
    <2>1. Len(X) = f + l
      BY <1>2 DEF Joined
    <2>2. ASSUME NEW i \in 1..Len(X)
          PROVE  \/ i \in 1..f /\ X[i] = F[i]
                 \/ \E k \in 1..l : i = f + k /\ X[i] = out[k]
      BY <1>1, <1>2, JoinedIndex
    <2> QED BY <2>1, <2>2
  <1>4. \A i \in 1..f : F[i].s \in Nat /\ F[i].m \in Nat /\ ~Precedes(srv, F[i])
    <2>1. ASSUME NEW i \in 1..f PROVE F[i] \in Frame /\ ~Precedes(srv, F[i])
      BY <1>2 DEF SoundFrames, SoundFrame
    <2>2. \A x \in Frame : x.s \in Nat /\ x.m \in Nat
      BY DEF Frame
    <2> QED BY ONLY <2>1, <2>2, Zenon
  <1>5. \A i \in 1..f, k \in 1..l : Precedes(F[i], out[k]) /\ ~Precedes(out[k], F[i])
    BY <1>2, <1>4, AnswerAfter
  <1>6. \A i, j \in 1..l : i < j => /\ ~out[i].done /\ ~Precedes(out[j], out[i])
                                    /\ Part(out[i]) = i /\ Part(out[j]) = j
                                    /\ out[i].s = out[j].s /\ out[i].m = out[j].m
                                    /\ out[i].kind = "MESSAGE" /\ out[j].kind = "MESSAGE"
    <2> SUFFICES ASSUME NEW i \in 1..l, NEW j \in 1..l, i < j
                 PROVE  /\ ~out[i].done /\ ~Precedes(out[j], out[i])
                        /\ Part(out[i]) = i /\ Part(out[j]) = j
                        /\ out[i].s = out[j].s /\ out[i].m = out[j].m
                        /\ out[i].kind = "MESSAGE" /\ out[j].kind = "MESSAGE"
      BY Zenon
    <2> QED BY <1>2, OutInside
  <1>7. Part(out[1]) <= 1
    <2>1. 1 \in 1..l
      BY <1>2
    <2>2. Part(out[1]) \in {0, 1}
      BY <1>2, <2>1 DEF OutRight
    <2> QED BY <2>2
  <1>8. ASSUME NEW i \in 1..Len(X) PROVE SoundFrame(X[i])'
    <2>1. CASE i \in 1..f /\ X[i] = F[i]
      <3>1. SoundFrame(F[i])
        BY <1>2, <2>1 DEF SoundFrames
      <3>2. \A x : SoundFrame(x) => SoundFrame(x)'
        BY SoundGrows
      <3>3. SoundFrame(F[i])'
        BY <3>1, <3>2
      <3> QED BY <2>1, <3>3
    <2>2. ASSUME NEW k \in 1..l, X[i] = out[k] PROVE SoundFrame(X[i])'
      <3>1. k \in 1..Len(out)
        BY <1>2
      <3>2. SoundFrame(out[k])'
        BY <3>1, OutSound
      <3> QED BY <2>2, <3>2
    <2> QED BY <1>3, <2>1, <2>2
  <1>9. ASSUME NEW i \in 1..(Len(X) - 1) PROVE Follows(X[i], X[i + 1])
    <2>1. i \in 1..Len(X) /\ i + 1 \in 1..Len(X)
      BY <1>3
    <2>2. CASE i + 1 \in 1..f
      <3>1. X[i] = F[i] /\ X[i + 1] = F[i + 1] /\ i \in 1..(Len(F) - 1)
        BY <1>2, <1>3, <2>1, <2>2
      <3> QED BY <3>1 DEF SoundFrames
    <2>3. CASE i \in 1..f /\ i + 1 \notin 1..f
      <3>1. i = f /\ X[i] = F[i] /\ X[i + 1] = out[1] /\ 1 \in 1..l
        <4>1. PICK k \in 1..l : i + 1 = f + k /\ X[i + 1] = out[k]
          BY <1>3, <2>1, <2>3
        <4>2. i = f /\ k = 1
          BY <2>3, <4>1
        <4>3. X[i] = F[i]
          BY <1>3, <2>1, <2>3
        <4> QED BY <4>1, <4>2, <4>3
      <3> QED BY <1>5, <1>7, <2>3, <3>1 DEF Follows
    <2>4. CASE i \notin 1..f
      <3>1. PICK k \in 1..l : i = f + k /\ X[i] = out[k]
        BY <1>3, <2>1, <2>4
      <3>2. i + 1 \notin 1..f
        BY <2>1, <2>4
      <3>3. PICK h \in 1..l : i + 1 = f + h /\ X[i + 1] = out[h]
        BY <1>3, <2>1, <3>2
      <3>4. h = k + 1 /\ k < h
        BY <3>1, <3>3
      <3> QED BY <1>6, <3>1, <3>3, <3>4 DEF Follows
    <2> QED BY <2>2, <2>3, <2>4
  <1>10. ASSUME NEW i \in 1..Len(X), NEW j \in 1..Len(X), i < j
         PROVE  ~Precedes(X[j], X[i]) /\ (X[i].done => Precedes(X[i], X[j]))
    <2>1. CASE j \in 1..f
      <3>1. i \in 1..f
        BY <1>10, <2>1
      <3>2. X[i] = F[i] /\ X[j] = F[j]
        BY <1>3, <2>1, <3>1
      <3> QED BY <1>2, <1>10, <2>1, <3>1, <3>2 DEF SoundFrames
    <2>2. CASE i \in 1..f /\ j \notin 1..f
      <3>1. PICK k \in 1..l : X[j] = out[k]
        BY <1>3, <2>2
      <3>2. X[i] = F[i]
        BY <1>3, <2>2
      <3> QED BY <1>5, <2>2, <3>1, <3>2
    <2>3. CASE i \notin 1..f
      <3>1. PICK k \in 1..l : i = f + k /\ X[i] = out[k]
        BY <1>3, <2>3
      <3>2. j \notin 1..f
        BY <1>10, <2>3
      <3>3. PICK h \in 1..l : j = f + h /\ X[j] = out[h]
        BY <1>3, <3>2
      <3>4. k < h
        BY <1>10, <3>1, <3>3
      <3> QED BY <1>6, <3>1, <3>3, <3>4
    <2> QED BY <2>1, <2>2, <2>3
  <1> QED BY <1>8, <1>9, <1>10 DEF SoundFrames

\* The first of the joined frames.
LEMMA JoinedFirst ==
    ASSUME NEW s, NEW m, NEW a, NEW out, OutRight(out, s, m, a), NEW F \in Seq(Frame), NEW X, Joined(X, F, out)
    PROVE  /\ X # <<>> /\ 1 \in 1..Len(out)
           /\ F # <<>> => X[1] = F[1]
           /\ F = <<>> => X[1] = out[1] /\ Part(out[1]) <= 1
  <1>1. out \in Seq(Frame) /\ Len(out) >= 1
    BY DEF OutRight
  <1>2. PICK f \in Nat, l \in Nat : f = Len(F) /\ l = Len(out) /\ l >= 1
    BY <1>1
  <1>3. X \in Seq(Frame) /\ Len(X) = f + l /\ (\A i \in 1..f : X[i] = F[i]) /\ \A i \in 1..l : X[f + i] = out[i]
    BY <1>2 DEF Joined
  <1>4. X # <<>>
    <2>1. Len(X) # 0
      BY <1>2, <1>3
    <2> QED BY ONLY <2>1
  <1>5. 1 \in 1..l
    BY <1>2
  <1>6. ASSUME F # <<>> PROVE X[1] = F[1]
    <2>1. f # 0
      BY <1>2, <1>6, EmptySeq
    <2>2. 1 \in 1..f
      BY <2>1
    <2> QED BY <1>3, <2>2
  <1>7. ASSUME F = <<>> PROVE X[1] = out[1] /\ Part(out[1]) <= 1
    <2>1. f = 0 /\ f + 1 = 1
      BY <1>2, <1>7
    <2>2. X[1] = out[1]
      BY <1>3, <1>5, <2>1
    <2>3. Part(out[1]) \in {0, 1}
      BY <1>2, <1>5 DEF OutRight
    <2> QED BY <2>2, <2>3
  <1> QED BY <1>2, <1>4, <1>5, <1>6, <1>7

\* They come after what is in assembly.
LEMMA JoinAssembling ==
    ASSUME Streaming, NEW s, NEW m, NEW a, NewAnswer(s, m, a), NEW out, OutRight(out, s, m, a),
           NEW F \in Seq(Frame), Assembling(F), NEW X, Joined(X, F, out)
    PROVE  Assembling(X)'
  <1>1. out \in Seq(Frame)
    BY DEF OutRight
  <1>2. /\ X # <<>> /\ 1 \in 1..Len(out)
        /\ F # <<>> => X[1] = F[1]
        /\ F = <<>> => X[1] = out[1] /\ Part(out[1]) <= 1
    BY JoinedFirst
  <1>3. asm' = asm /\ asm.s \in Nat \ {0} /\ asm.m \in Nat
    BY DEF Assembling, NewAnswer
  <1>4. /\ s \in Nat \ {0} /\ m \in Nat /\ srv'.s = s /\ srv'.m = m
        /\ (srv.s < s /\ m = 1) \/ (srv.s = s /\ m = srv.m + 1)
    BY DEF NewAnswer
  <1>5. srv.s \in Nat /\ srv.m \in Nat
    BY ServerTypes
  <1>6. \/ asm.s < srv.s \/ (asm.s = srv.s /\ asm.m <= srv.m + 1)
        \/ srv.s = 0 /\ asm.s = 1 /\ asm.m = 1
    BY DEF Assembling
  <1>7. asm.s < srv'.s \/ (asm.s = srv'.s /\ asm.m <= srv'.m + 1)
    BY <1>3, <1>4, <1>5, <1>6
  <1>8. ASSUME NEW i \in 1..Len(X) PROVE ~Precedes(X[i], asm)
    <2>1. CASE i \in 1..Len(F) /\ X[i] = F[i]
      BY <2>1 DEF Assembling
    <2>2. ASSUME NEW k \in 1..Len(out), X[i] = out[k] PROVE ~Precedes(X[i], asm)
      <3>1. X[i].s = s /\ X[i].m = m
        BY <2>2 DEF OutRight
      <3>2. ~id_less(s, m, asm.s, asm.m)
        <4>1. PICK s1 \in Nat, m1 \in Nat, s2 \in Nat, m2 \in Nat :
                 s1 = asm.s /\ m1 = asm.m /\ s2 = srv.s /\ m2 = srv.m
          BY ONLY <1>3, <1>5
        <4>2. /\ s1 < s2 \/ (s1 = s2 /\ m1 <= m2 + 1) \/ (s2 = 0 /\ s1 = 1 /\ m1 = 1)
              /\ (s2 < s /\ m = 1) \/ (s2 = s /\ m = m2 + 1)
          BY ONLY <1>4, <1>6, <4>1, Zenon
        <4>3. ~id_less(s, m, s1, m1)
          BY ONLY s1 \in Nat, m1 \in Nat, s2 \in Nat, m2 \in Nat, <1>4, <4>2 DEF id_less
        <4> QED BY ONLY <4>1, <4>3, Zenon
      <3> QED BY ONLY <3>1, <3>2 DEF Precedes
    <2> QED BY <1>1, <2>1, <2>2, JoinedIndex
  <1>9. asm.cur = None => Part(X[1]) <= 1
    BY <1>2 DEF Assembling
  <1>10. ASSUME asm.cur # None
         PROVE  /\ asm.cur \in Packet /\ asm.cur.s = asm.s /\ asm.cur.m = asm.m
                /\ asm.cur.kind = "MESSAGE" /\ asm.cur.control = FALSE
                /\ ~Precedes(srv', asm)
                /\ \E c \in 1..MaxPacket : asm.cur.data = Text(asm.s, asm.m, c) /\ Continues(X[1], c)
    <2>1. /\ asm.cur \in Packet /\ asm.cur.s = asm.s /\ asm.cur.m = asm.m
          /\ asm.cur.kind = "MESSAGE" /\ asm.cur.control = FALSE
          /\ ~Precedes(srv, asm)
      BY <1>10 DEF Assembling
    <2>2. PICK c \in 1..MaxPacket : asm.cur.data = Text(asm.s, asm.m, c) /\ (F # <<>> => Continues(F[1], c))
      BY <1>10 DEF Assembling
    <2>3. ~Precedes(srv', asm)
      BY <1>3, <1>4, <1>5, <2>1 DEF Precedes, id_less
    <2>4. F = <<>> => Precedes(asm, out[1])
      <3>1. asm.s \in Nat /\ asm.m \in Nat /\ 1 \in 1..Len(out)
        BY <1>2, <1>3
      <3>2. Precedes(asm, out[1])
        BY <2>1, <3>1, AnswerAfter
      <3> QED BY <3>2
    <2>5. Continues(X[1], c)
      <3>1. CASE F # <<>>
        BY <1>2, <2>2, <3>1
      <3>2. CASE F = <<>>
        BY <1>2, <2>4, <3>2 DEF Continues
      <3> QED BY <3>1, <3>2
    <2> QED BY <2>1, <2>2, <2>3, <2>5
  <1> QED BY <1>2, <1>3, <1>7, <1>8, <1>9, <1>10 DEF Assembling, Precedes, Continues

\* The last frame of an answer says whether the message was given up.
LEMMA OutLast ==
    ASSUME NEW s, NEW m, NEW a, NewAnswer(s, m, a), NEW out, OutRight(out, s, m, a), NEW l \in Nat, l = Len(out)
    PROVE  /\ l \in 1..l /\ out[l].s = s /\ out[l].m = m /\ out[l].kind = a.kind
           /\ a.cut => ~out[l].done
           /\ ~a.cut => out[l].done
  <1>1. a.n \in Nat /\ a.cut \in BOOLEAN /\ (a.cut => a.kind = "MESSAGE" /\ a.n = 2)
    BY AnswerFacts DEF NewAnswer
  <1>2. l >= 1
    BY DEF OutRight
  <1>3. l \in 1..l
    BY <1>2
  <1>4. out[l].s = s /\ out[l].m = m /\ out[l].kind = a.kind
    BY <1>3 DEF OutRight
  <1>5. CASE a.kind = "MESSAGE"
    <2>1. out[l].done = (l = a.n) /\ l = IF a.cut THEN 1 ELSE a.n
      <3>1. (\A i \in 1..Len(out) : out[i].done = (i = a.n)) /\ Len(out) = IF a.cut THEN 1 ELSE a.n
        BY ONLY <1>5, OutRight(out, s, m, a), Zenon DEF OutRight
      <3>2. l \in 1..Len(out)
        BY ONLY <1>3, l = Len(out), Zenon
      <3>3. out[l].done = (l = a.n)
        BY ONLY <3>1, <3>2, Zenon
      <3>4. l = IF a.cut THEN 1 ELSE a.n
        BY ONLY <3>1, l = Len(out)
      <3> QED BY ONLY <3>3, <3>4, Zenon
    <2>2. ASSUME a.cut PROVE ~out[l].done
      <3>1. l # a.n
        BY ONLY <1>1, <2>1, <2>2
      <3> QED BY ONLY <2>1, <3>1, Zenon
    <2>3. ASSUME ~a.cut PROVE out[l].done
      <3>1. l = a.n
        BY ONLY <2>1, <2>3
      <3> QED BY ONLY <2>1, <3>1, Zenon
    <2> QED BY ONLY <1>3, <1>4, <2>2, <2>3, Zenon
  <1>6. CASE a.kind # "MESSAGE"
    <2>1. l = 1 /\ out[1].done = TRUE /\ ~a.cut
      BY <1>1, <1>6 DEF OutRight
    <2> QED BY <1>3, <1>4, <2>1
  <1> QED BY <1>5, <1>6

\* They end in a whole message, or show that it was given up.
LEMMA JoinCut ==
    ASSUME NEW s, NEW m, NEW a, NewAnswer(s, m, a), NEW out, OutRight(out, s, m, a),
           NEW F \in Seq(Frame), NEW X, Joined(X, F, out), Len(buf') + Len(down') = 2 * Len(X)
    PROVE  CutShows(X)'
  <1>1. out \in Seq(Frame) /\ X \in Seq(Frame)
    BY DEF OutRight, Joined
  <1>2. PICK f \in Nat, l \in Nat, x \in Nat : f = Len(F) /\ l = Len(out) /\ x = Len(X)
    BY <1>1
  <1>3. /\ l \in 1..l /\ (a.cut => ~out[l].done) /\ (~a.cut => out[l].done)
    BY <1>2, OutLast
  <1>4. X # <<>>
    BY JoinedFirst
  <1>5. x = f + l /\ X[f + l] = out[l]
    BY <1>2, <1>3 DEF Joined
  <1>6. a.cut \in BOOLEAN /\ srv'.cut = (IF a.cut THEN 1 ELSE 0)
    BY AnswerFacts DEF NewAnswer
  <1>7. X[Len(X)] = out[l]
    BY ONLY <1>2, <1>5, Zenon
  <1>8. Len(buf') + Len(down') # 2 * Len(X) + 1
    <2>1. 2 * x # 2 * x + 1
      OBVIOUS
    <2> QED BY ONLY <1>2, <2>1, Len(buf') + Len(down') = 2 * Len(X), Zenon
  <1>9. srv'.cut = 0 => X[Len(X)].done
    BY ONLY <1>3, <1>6, <1>7
  <1>10. srv'.cut = 1 => ~X[Len(X)].done
    BY ONLY <1>3, <1>6, <1>7
  <1> QED BY ONLY <1>4, <1>8, <1>9, <1>10, Zenon DEF CutShows

\* A message sent is on its way.
LEMMA JoinComplete ==
    ASSUME Streaming, SentRight, GotRight, NEW s, NEW m, NEW a, NewAnswer(s, m, a), NEW out, OutRight(out, s, m, a),
           NEW F \in Seq(Frame), Complete(F), NEW X, Joined(X, F, out)
    PROVE  Complete(X)'
  <1>1. UNCHANGED <<op, stream, next, pending, got>>
    BY DEF NewAnswer
  <1> SUFFICES ASSUME Live
               PROVE  /\ \A j \in 1..Len(sent'[Cur]) : j > Len(got[Cur]) =>
                            InQueue(pending, Cur, sent'[Cur][j][2]) \/ InFrames(X, Cur, sent'[Cur][j][2])
                      /\ \A j \in 1..Len(got[Cur]) :
                            /\ \A i \in 1..Len(pending) : pending[i].s = Cur => sent'[Cur][j][2] < pending[i].m
                            /\ \A i \in 1..Len(X) : X[i].s = Cur => sent'[Cur][j][2] < X[i].m
    BY <1>1 DEF Complete, Live, Cur
  <1>2. PICK c \in Streams : c = Cur
    BY CurStream
  <1>3. /\ \A x \in Streams : x # s => sent'[x] = sent[x]
        /\ \A x \in Streams : /\ Len(sent[x]) \in Nat /\ Len(sent'[x]) \in Nat /\ Len(sent[x]) <= Len(sent'[x])
                              /\ \A j \in 1..Len(sent[x]) : sent'[x][j] = sent[x][j]
        /\ a.kind = "MESSAGE" /\ ~a.cut => /\ Len(sent'[s]) = Len(sent[s]) + 1
                                           /\ sent'[s][Len(sent[s]) + 1] = <<a.n, m>>
        /\ ~(a.kind = "MESSAGE" /\ ~a.cut) => sent' = sent
    <2>1. Grown(s, m, a)
      BY ONLY SentRight, NewAnswer(s, m, a), SentGrows
    <2> QED BY ONLY <2>1, Zenon DEF Grown
  <1>4. out \in Seq(Frame) /\ X \in Seq(Frame)
    BY DEF OutRight, Joined
  <1>5. PICK f \in Nat, l \in Nat, x \in Nat : f = Len(F) /\ l = Len(out) /\ x = Len(X)
    BY <1>4
  <1>6. x = f + l /\ (\A i \in 1..f : X[i] = F[i]) /\ \A i \in 1..l : X[f + i] = out[i]
    BY <1>5 DEF Joined
  <1>7. /\ \A j \in 1..Len(sent[c]) : j > Len(got[c]) =>
              InQueue(pending, c, sent[c][j][2]) \/ InFrames(F, c, sent[c][j][2])
        /\ \A j \in 1..Len(got[c]) :
              /\ \A i \in 1..Len(pending) : pending[i].s = c => sent[c][j][2] < pending[i].m
              /\ \A i \in 1..Len(F) : F[i].s = c => sent[c][j][2] < F[i].m
    BY <1>2 DEF Complete
  <1>8. \A k : InFrames(F, c, k) => InFrames(X, c, k)
    <2> SUFFICES ASSUME NEW k, InFrames(F, c, k) PROVE InFrames(X, c, k)
      OBVIOUS
    <2>1. PICK i \in 1..f : F[i].s = c /\ F[i].m = k /\ F[i].kind = "MESSAGE" /\ F[i].done
      BY <1>5 DEF InFrames
    <2>2. i \in 1..x /\ X[i] = F[i]
      BY <1>6
    <2> QED BY ONLY <1>5, <2>1, <2>2, Zenon DEF InFrames
  <1>9. ASSUME NEW j \in 1..Len(sent'[c]), j > Len(got[c])
        PROVE  InQueue(pending, c, sent'[c][j][2]) \/ InFrames(X, c, sent'[c][j][2])
    <2>1. CASE j \in 1..Len(sent[c])
      <3>1. sent'[c][j] = sent[c][j]
        BY <1>3, <2>1
      <3>2. InQueue(pending, c, sent[c][j][2]) \/ InFrames(F, c, sent[c][j][2])
        BY <1>7, <1>9, <2>1
      <3> QED BY ONLY <1>8, <3>1, <3>2, Zenon
    <2>2. CASE j \notin 1..Len(sent[c])
      <3>1. c = s /\ a.kind = "MESSAGE" /\ ~a.cut
        BY <1>2, <1>3, <2>2
      <3>2. PICK g \in Nat : g = Len(sent[c]) /\ Len(sent'[c]) = g + 1 /\ sent'[c][g + 1] = <<a.n, m>>
        <4>1. Len(sent[c]) \in Nat /\ Len(sent'[c]) = Len(sent[c]) + 1 /\ sent'[c][Len(sent[c]) + 1] = <<a.n, m>>
          BY <1>2, <1>3, <3>1
        <4> QED BY ONLY <4>1, Zenon
      <3>3. j = g + 1
        BY <2>2, <3>2
      <3>4. sent'[c][j] = <<a.n, m>>
        BY ONLY <3>2, <3>3, Zenon
      <3>5. sent'[c][j][2] = m
        BY ONLY <3>4
      <3>6. l \in 1..l /\ out[l].s = s /\ out[l].m = m /\ out[l].kind = a.kind /\ out[l].done
        BY <1>5, <3>1, OutLast
      <3>7. f + l \in 1..x /\ X[f + l] = out[l]
        BY <1>6, <3>6
      <3>8. InFrames(X, c, m)
        BY ONLY <1>5, <3>1, <3>6, <3>7, Zenon DEF InFrames
      <3> QED BY ONLY <3>5, <3>8, Zenon
    <2> QED BY <2>1, <2>2
  <1>10. ASSUME NEW j \in 1..Len(got[c])
         PROVE  /\ \A i \in 1..Len(pending) : pending[i].s = c => sent'[c][j][2] < pending[i].m
                /\ \A i \in 1..Len(X) : X[i].s = c => sent'[c][j][2] < X[i].m
    <2>1. j \in 1..Len(sent[c])
      <3>1. got[c] \in Seq(Seq(Payload)) /\ Len(got[c]) <= Len(sent[c]) /\ Len(sent[c]) \in Nat
        BY <1>2, <1>3 DEF GotRight
      <3> QED BY ONLY j \in 1..Len(got[c]), <3>1
    <2>2. sent'[c][j] = sent[c][j]
      BY <1>2, <1>3, <2>1
    <2>3. ASSUME NEW i \in 1..Len(X), X[i].s = c PROVE sent[c][j][2] < X[i].m
      <3>1. CASE i \in 1..Len(F) /\ X[i] = F[i]
        BY <1>7, <2>3, <3>1
      <3>2. ASSUME NEW k \in 1..Len(out), X[i] = out[k] PROVE sent[c][j][2] < X[i].m
        <4>1. X[i].s = s /\ X[i].m = m
          BY <3>2 DEF OutRight
        <4>2. \A h \in 1..Len(sent[s]) : sent[s][h][2] < m
          BY SentBefore
        <4> QED BY ONLY <2>1, <2>3, <4>1, <4>2, Zenon
      <3> QED BY <1>4, <3>1, <3>2, JoinedIndex
    <2> QED BY <1>7, <2>2, <2>3
  <1> QED BY ONLY <1>2, <1>9, <1>10, Zenon

\* The server sends an answer.
LEMMA ServerSendsRight ==
    ASSUME WireInv, QueueInv, ReadInv, ServerSends
    PROVE  ReadInv'
  <1>1. Streaming /\ LastRight /\ Stocks /\ SentRight /\ GotRight
    BY DEF ReadInv, Stocks
  <1>2. PICK F \in Seq(Frame) : Arriving(F) /\ Complete(F)
    BY DEF ReadInv
  <1>3. PICK s, m, a, out : NewAnswer(s, m, a) /\ OutRight(out, s, m, a) /\ down' = down \o Units(out)
    BY <1>1, SendsFacts
  <1>4. PICK U : buf \in Seq(U) /\ down \in Seq(U)
    BY WireTypes
  <1>5. out \in Seq(Frame)
    BY <1>3 DEF OutRight
  <1>6. PICK X \in Seq(Frame) : X = F \o out /\ Joined(X, F, out)
    BY <1>5, Joining
  <1>7. Pipe(buf, down, F) /\ SoundFrames(F) /\ Assembling(F) /\ CutShows(F)
    BY <1>2 DEF Arriving
  <1>8. Len(buf) + Len(down) = 2 * Len(F)
    <2>1. Len(buf) + Len(down) # 2 * Len(F) + 1
      BY <1>3, <1>7 DEF CutShows, NewAnswer
    <2> QED BY <1>7, <2>1 DEF Pipe
  <1>9. /\ Pipe(buf, down \o Units(out), X)
        /\ Len(buf) + Len(down \o Units(out)) = 2 * Len(X)
    <2>1. /\ Pipe(buf, down \o Units(out), F \o out)
          /\ Len(buf) + Len(down \o Units(out)) = 2 * Len(F \o out)
      BY <1>4, <1>5, <1>7, <1>8, PipeJoin
    <2> QED BY ONLY <1>6, <2>1, Zenon
  <1>10. buf' = buf
    BY <1>3 DEF NewAnswer
  <1>11. Pipe(buf, down, X)' /\ Len(buf') + Len(down') = 2 * Len(X)
    BY ONLY <1>3, <1>9, <1>10, Zenon
  <1>12. SoundFrames(X)'
    BY <1>1, <1>3, <1>6, <1>7, JoinFrames
  <1>13. Assembling(X)'
    BY <1>1, <1>3, <1>6, <1>7, JoinAssembling
  <1>14. CutShows(X)'
    BY <1>3, <1>6, <1>11, JoinCut
  <1>15. Complete(X)'
    BY <1>1, <1>2, <1>3, <1>6, JoinComplete
  <1>16. Streaming' /\ LastRight' /\ Stocks'
    BY <1>1, <1>3, AnswerStreaming, AnswerLast, AnswerStocks
  <1>17. Arriving(X)'
    BY <1>11, <1>12, <1>13, <1>14 DEF Arriving
  <1> QED BY <1>6, <1>15, <1>16, <1>17 DEF ReadInv

\* Half a frame more.
LEMMA PipeHalf ==
    ASSUME NEW U, NEW b \in Seq(U), NEW d \in Seq(U), NEW F \in Seq(Frame), Pipe(b, d, F),
           Len(b) + Len(d) = 2 * Len(F), NEW u
    PROVE  Pipe(b, d \o <<u>>, F) /\ Len(b) + Len(d \o <<u>>) = 2 * Len(F) + 1
  <1>1. PICK lb \in Nat, ld \in Nat, lf \in Nat :
           lb = Len(b) /\ ld = Len(d) /\ lf = Len(F) /\ lb + ld = 2 * lf
    OBVIOUS
  <1>2. PICK V : V = U \cup {u}
    OBVIOUS
  <1>3. PICK x \in Seq(V), y \in Seq(V), one \in Nat : x = d /\ y = <<u>> /\ one = 1 /\ one = Len(y)
    <2>1. d \in Seq(V) /\ <<u>> \in Seq(V) /\ 1 \in Nat /\ Len(<<u>>) = 1
      BY <1>2
    <2> QED BY ONLY <2>1, Zenon
  <1>4. PICK e : e = d \o <<u>>
    OBVIOUS
  <1>5. Len(e) = ld + one /\ \A i \in 1..ld : e[i] = d[i]
    <2>1. ld = Len(x)
      BY ONLY <1>1, <1>3, Zenon
    <2>2. Len(x \o y) = ld + one /\ \A i \in 1..ld : (x \o y)[i] = x[i]
      BY ONLY x \in Seq(V), y \in Seq(V), ld \in Nat, one \in Nat, <1>3, <2>1, JoinFacts
    <2> QED BY ONLY <1>3, <1>4, <2>2, Zenon
  <1>6. lb + Len(e) = 2 * lf + 1
    <2>1. lb + ld = 2 * lf /\ one = 1 /\ Len(e) = ld + one
      BY ONLY <1>1, <1>3, <1>5, Zenon
    <2>2. lb + (ld + one) = 2 * lf + 1
      BY ONLY lb \in Nat, ld \in Nat, lf \in Nat, one \in Nat, <2>1
    <2> QED BY ONLY <2>1, <2>2, Zenon
  <1>7. ASSUME NEW i \in 1..(lb + ld) PROVE Unit(b, e, i) = Unit(b, d, i)
    <2>1. CASE i <= lb
      BY <1>1, <2>1 DEF Unit
    <2>2. CASE ~(i <= lb)
      <3>1. i - lb \in 1..ld
        BY <2>2
      <3> QED BY <1>1, <1>5, <2>2, <3>1 DEF Unit
    <2> QED BY <2>1, <2>2
  <1>8. \A i \in 1..lf : 2 * i - 1 \in 1..(lb + ld) /\ 2 * i \in 1..(lb + ld)
    BY <1>1
  <1>9. \A i \in 1..lf : Unit(b, e, 2 * i - 1) = <<F[i], 1>> /\ Unit(b, e, 2 * i) = <<F[i], 2>>
    BY <1>1, <1>7, <1>8 DEF Pipe
  <1>10. lb + Len(e) \in {2 * lf, 2 * lf + 1}
    BY <1>6
  <1> QED BY ONLY <1>1, <1>4, <1>6, <1>9, <1>10, Zenon DEF Pipe

\* The server is gone, and nothing else but perhaps half a frame changes.
LEMMA GoneFacts ==
    ASSUME WireInv, ServerGone
    PROVE  /\ ~srv.gone /\ srv'.gone = TRUE
           /\ srv'.s = srv.s /\ srv'.m = srv.m /\ srv'.seen = srv.seen /\ srv'.ended = srv.ended /\ srv'.huge = srv.huge
           /\ UNCHANGED <<op, stream, next, calls, last, buf, asm, pending, sent, got>>
           /\ \/ srv'.cut = srv.cut /\ down' = down
              \/ srv'.cut = 1 /\ \E u : down' = down \o <<u>>
  <1>1. PICK half \in BOOLEAN :
          /\ srv' = [srv EXCEPT !.gone = TRUE, !.cut = IF half THEN 1 ELSE @]
          /\ down' = IF half
                     THEN down \o <<<<Frames(srv.s, srv.m + 1, "MESSAGE", FALSE, 1)[1], 1>>>>
                     ELSE down
    BY DEF ServerGone
  <1>2. PICK cut, u : cut = (IF half THEN 1 ELSE srv.cut) /\ u = <<Frames(srv.s, srv.m + 1, "MESSAGE", FALSE, 1)[1], 1>>
    OBVIOUS
  <1>3. srv' = [srv EXCEPT !.gone = TRUE, !.cut = cut]
    BY ONLY <1>1, <1>2, Zenon
  <1>4. down' = IF half THEN down \o <<u>> ELSE down
    BY ONLY <1>1, <1>2, Zenon
  <1>5. /\ srv'.gone = TRUE /\ srv'.cut = cut
        /\ srv'.s = srv.s /\ srv'.m = srv.m /\ srv'.seen = srv.seen /\ srv'.ended = srv.ended /\ srv'.huge = srv.huge
    <2>1. IsServer(srv)
      BY DEF WireInv, WireTypeOK
    <2> QED BY ONLY <1>3, <2>1 DEF IsServer, SrvFields
  <1>6. ~srv.gone /\ UNCHANGED <<op, stream, next, calls, last, buf, asm, pending, sent, got>>
    BY DEF ServerGone, clientVars
  <1>7. \/ srv'.cut = srv.cut /\ down' = down
        \/ srv'.cut = 1 /\ \E v : down' = down \o <<v>>
    <2>1. CASE half
      <3>1. srv'.cut = 1 /\ down' = down \o <<u>>
        BY ONLY <1>2, <1>4, <1>5, <2>1, Zenon
      <3> QED BY ONLY <3>1, Zenon
    <2>2. CASE ~half
      BY ONLY <1>2, <1>4, <1>5, <2>2, Zenon
    <2> QED BY ONLY <2>1, <2>2, Zenon
  <1> QED BY <1>5, <1>6, <1>7

\* The server goes away.
LEMMA ServerGoneRight ==
    ASSUME WireInv, QueueInv, ReadInv, ServerGone
    PROVE  ReadInv'
  <1>1. Streaming /\ LastRight /\ SentRight /\ GotRight /\ SoundQueue
    BY DEF ReadInv, Stocks
  <1>2. PICK F \in Seq(Frame) : Arriving(F) /\ Complete(F)
    BY DEF ReadInv
  <1>3. /\ ~srv.gone /\ srv'.gone = TRUE
        /\ srv'.s = srv.s /\ srv'.m = srv.m /\ srv'.seen = srv.seen /\ srv'.ended = srv.ended /\ srv'.huge = srv.huge
        /\ UNCHANGED <<op, stream, next, calls, last, buf, asm, pending, sent, got>>
    BY GoneFacts
  <1>4. \/ srv'.cut = srv.cut /\ down' = down
        \/ srv'.cut = 1 /\ \E u : down' = down \o <<u>>
    BY GoneFacts
  <1>5. Pipe(buf, down, F) /\ SoundFrames(F) /\ Assembling(F) /\ CutShows(F)
    BY <1>2 DEF Arriving
  <1>6. Len(buf) + Len(down) = 2 * Len(F)
    <2>1. Len(buf) + Len(down) # 2 * Len(F) + 1
      BY <1>3, <1>5 DEF CutShows
    <2> QED BY <1>5, <2>1 DEF Pipe
  <1>7. Pipe(buf, down, F)' /\ CutShows(F)'
    <2>1. CASE srv'.cut = srv.cut /\ down' = down
      <3>1. Pipe(buf, down, F)'
        BY ONLY <1>3, <1>5, <2>1, Zenon
      <3>2. Len(buf) + Len(down) # 2 * Len(F) + 1
        BY <1>3, <1>5 DEF CutShows
      <3>3. CutShows(F)'
        BY <1>3, <1>5, <2>1, <3>2 DEF CutShows
      <3> QED BY <3>1, <3>3
    <2>2. ASSUME srv'.cut = 1, NEW u, down' = down \o <<u>> PROVE Pipe(buf, down, F)' /\ CutShows(F)'
      <3>1. PICK U : buf \in Seq(U) /\ down \in Seq(U)
        BY WireTypes
      <3>2. Pipe(buf, down \o <<u>>, F) /\ Len(buf) + Len(down \o <<u>>) = 2 * Len(F) + 1
        BY <1>5, <1>6, <3>1, PipeHalf
      <3>3. Pipe(buf', down', F) /\ Len(buf') + Len(down') = 2 * Len(F) + 1
        BY ONLY <1>3, <2>2, <3>2, Zenon
      <3>4. srv'.cut # 0
        BY <2>2
      <3>5. CutShows(F)'
        BY ONLY <1>3, <2>2, <3>3, <3>4, Zenon DEF CutShows
      <3> QED BY ONLY <3>3, <3>5, Zenon
    <2> QED BY <1>4, <2>1, <2>2
  <1>8. SoundFrames(F)'
    <2>1. ASSUME NEW x, SoundFrame(x) PROVE SoundFrame(x)'
      BY <1>3, <2>1 DEF SoundFrame, Sound, Precedes
    <2> QED BY <1>5, <2>1 DEF SoundFrames
  <1>9. Assembling(F)'
    BY <1>3, <1>5 DEF Assembling, Precedes, Continues
  <1>10. Complete(F)'
    BY <1>2, <1>3 DEF Complete, Live, Cur
  <1>11. Streaming'
    <2>1. srv'.cut \in {0, 1}
      BY <1>1, <1>4 DEF Streaming
    <2> QED BY <1>1, <1>3, <2>1 DEF Streaming, Live, Cur, Probing
  <1>12. LastRight'
    BY <1>1, <1>3 DEF LastRight, Live, Cur
  <1>13. Stocks'
    <2>1. SentRight' /\ GotRight'
      BY <1>1, <1>3 DEF SentRight, GotRight
    <2>2. SoundQueue'
      BY <1>1, <1>3 DEF SoundQueue, SoundPacket, Sound, Precedes
    <2> QED BY <2>1, <2>2 DEF Stocks
  <1>14. Arriving(F)'
    BY <1>7, <1>8, <1>9 DEF Arriving
  <1> QED BY <1>10, <1>11, <1>12, <1>13, <1>14 DEF ReadInv

-----------------------------------------------------------------------------
(* All steps *)

\* A step of the dial, and one that changes nothing.
LEMMA NothingRight ==
    ASSUME ReadInv, UNCHANGED <<op, stream, next, calls, last, buf, asm, pending, down, srv, sent, got>>
    PROVE  ReadInv'
  <1>1. Streaming /\ LastRight /\ SentRight /\ GotRight /\ SoundQueue
    BY DEF ReadInv, Stocks
  <1>2. PICK F \in Seq(Frame) : Arriving(F) /\ Complete(F)
    BY DEF ReadInv
  <1>3. Arriving(F)'
    BY <1>2, ArrivingKept DEF SameServer
  <1>4. Complete(F)'
    BY <1>2 DEF Complete, Live, Cur
  <1>5. Streaming'
    BY <1>1 DEF Streaming, Live, Cur, Probing
  <1>6. LastRight'
    BY <1>1 DEF LastRight, Live, Cur
  <1>7. SentRight' /\ GotRight'
    BY <1>1 DEF SentRight, GotRight
  <1>8. SoundQueue'
    BY <1>1 DEF SoundQueue, SoundPacket, Sound, Precedes
  <1> QED BY <1>3, <1>4, <1>5, <1>6, <1>7, <1>8 DEF ReadInv, Stocks

\* Every step keeps the invariant.
LEMMA ReadNext ==
    ASSUME WireInv, QueueInv, ReadInv, [ConnNext]_connVars
    PROVE  ReadInv'
  <1>1. CASE DialMoves \/ Dropped \/ Rest \/ UNCHANGED connVars
    <2>1. UNCHANGED <<op, stream, next, calls, last, buf, asm, pending, down, srv, sent, got>>
      BY <1>1 DEF DialMoves, Dropped, Rest, connVars, clientVars, serverVars
    <2> QED BY <2>1, NothingRight
  <1>2. ASSUME NEW c \in Calls, CallStarts(c) PROVE ReadInv'
    BY <1>2, CallStartsRight
  <1>3. CASE Writes
    BY <1>3, WritesRight
  <1>4. CASE Flushes
    BY <1>4, FlushesRight
  <1>5. CASE IoFails \/ TimesOut \/ Cancel
    <2>1. op # None /\ UNCHANGED <<buf, down, asm, srv, sent, got, pending>>
      BY <1>5 DEF IoFails, TimesOut, Cancel, serverVars
    <2>2. PICK outcome \in {"io", "timeout", "cancelled"}, p \in {TRUE, poisoned} : Return(outcome, p)
      <3>1. Return("io", TRUE) \/ Return("timeout", TRUE) \/ Return("cancelled", poisoned)
        BY ONLY <1>5, Zenon DEF IoFails, TimesOut, Cancel
      <3>2. "io" \in {"io", "timeout", "cancelled"} /\ "timeout" \in {"io", "timeout", "cancelled"}
            /\ "cancelled" \in {"io", "timeout", "cancelled"}
        OBVIOUS
      <3>3. TRUE \in {TRUE, poisoned} /\ poisoned \in {TRUE, poisoned}
        BY ONLY TRUE, Zenon
      <3> QED BY ONLY <3>1, <3>2, <3>3, Zenon
    <2> QED BY <2>1, <2>2, FailsRight
  <1>6. CASE RecvQueued
    BY <1>6, RecvQueuedRight
  <1>7. CASE RecvParses
    BY <1>7, RecvParsesRight
  <1>8. CASE RecvReads
    BY <1>8, RecvReadsRight
  <1>9. CASE DrainParses
    BY <1>9, DrainParsesRight
  <1>10. CASE DrainReads
    <2>1. op # None /\ UNCHANGED <<srv, sent, got, asm, pending, op, stream, next, poisoned, calls, last>>
      BY <1>10 DEF DrainReads, Draining
    <2>2. PICK n \in {1, Len(down)} : down # <<>> /\ Fill(n)
      BY <1>10 DEF DrainReads
    <2> QED BY <2>1, <2>2, FillRight
  <1>11. CASE DrainEnds
    BY <1>11, DrainEndsRight
  <1>12. CASE ServerSends
    BY <1>12, ServerSendsRight
  <1>13. CASE ServerGone
    BY <1>13, ServerGoneRight
  <1> QED
    BY <1>1, <1>2, <1>3, <1>4, <1>5, <1>6, <1>7, <1>8, <1>9, <1>10, <1>11, <1>12, <1>13 DEF ConnNext, CallMoves

\* It holds at first.
LEMMA ReadInit ==
    ASSUME ConnInit
    PROVE  ReadInv
  <1>1. /\ op = None /\ stream = None /\ next = 1 /\ buf = <<>> /\ asm = NewAssembler /\ pending = <<>>
        /\ last = [call |-> None, s |-> 0, outcome |-> None] /\ down = <<>>
        /\ sent = [s \in Streams |-> <<>>] /\ got = [s \in Streams |-> <<>>]
    BY DEF ConnInit
  <1>2. PICK b \in Budgets \cup {NoCall, OneCall} :
          /\ calls = [left |-> b.calls, kinds |-> b.kinds]
          /\ srv = [buf |-> <<>>, garbled |-> FALSE, seen |-> {}, s |-> 0, m |-> 0, ended |-> {},
                    left |-> b.replies, cut |-> 0, huge |-> FALSE, gone |-> FALSE]
    BY DEF ConnInit
  <1>3. calls.left = b.calls
    BY ONLY <1>2
  <1>4. /\ srv.seen = {} /\ srv.s = 0 /\ srv.m = 0 /\ srv.ended = {} /\ srv.cut = 0
        /\ srv.huge = FALSE /\ srv.gone = FALSE
    BY ONLY <1>2
  <1>5. b.calls \in Nat
    BY ConnAssumption DEF NoCall, OneCall
  <1>6. ~Live
    BY <1>1 DEF Live
  <1>7. Streaming
    <2>1. next + calls.left <= b.calls + 1
      BY <1>1, <1>3, <1>5
    <2> QED BY <1>1, <1>3, <1>4, <1>5, <1>6, <2>1 DEF Streaming, Probing
  <1>8. LastRight
    <2>1. last.call = None /\ last.outcome = None
      BY <1>1
    <2>2. None \notin {"closed", "truncated", "frame", "unexpected"}
      BY ConnAssumption DEF Outcomes
    <2> QED BY ONLY <2>1, <2>2 DEF LastRight
  <1>9. PICK e : e = <<>>
    OBVIOUS
  <1>10. /\ e \in Seq(Nat \X Nat) /\ e \in Seq(Seq(Payload)) /\ e \in Seq(Packet) /\ e \in Seq(Frame)
         /\ Len(e) = 0
    BY <1>9
  <1>11. SentRight
    <2>1. sent \in [Streams -> Seq(Nat \X Nat)] /\ \A s \in Streams : sent[s] = <<>> /\ Len(sent[s]) = 0
      BY <1>1, <1>9, <1>10
    <2> QED BY <2>1 DEF SentRight
  <1>12. GotRight
    <2>1. /\ got \in [Streams -> Seq(Seq(Payload))]
          /\ \A s \in Streams : Len(sent[s]) = 0 /\ Len(got[s]) = 0
      BY <1>1, <1>9, <1>10
    <2> QED BY <2>1 DEF GotRight
  <1>13. SoundQueue
    <2>1. pending \in Seq(Packet) /\ Len(pending) = 0
      BY <1>1, <1>9, <1>10
    <2> QED BY <2>1 DEF SoundQueue
  <1>14. asm.s = 1 /\ asm.m = 1 /\ asm.cur = None
    BY <1>1 DEF NewAssembler
  <1>15. Len(buf) = 0 /\ Len(down) = 0
    BY <1>1
  <1>16. Pipe(buf, down, e)
    BY <1>10, <1>15 DEF Pipe
  <1>17. SoundFrames(e)
    BY <1>10 DEF SoundFrames
  <1>18. Assembling(e)
    BY <1>4, <1>9, <1>10, <1>14 DEF Assembling
  <1>19. CutShows(e)
    BY <1>4, <1>9, <1>10, <1>14, <1>15 DEF CutShows
  <1>20. Complete(e)
    BY <1>6 DEF Complete
  <1> QED BY <1>7, <1>8, <1>10, <1>11, <1>12, <1>13, <1>16, <1>17, <1>18, <1>19, <1>20
      DEF ReadInv, Stocks, Arriving

\* The invariant says that what was read is exact.
LEMMA ReadExactly ==
    ASSUME ReadInv
    PROVE  ReadsExact
  <1>1. LastRight /\ GotRight
    BY DEF ReadInv, Stocks
  <1>2. ASSUME NEW s \in Streams
        PROVE  /\ Len(got[s]) <= Len(sent[s])
               /\ \A i \in DOMAIN got[s] : got[s][i] = [k \in 1..sent[s][i][1] |-> <<s, sent[s][i][2], k>>]
    <2>1. got[s] \in Seq(Seq(Payload))
      BY <1>1 DEF GotRight
    <2>2. DOMAIN got[s] = 1..Len(got[s])
      BY ONLY <2>1
    <2>3. Len(got[s]) <= Len(sent[s]) /\ \A i \in 1..Len(got[s]) : got[s][i] = Text(s, sent[s][i][2], sent[s][i][1])
      BY ONLY <1>1, s \in Streams, Zenon DEF GotRight
    <2>4. ASSUME NEW i \in DOMAIN got[s]
          PROVE  got[s][i] = [k \in 1..sent[s][i][1] |-> <<s, sent[s][i][2], k>>]
      <3>1. got[s][i] = Text(s, sent[s][i][2], sent[s][i][1])
        BY ONLY i \in DOMAIN got[s], <2>2, <2>3, Zenon
      <3> QED BY ONLY <3>1, Zenon DEF Text
    <2> QED BY ONLY <2>3, <2>4, Zenon
  <1>3. ASSUME last.call \in {"recv", "invoke"}
        PROVE  /\ last.outcome = "closed" =>
                     /\ Len(got[last.s]) = Len(sent[last.s])
                     /\ last.s \notin srv.ended => srv.cut = 0
               /\ last.outcome = "truncated" => srv.gone /\ (srv.cut = 1 \/ srv.huge)
    BY <1>1, <1>3 DEF LastRight
  <1>4. (last.outcome = "frame" => srv.huge) /\ last.outcome # "unexpected"
    BY <1>1 DEF LastRight
  <1> QED BY ONLY <1>2, <1>3, <1>4, Zenon DEF ReadsExact

\* For every budget of calls and answers, every packet size and every queue:
\* what a caller of the connection reads is what the server sent, whole and in
\* order, and a stream is reported ended only when nothing of it is missing
\* (Conn::recv_msg, invoke, drain_ready, PacketAssembler::push).
THEOREM ReadsExactHolds == ConnSpec => []ReadsExact
  <1>1. ConnInit => WireInv /\ QueueInv /\ ReadInv
    BY WireInit, QueueInit, ReadInit
  <1>2. WireInv /\ [ConnNext]_connVars => WireInv'
    BY WireNext
  <1>3. QueueInv /\ [ConnNext]_connVars => QueueInv'
    BY QueueNext
  <1>4. WireInv /\ QueueInv /\ ReadInv /\ [ConnNext]_connVars => ReadInv'
    BY ReadNext
  <1>5. ReadInv => ReadsExact
    BY ReadExactly
  <1> QED BY <1>1, <1>2, <1>3, <1>4, <1>5, TimedSteps, PTL DEF ConnSpec, TimedInit
=============================================================================
