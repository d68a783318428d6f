------------------------------ MODULE DialRace ------------------------------
(***************************************************************************)
(* One dial of a node (storj-rpc/src/transport.rs, socket.rs, noise.rs,    *)
(* tls.rs): the choice of transports, the head start of one over the next, *)
(* the race over the resolved addresses, authentication, the one deadline, *)
(* and the telemetry event of every attempt.  A tick of the clock is the   *)
(* 250 ms of every head start in the code.                                 *)
(***************************************************************************)
EXTENDS Integers, Sequences, FiniteSets

CONSTANTS Addrs,       \* number of addresses the name resolves to
          Deadline,    \* the dial timeout, in ticks
          None

ASSUME DialAssumption == Addrs \in Nat /\ Deadline \in Nat

Addresses == 1..Addrs

\* How a node is dialled.  Noise needs a key the satellite advertised;
\* "early" is NetworkOptions::noise_early_data, "fast" is Fast Open offered
\* by the node and allowed by the options.
Plans == [via : {"Tcp", "Quic", "Auto"}, early : {FALSE}, fast : {FALSE}]
         \cup [via : {"Noise"}, early : BOOLEAN, fast : BOOLEAN]

\* The attempts a plan may make, and the legs of an attempt.
AttemptsOf(plan) ==
    CASE plan.via = "Tcp" -> {"tcp"}
      [] plan.via = "Quic" -> {"quic"}
      [] plan.via = "Auto" -> {"quic", "tcp"}
      [] plan.via = "Noise" -> {"noise"}

LegsOf(plan) ==
    {<<k, a>> : k \in AttemptsOf(plan) \cup (IF plan.fast THEN {"fast"} ELSE {}), a \in Addresses}

AttemptOf(leg) == IF leg[1] = "fast" THEN "noise" ELSE leg[1]

VARIABLES
    plan,       \* what is dialled
    peer,       \* per leg: who is at the other end
    now,        \* the clock
    attempt,    \* per attempt: off, armed (deferred to the first write), run, tls, ok, err, cancelled
    since,      \* per attempt: when it started
    leg,        \* per leg: off, dial, ok, err
    dial,       \* the caller: run, deferred, ok, err, dropped
    won,        \* the leg the connection uses
    due,        \* the tick the deadline falls on
    events      \* history, per attempt: the outcomes reported for it

dialVars == <<plan, peer, now, attempt, since, leg, dial, won, due, events>>

\* verify_server_cert, initiator.finish: only the node itself is accepted.
Authentic(p) == p = "node"

\* The other end of a leg: the node, someone else who completes the protocol
\* with another identity, a refusal, silence, or (TCP) a silent accept.  QUIC
\* connects and authenticates in one: a refusal is like another identity.
PeersOf(kind) ==
    CASE kind = "tcp" -> {"node", "other", "refuses", "silent", "mute"}
      [] kind = "quic" -> {"node", "other", "silent"}
      [] OTHER -> {"node", "other", "refuses", "silent"}

-----------------------------------------------------------------------------
(* The dial starts *)

\* Attempt::drop reports the outcome the attempt had when it was dropped.
Report(ks, outcome) ==
    events' = [k \in DOMAIN events |-> IF k \in ks THEN Append(events[k], outcome) ELSE events[k]]

StartAttempts(ks) ==
    /\ attempt' = [k \in DOMAIN attempt |-> IF k \in ks THEN "run" ELSE attempt[k]]
    /\ since' = [k \in DOMAIN since |-> IF k \in ks THEN now ELSE since[k]]

DialInit ==
    /\ plan \in Plans
    /\ peer \in {p \in [LegsOf(plan) -> {"node", "other", "refuses", "silent", "mute"}] :
                   /\ \A l \in LegsOf(plan) : p[l] \in PeersOf(l[1])
                   /\ \A a \in Addresses : <<"fast", a>> \in LegsOf(plan) =>
                         p[<<"fast", a>>] \in {p[<<"noise", a>>], "refuses", "silent"}}
    /\ now = 0
    /\ attempt = [k \in AttemptsOf(plan) |-> IF plan.early THEN "armed"
                                            ELSE IF k = "tcp" /\ plan.via = "Auto" THEN "off"
                                            ELSE "run"]
    /\ since = [k \in AttemptsOf(plan) |-> 0]
    /\ leg = [l \in LegsOf(plan) |-> "off"]
    /\ dial = IF plan.early THEN "deferred" ELSE "run"
    /\ won = None
    /\ due = Deadline
    /\ events = [k \in AttemptsOf(plan) |-> <<>>]

\* DeferredNoise: the first read, write or flush starts the dial, and with it
\* the deadline.
FirstUse ==
    /\ dial = "deferred" /\ attempt["noise"] = "armed"
    /\ StartAttempts({"noise"})
    /\ due' = now + Deadline
    /\ UNCHANGED <<plan, peer, now, leg, dial, won, events>>

\* Auto: TCP starts when QUIC fails or has had its head start.
Fallback ==
    /\ dial = "run" /\ plan.via = "Auto" /\ attempt["tcp"] = "off"
    /\ attempt["quic"] = "err" \/ (attempt["quic"] = "run" /\ now >= since["quic"] + 1)
    /\ StartAttempts({"tcp"})
    /\ UNCHANGED <<plan, peer, now, leg, dial, won, due, events>>

-----------------------------------------------------------------------------
(* Legs: one per address, each a tick later than the one before *)

LegMayStart(l) ==
    LET k == AttemptOf(l)
        slot == since[k] + (l[2] - 1)
    IN  /\ attempt[k] = "run" /\ leg[l] = "off" /\ now >= slot
        /\ l[1] = "noise" /\ plan.fast =>
              leg[<<"fast", l[2]>>] = "err" \/ (leg[<<"fast", l[2]>>] = "dial" /\ now >= slot + 1)

LegStarts(l) ==
    /\ LegMayStart(l)
    /\ leg' = [leg EXCEPT ![l] = "dial"]
    /\ UNCHANGED <<plan, peer, now, attempt, since, dial, won, due, events>>

\* The two legs of one address share one handshake: the first answer settles
\* the address.
Siblings(l) == IF l[1] \in {"fast", "noise"} THEN {m \in DOMAIN leg : m[2] = l[2]} ELSE {l}

\* A leg that does not stay silent ends.  QUIC and Noise authenticate inside
\* the leg, so an impostor cannot win; TCP races bare connects.
LegEnds(l) ==
    /\ attempt[AttemptOf(l)] = "run" /\ leg[l] = "dial"
    /\ \/ /\ peer[l] = "refuses"
          /\ leg' = [leg EXCEPT ![l] = "err"]
          /\ UNCHANGED attempt
       \/ /\ l[1] = "tcp" /\ peer[l] \in {"node", "other", "mute"}
          /\ leg' = [leg EXCEPT ![l] = "ok"]
          /\ attempt' = [attempt EXCEPT !["tcp"] = "tls"]
       \/ /\ l[1] # "tcp" /\ peer[l] \in {"node", "other"}
          /\ leg' = [m \in DOMAIN leg |-> IF m \notin Siblings(l) THEN leg[m]
                                          ELSE IF m = l /\ Authentic(peer[l]) THEN "ok" ELSE "err"]
          /\ UNCHANGED attempt
    /\ UNCHANGED <<plan, peer, now, since, dial, won, due, events>>

-----------------------------------------------------------------------------
(* Attempts *)

LegsOk(k) == {l \in DOMAIN leg : AttemptOf(l) = k /\ leg[l] = "ok"}

\* attempt, dial_noise_with_options: the outcome is set before the event goes.
Settle(k, outcome) ==
    /\ attempt' = [attempt EXCEPT ![k] = outcome]
    /\ Report({k}, IF outcome = "ok" THEN "Success" ELSE "Error")
    /\ UNCHANGED <<plan, peer, now, since, leg, dial, won, due>>

\* QUIC and Noise: the first leg that is ok, an error when every leg failed.
RaceSettles(k) ==
    /\ k # "tcp" /\ attempt[k] = "run"
    /\ \/ LegsOk(k) # {} /\ Settle(k, "ok")
       \/ (\A l \in DOMAIN leg : AttemptOf(l) = k => leg[l] = "err") /\ Settle(k, "err")

\* TCP: TLS with whoever accepted first decides.
TcpSettles ==
    /\ "tcp" \in DOMAIN attempt
    /\ \/ /\ attempt["tcp"] = "tls"
          /\ \E l \in LegsOk("tcp") :
                \/ peer[l] = "node" /\ Settle("tcp", "ok")
                \/ peer[l] = "other" /\ Settle("tcp", "err")
       \/ /\ attempt["tcp"] = "run"
          /\ \A a \in Addresses : leg[<<"tcp", a>>] = "err"
          /\ Settle("tcp", "err")

\* timeout_at the dial's one deadline.
AttemptTimesOut(k) ==
    /\ attempt[k] \in {"run", "tls"} /\ now >= due
    /\ Settle(k, "err")

-----------------------------------------------------------------------------
(* The dial ends *)

Running == {k \in DOMAIN attempt : attempt[k] \in {"armed", "run", "tls"}}

\* The losers are dropped with the future that raced them.
CancelRest(outcome) ==
    /\ dial' = outcome
    /\ attempt' = [k \in DOMAIN attempt |-> IF k \in Running THEN "cancelled" ELSE attempt[k]]
    /\ Report(Running, "Cancelled")
    /\ UNCHANGED <<plan, peer, now, since, leg, due>>

DialOk ==
    /\ dial \in {"run", "deferred"}
    /\ \E k \in DOMAIN attempt : attempt[k] = "ok" /\ won' \in LegsOk(k)
    /\ CancelRest("ok")

\* Mutant: the first failure of the race is the dial's.
DialErrEarly ==
    /\ dial \in {"run", "deferred"}
    /\ \E k \in DOMAIN attempt : attempt[k] = "err"
    /\ CancelRest("err")
    /\ UNCHANGED won

\* An error only when every attempt of the plan failed.
DialErr ==
    /\ dial \in {"run", "deferred"}
    /\ \A k \in DOMAIN attempt : attempt[k] = "err"
    /\ CancelRest("err")
    /\ UNCHANGED won

\* Mutant: a dropped dial reports nothing.
DialDroppedSilently ==
    /\ dial \in {"run", "deferred"}
    /\ dial' = "dropped"
    /\ attempt' = [k \in DOMAIN attempt |-> IF k \in Running THEN "cancelled" ELSE attempt[k]]
    /\ UNCHANGED <<plan, peer, now, since, leg, due, won, events>>

\* The caller drops the dial future, or the connection it deferred.
DialDropped ==
    /\ dial \in {"run", "deferred"}
    /\ CancelRest("dropped")
    /\ UNCHANGED won

Tick ==
    /\ dial = "run" \/ (dial = "deferred" /\ attempt["noise"] = "run")
    /\ now < due
    /\ now' = now + 1
    /\ UNCHANGED <<plan, peer, attempt, since, leg, dial, won, due, events>>

DialStep ==
    \/ Fallback \/ TcpSettles \/ DialOk \/ DialErr
    \/ \E l \in DOMAIN leg : LegStarts(l) \/ LegEnds(l)
    \/ \E k \in DOMAIN attempt : RaceSettles(k) \/ AttemptTimesOut(k)

-----------------------------------------------------------------------------
(* Properties *)

\* A dial connects to the node or not at all, and before its deadline it
\* fails only when no leg could have reached the node: an address that stalls
\* or a first transport that fails does not hide a later one that works.
\* (Over TCP the first address that accepts decides, whoever it is.)
DialHonest ==
    /\ won # None => Authentic(peer[won])
    /\ dial = "err" /\ now < due =>
          \A l \in DOMAIN leg : Authentic(peer[l]) =>
             l[1] = "tcp" /\ \E m \in LegsOk("tcp") : ~Authentic(peer[m])

\* Every attempt that was made is reported exactly once when the dial is
\* over, as the success of the winner or otherwise.
AttemptsReported ==
    dial \in {"ok", "err", "dropped"} =>
       \A k \in DOMAIN attempt :
          /\ Len(events[k]) = IF attempt[k] = "off" THEN 0 ELSE 1
          /\ (dial = "ok" /\ k = AttemptOf(won)) => events[k] = <<"Success">>
          /\ dial = "err" => events[k] # <<"Success">>
=============================================================================
