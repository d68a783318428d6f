------------------------- MODULE UploadHandleProofs -------------------------
(***************************************************************************)
(* UploadIntegrity and CommittedStays of UploadHandle, for every segment   *)
(* size, every longest write and every amount of data.                     *)
(*                                                                         *)
(* UploadIntegrity speaks of the published object only.  Inv says what the *)
(* writer's buffer, the flush task, the request slots and the satellite's  *)
(* segments mean on the way there:                                         *)
(*   - Slots: which requests can be under way where the owner is, so that  *)
(*     a late one of an upload that failed never meets a commit;           *)
(*   - Accounting: the units accepted are those stored, those in the flush *)
(*     task's hands and those in the buffer, in order;                     *)
(*   - Stored: the satellite holds what has been acknowledged;             *)
(*   - Sealed: from CommitObject on, late or not, all is in place and      *)
(*     nothing can touch it any more.                                      *)
(***************************************************************************)
EXTENDS UploadHandle, SequenceTheorems, TLAPS

-----------------------------------------------------------------------------
(* The inductive invariant *)

\* Units accepted before segment i of a stream whose segments are full.
Off(i) == i * MaxSegment

\* n units that follow the first `from`.
Run(from, n) == [j \in 1..n |-> from + j]

\* The state in which the handle may still come to publish something.
Healthy == ~innerFailed /\ handle \in {"open", "flushWait", "lastSegment"}

\* CommitObject is under way, or was.
Committing == handle = "commitObject" \/ net["commitObject"] # "none" \/ object = "committed"

\* The first n segments are stored, full.
StoredUpTo(n) ==
    /\ DOMAIN segs = 0..(n - 1)
    /\ \A i \in 0..(n - 1) : segs[i] = Run(Off(i), MaxSegment)

\* The types the proofs need, beyond those of TypeOK.
Types ==
    /\ HandleTypeOK
    /\ flush \in [st : {"none", "running", "ok", "err"}, abort : BOOLEAN,
                  index : Nat, data : Seq(Nat)]

\* A poisoned handle is left by abort, drop or a commit that fails.
Poisoned ==
    innerFailed => ~attached /\ handle \in {"open", "failedDelete", "abortJoin", "abortDelete", "closed"}

\* What is under way while the handle is healthy.
Slots ==
    Healthy =>
        /\ ~flush.abort
        /\ handle = "lastSegment" => ~attached /\ net["lastSegment"] \in {"sent", "ok", "err"}
        /\ handle # "lastSegment" => net["lastSegment"] = "none"
        /\ attached => flush.st # "none"
        /\ attached /\ flush.st = "running" => net["flush"] \in {"sent", "ok", "err"}
        /\ ~attached => flush.st \in {"none", "ok"}
        /\ flush.st \in {"none", "ok"} => net["flush"] = "none"

\* Where the units accepted so far are.
Accounting ==
    Healthy =>
        /\ totalPlain = Off(nextSegment)
        /\ nextSegment # 0 => lastPlain = MaxSegment
        /\ accepted = Off(nextSegment) + (IF attached THEN MaxSegment ELSE 0) + Len(plaintext)
        /\ plaintext = Run(accepted - Len(plaintext), Len(plaintext))
        /\ attached => /\ flush.index = nextSegment
                       /\ flush.data = Run(Off(nextSegment), MaxSegment)

\* What the satellite holds of them.
Stored ==
    Healthy =>
        /\ ~attached /\ (handle = "lastSegment" => net["lastSegment"] = "sent")
             => StoredUpTo(nextSegment)
        /\ handle = "lastSegment" /\ net["lastSegment"] = "ok" =>
             /\ DOMAIN segs = 0..nextSegment
             /\ \A i \in 0..(nextSegment - 1) : segs[i] = Run(Off(i), MaxSegment)
             /\ segs[nextSegment] = plaintext
        /\ attached /\ flush.st = "running" /\ net["flush"] = "sent" => StoredUpTo(nextSegment)
        /\ attached /\ (flush.st = "ok" \/ (flush.st = "running" /\ net["flush"] = "ok"))
             => StoredUpTo(nextSegment + 1)

\* Everything is stored, the handle's counters describe it, and no request
\* that could change it is under way.
Sealed ==
    Committing =>
        /\ ~innerFailed /\ ~attached
        /\ handle \in {"commitObject", "closed"}
        /\ net["flush"] = "none" /\ net["lastSegment"] = "none"
        /\ nextSegment # 0
        /\ Complete(nextSegment)
        /\ lastPlain = Len(segs[nextSegment - 1])
        /\ totalPlain = accepted

\* What the satellite published and answered.
Published ==
    /\ object = "committed" => published = Meta
    /\ net["commitObject"] = "ok" => object = "committed"

\* The telemetry.
Outcome ==
    /\ events = <<>> \/ \E o \in {"Success", "Error", "Cancelled"} : events = <<o>>
    /\ handle = "closed" => events # <<>>
    /\ events = <<"Success">> => object = "committed"

Inv ==
    /\ Types
    /\ Poisoned
    /\ Slots
    /\ Accounting
    /\ Stored
    /\ Sealed
    /\ Published
    /\ Outcome

-----------------------------------------------------------------------------
(* Lemmas about the operators *)

\* Segment i of a stream of full segments begins where segment i - 1 ends, and
\* there are no more full segments than units.
LEMMA OffFacts ==
    /\ Off(0) = 0
    /\ \A i \in Nat : /\ Off(i) \in Nat
                      /\ Off(i) >= i
                      /\ Off(i + 1) = Off(i) + MaxSegment
<1>1. Off(0) = 0
  BY UploadAssumption DEF Off
<1>2. ASSUME NEW i \in Nat
      PROVE  Off(i) \in Nat /\ Off(i) >= i /\ Off(i + 1) = Off(i) + MaxSegment
  <2>1. PICK m \in Nat : MaxSegment = m + 1
    BY UploadAssumption
  <2>2. i * MaxSegment = i * m + i /\ i * m \in Nat
    BY <2>1
  <2>3. (i + 1) * MaxSegment = i * MaxSegment + MaxSegment
    BY UploadAssumption
  <2> QED BY <2>2, <2>3, UploadAssumption DEF Off
<1> QED BY <1>1, <1>2

\* A run of units is a sequence of them.
LEMMA RunFacts ==
    ASSUME NEW from \in Nat, NEW n \in Nat
    PROVE  /\ Run(from, n) \in Seq(Nat)
           /\ Len(Run(from, n)) = n
           /\ DOMAIN Run(from, n) = 1..n
           /\ \A j \in 1..n : Run(from, n)[j] = from + j
BY DEF Run

\* Two runs that meet are one run: the buffer and what a write adds to it.
LEMMA RunJoins ==
    ASSUME NEW from \in Nat, NEW n \in Nat, NEW t \in Nat
    PROVE  Run(from, n) \o Run(from + n, t) = Run(from, n + t)
<1>1. from + n \in Nat /\ n + t \in Nat
  OBVIOUS
<1> DEFINE a == Run(from, n)
           b == Run(from + n, t)
           c == Run(from, n + t)
<1>2. a \in Seq(Nat) /\ Len(a) = n /\ \A j \in 1..n : a[j] = from + j
  BY RunFacts
<1>3. b \in Seq(Nat) /\ Len(b) = t /\ \A j \in 1..t : b[j] = from + n + j
  BY <1>1, RunFacts
<1>4. c \in Seq(Nat) /\ Len(c) = n + t /\ \A j \in 1..(n + t) : c[j] = from + j
  BY <1>1, RunFacts
<1> DEFINE d == a \o b
<1> HIDE DEF a, b, c
<1>5. d \in Seq(Nat) /\ Len(d) = n + t
  BY <1>2, <1>3
<1>6. \A j \in 1..n : d[j] = from + j
  BY <1>2, <1>3
<1>7. ASSUME NEW j \in 1..t
      PROVE  d[n + j] = from + n + j
  <2>1. n + j \in 1..(Len(a) + Len(b)) /\ ~(n + j <= Len(a)) /\ (n + j) - Len(a) = j
    BY <1>2, <1>3
  <2>2. d[n + j] = b[j]
    BY <1>2, <1>3, <2>1, ConcatProperties
  <2> QED BY <1>3, <2>2
<1> HIDE DEF d
<1>8. ASSUME NEW j \in 1..(n + t)
      PROVE  d[j] = c[j]
  <2>1. CASE j <= n
    BY <1>4, <1>6, <2>1
  <2>2. CASE j > n
    <3>1. j - n \in 1..t /\ n + (j - n) = j /\ from + n + (j - n) = from + j
      BY <2>2
    <3> QED BY <1>4, <1>7, <3>1
  <2> QED BY <2>1, <2>2
<1>9. d = c
  BY <1>4, <1>5, <1>8, SeqEqual
<1> QED BY <1>9 DEF a, b, c, d

\* An upload begins in the invariant.
LEMMA InitInv == HandleInit => Inv
<1> SUFFICES ASSUME HandleInit PROVE Inv
  OBVIOUS
<1>1. Types
  <2>1. flush \in [st : {"none", "running", "ok", "err"}, abort : BOOLEAN,
                   index : Nat, data : Seq(Nat)]
    BY DEF HandleInit, NoFlush
  <2>2. plaintext \in Seq(1..MaxBytes) /\ Len(plaintext) <= MaxSegment
    BY UploadAssumption DEF HandleInit
  <2>3. net \in [Callers -> NetStates] /\ handle \in HandleStates
    BY DEF HandleInit, HandleStates, NetStates
  <2>4. /\ nextSegment \in 0..(MaxBytes + 1)
        /\ totalPlain \in 0..MaxBytes
        /\ lastPlain \in 0..MaxSegment
        /\ accepted \in 0..MaxBytes
    BY UploadAssumption DEF HandleInit
  <2>5. attached \in BOOLEAN /\ innerFailed \in BOOLEAN /\ blocked \in BOOLEAN
    BY DEF HandleInit
  <2>6. flush.st \in {"none", "running", "ok", "err"} /\ object \in {"pending", "committed", "deleted"}
    BY DEF HandleInit, NoFlush
  <2> QED BY <2>1, <2>2, <2>3, <2>4, <2>5, <2>6 DEF Types, HandleTypeOK
<1>2. Poisoned /\ Slots /\ Sealed /\ Published /\ Outcome
  BY DEF HandleInit, Poisoned, Slots, Sealed, Published, Outcome, Committing, NoFlush, Callers
<1>3. Accounting
  <2>1. Run(0, 0) = <<>>
    BY DEF Run
  <2> QED BY <2>1, OffFacts DEF HandleInit, Accounting
<1>4. Stored
  BY DEF HandleInit, Stored, StoredUpTo, NoFlush
<1> QED BY <1>1, <1>2, <1>3, <1>4 DEF Inv

-----------------------------------------------------------------------------
(* Every step preserves the invariant *)

\* All the invariant speaks of, but for `blocked`.
core == <<handle, inner, flush, accepted, events, net, satellite>>

\* A call that only returns, or only waits, leaves the invariant alone.
LEMMA CoreUnchanged ==
    ASSUME Inv, UNCHANGED core, blocked' \in BOOLEAN
    PROVE  Inv'
<1> USE DEF core, inner, satellite
<1>1. Types'
  BY DEF Inv, Types, HandleTypeOK
<1>2. Poisoned' /\ Slots' /\ Outcome'
  BY DEF Inv, Poisoned, Slots, Outcome, Healthy
<1>3. Accounting'
  BY DEF Inv, Accounting, Healthy
<1>4. Stored'
  BY DEF Inv, Stored, Healthy, StoredUpTo
<1>5. Sealed' /\ Published'
  BY DEF Inv, Sealed, Published, Committing, Complete, Meta
<1> QED BY <1>1, <1>2, <1>3, <1>4, <1>5 DEF Inv

\* poison: a handle that fails has not begun to commit.
LEMMA PoisonInv ==
    ASSUME Inv, handle = "open", NEW call, Poison(call)
    PROVE  Inv'
<1> USE DEF Poison, inner, satellite
<1>1. ~Committing
  BY DEF Inv, Sealed
<1>2. Types'
  BY DEF Inv, Types, HandleTypeOK
<1>3. Poisoned'
  BY DEF Inv, Poisoned
<1>4. ~Healthy' /\ ~Committing'
  BY <1>1 DEF Healthy, Committing
<1>5. Slots' /\ Accounting' /\ Stored' /\ Sealed'
  BY <1>4 DEF Slots, Accounting, Stored, Sealed
<1>6. Published'
  BY DEF Inv, Published, Meta
<1>7. Outcome'
  BY DEF Inv, Outcome, Finish
<1> QED BY <1>2, <1>3, <1>5, <1>6, <1>7 DEF Inv

LEMMA CallFailsInv ==
    ASSUME Inv, handle = "open", NEW call, CallFails(call)
    PROVE  Inv'
<1>1. CASE Poison(call)
  BY <1>1, PoisonInv
<1>2. CASE UNCHANGED core /\ blocked' = blocked
  BY <1>2, CoreUnchanged DEF Inv, Types, HandleTypeOK
<1> QED BY <1>1, <1>2 DEF CallFails, core

\* The handle is left without a commit: abort, drop, or a commit of a poisoned
\* upload.  What is still under way can only end in a delete.
LEMMA LeaveInv ==
    ASSUME Inv, ~Committing,
           handle' \in {"failedDelete", "abortJoin", "abortDelete", "closed"},
           handle' = "closed" => events' # <<>>,
           events' = events \/ \E o \in {"Error", "Cancelled"} : Finish(o),
           attached' \in {attached, FALSE}, blocked' \in {blocked, FALSE},
           flush' \in {flush, [flush EXCEPT !.abort = TRUE]},
           net' \in [Callers -> NetStates], net'["commitObject"] = "none",
           UNCHANGED <<plaintext, nextSegment, totalPlain, lastPlain, innerFailed, accepted, satellite>>
    PROVE  Inv'
<1> USE DEF satellite
<1>1. Types'
  BY DEF Inv, Types, HandleTypeOK, HandleStates, Awaits
<1>2. Poisoned'
  BY DEF Inv, Types, HandleTypeOK, Poisoned
<1>3. ~Healthy' /\ ~Committing'
  BY DEF Healthy, Committing
<1>4. Slots' /\ Accounting' /\ Stored' /\ Sealed'
  BY <1>3 DEF Slots, Accounting, Stored, Sealed
<1>5. Published'
  BY <1>3 DEF Published, Committing
<1>6. Outcome'
  BY DEF Inv, Outcome, Finish
<1> QED BY <1>1, <1>2, <1>4, <1>5, <1>6 DEF Inv

\* A future that is dropped or times out leaves its request on the way, and no
\* other request is affected.
LEMMA GiveUpFacts ==
    ASSUME NEW n \in [Callers -> NetStates], NEW c \in Callers
    PROVE  /\ GiveUp(n, c) \in [Callers -> NetStates]
           /\ \A d \in Callers : /\ d # c => GiveUp(n, c)[d] = n[d]
                                 /\ (GiveUp(n, c)[d] = "none") <=> (n[d] = "none")
                                 /\ GiveUp(n, c)[d] = "ok" => n[d] = "ok"
BY DEF GiveUp, NetStates

\* Commit is left with an error, also with CommitObject under way: what was
\* sealed stays so.
LEMMA LeaveCommitInv ==
    ASSUME Inv, handle \in {"flushWait", "lastSegment", "commitObject"},
           NEW outcome \in {"Error", "Cancelled"}, NEW ok, LeaveCommit(outcome, ok)
    PROVE  Inv'
<1> DEFINE n1 == GiveUp(net, "lastSegment")
           n2 == GiveUp(n1, "commitObject")
<1>1. net \in [Callers -> NetStates] /\ "lastSegment" \in Callers /\ "commitObject" \in Callers
      /\ "delete" \in Callers /\ "flush" \in Callers
  BY DEF Inv, Types, HandleTypeOK, Callers
<1>2. /\ n1 \in [Callers -> NetStates]
      /\ \A d \in Callers : /\ d # "lastSegment" => n1[d] = net[d]
                            /\ (n1[d] = "none") <=> (net[d] = "none")
                            /\ n1[d] = "ok" => net[d] = "ok"
  BY <1>1, GiveUpFacts
<1> HIDE DEF n1
<1>3. /\ n2 \in [Callers -> NetStates]
      /\ \A d \in Callers : /\ d # "commitObject" => n2[d] = n1[d]
                            /\ (n2[d] = "none") <=> (n1[d] = "none")
                            /\ n2[d] = "ok" => n1[d] = "ok"
  BY <1>1, <1>2, GiveUpFacts
<1> HIDE DEF n2
<1>4. net' = [n2 EXCEPT !["delete"] = "sent"]
  BY DEF LeaveCommit, n1, n2
<1>5. /\ net' \in [Callers -> NetStates]
      /\ \A d \in {"flush", "lastSegment", "commitObject"} :
            /\ (net'[d] = "none") <=> (net[d] = "none")
            /\ net'[d] = "ok" => net[d] = "ok"
  BY <1>1, <1>2, <1>3, <1>4 DEF NetStates
<1> USE DEF LeaveCommit, satellite
<1>6. Types'
  BY <1>5 DEF Inv, Types, HandleTypeOK, HandleStates
<1>7. ~Healthy' /\ Slots' /\ Accounting' /\ Stored'
  BY DEF Healthy, Slots, Accounting, Stored
<1>8. Poisoned' /\ Outcome'
  BY DEF Inv, Poisoned, Outcome, Finish
<1>9. Committing' => Committing
  BY <1>5 DEF Committing
<1>10. Sealed'
  BY <1>5, <1>9 DEF Inv, Sealed, Complete
<1>11. Published'
  BY <1>5 DEF Inv, Published, Meta
<1> QED BY <1>6, <1>7, <1>8, <1>10, <1>11 DEF Inv

\* abort() and Drop: the flush is told to stop and a delete is under way.
LEMMA AbortInv ==
    ASSUME Inv, Abort \/ AbortJoins \/ Drop
    PROVE  Inv'
<1>1. ~Committing /\ net["commitObject"] = "none"
  BY DEF Inv, Sealed, Committing, Abort, AbortJoins, Drop
<1>2. /\ net \in [Callers -> NetStates]
      /\ [net EXCEPT !["delete"] = "sent"] \in [Callers -> NetStates]
      /\ [net EXCEPT !["delete"] = "sent"]["commitObject"] = net["commitObject"]
  BY DEF Inv, Types, HandleTypeOK, Callers, NetStates
<1>3. net' \in [Callers -> NetStates] /\ net'["commitObject"] = "none"
  BY <1>1, <1>2 DEF Abort, AbortJoins, Drop, Send
<1>4. events' = events \/ \E o \in {"Error", "Cancelled"} : Finish(o)
  BY DEF Abort, AbortJoins, Drop
<1>5. handle' = "closed" => events' # <<>>
  BY DEF Abort, AbortJoins, Drop, Finish
<1> QED BY <1>1, <1>3, <1>4, <1>5, LeaveInv DEF Abort, AbortJoins, Drop, AbortFlush, inner

\* The delete of abort() is answered, given up or dropped.
LEMMA AbortEndsInv ==
    ASSUME Inv, AbortAnswered \/ CancelAbort
    PROVE  Inv'
<1>1. ~Committing /\ net["commitObject"] = "none"
  BY DEF Inv, Sealed, Committing, AbortAnswered, CancelAbort
<1>2. net \in [Callers -> NetStates] /\ "delete" \in Callers /\ "commitObject" \in Callers
  BY DEF Inv, Types, HandleTypeOK, Callers
<1> DEFINE n == GiveUp(net, "delete")
<1>3. n \in [Callers -> NetStates] /\ n["commitObject"] = "none"
  BY <1>1, <1>2, GiveUpFacts
<1>4. net' \in {n, [net EXCEPT !["delete"] = "none"], [n EXCEPT !["deleteRetry"] = "sent"]}
  BY DEF AbortAnswered, CancelAbort
<1> HIDE DEF n
<1>5. net' \in [Callers -> NetStates] /\ net'["commitObject"] = "none"
  BY <1>1, <1>2, <1>3, <1>4 DEF NetStates
<1>6. \E o \in {"Error", "Cancelled"} : Finish(o)
  BY DEF AbortAnswered, CancelAbort
<1>7. events' # <<>>
  BY <1>6 DEF Finish
<1> QED BY <1>1, <1>5, <1>6, <1>7, LeaveInv DEF AbortAnswered, CancelAbort, inner

\* The flush task ends: its request was answered, timed out or was aborted.
LEMMA FlushRunsInv ==
    ASSUME Inv, FlushRuns
    PROVE  Inv'
<1> USE DEF inner, satellite
<1>1. net \in [Callers -> NetStates] /\ "flush" \in Callers /\ "lastSegment" \in Callers
      /\ "commitObject" \in Callers
  BY DEF Inv, Types, HandleTypeOK, Callers
<1>2. flush.st = "running"
  BY DEF FlushRuns, FlushEnds, FlushTimesOut, FlushAborted
<1>3. /\ net' \in [Callers -> NetStates]
      /\ net'["lastSegment"] = net["lastSegment"]
      /\ net'["commitObject"] = net["commitObject"]
      /\ net["flush"] = "none" => net'["flush"] = "none"
  <2>1. CASE net' = GiveUp(net, "flush")
    <3> DEFINE n == GiveUp(net, "flush")
    <3>1. /\ n \in [Callers -> NetStates]
          /\ n["lastSegment"] = net["lastSegment"] /\ n["commitObject"] = net["commitObject"]
          /\ net["flush"] = "none" => n["flush"] = "none"
      BY <1>1, GiveUpFacts
    <3> QED BY <2>1, <3>1
  <2>2. CASE net' = [net EXCEPT !["flush"] = "none"]
    BY <1>1, <2>2 DEF NetStates
  <2> QED BY <2>1, <2>2 DEF FlushRuns, FlushEnds, FlushTimesOut, FlushAborted
<1>4. /\ flush' = [flush EXCEPT !.st = flush'.st]
      /\ flush'.st \in {"ok", "err"}
      /\ flush'.st = "ok" => net["flush"] = "ok" /\ net'["flush"] = "none"
  BY <1>1 DEF FlushRuns, FlushEnds, FlushTimesOut, FlushAborted, Inv, Types
<1>5. flush \in [st : {"none", "running", "ok", "err"}, abort : BOOLEAN, index : Nat, data : Seq(Nat)]
  BY DEF Inv, Types
<1>6. flush'.abort = flush.abort /\ flush'.index = flush.index /\ flush'.data = flush.data
  BY <1>4, <1>5
<1>7. UNCHANGED <<handle, inner, accepted, events, last, satellite>> /\ blocked' \in {blocked, FALSE}
  BY DEF FlushRuns, FlushEnds, FlushTimesOut, FlushAborted
<1>8. Types'
  <2>1. flush' \in [st : {"none", "running", "ok", "err"}, abort : BOOLEAN, index : Nat, data : Seq(Nat)]
    BY <1>4, <1>5
  <2> QED BY <1>3, <1>4, <1>7, <2>1 DEF Inv, Types, HandleTypeOK
<1>9. Poisoned' /\ Outcome'
  BY <1>7 DEF Inv, Poisoned, Outcome
<1>10. Healthy' <=> Healthy
  BY <1>7 DEF Healthy
<1>11. Healthy => attached
  BY <1>2 DEF Inv, Slots
<1>12. Slots'
  BY <1>3, <1>4, <1>6, <1>7, <1>10, <1>11 DEF Inv, Slots
<1>13. Accounting'
  BY <1>6, <1>7, <1>10 DEF Inv, Accounting
<1>14. Stored'
  <2>1. ASSUME Healthy PROVE handle # "lastSegment"
    BY <1>11, <2>1 DEF Inv, Slots
  <2>2. StoredUpTo(nextSegment + 1)' <=> StoredUpTo(nextSegment + 1)
    BY <1>7 DEF StoredUpTo
  <2> QED BY <1>2, <1>4, <1>7, <1>10, <1>11, <2>1, <2>2 DEF Inv, Stored
<1>15. Sealed'
  BY <1>3, <1>7 DEF Inv, Sealed, Committing, Complete
<1>16. Published'
  BY <1>3, <1>7 DEF Inv, Published, Meta
<1> QED BY <1>8, <1>9, <1>12, <1>13, <1>14, <1>15, <1>16 DEF Inv

\* A request has no effect, because it is lost or comes too late for the
\* object: its caller, if it still waits, sees an error.
LEMMA NoEffectInv ==
    ASSUME Inv, NEW c \in Callers, net[c] \in {"sent", "late"},
           net' = [net EXCEPT ![c] = IF net[c] = "late" THEN "none" ELSE "err"],
           UNCHANGED <<handle, inner, flush, blocked, accepted, events, satellite>>
    PROVE  Inv'
<1> USE DEF inner, satellite
<1>1. net \in [Callers -> NetStates]
  BY DEF Inv, Types, HandleTypeOK
<1>2. /\ net' \in [Callers -> NetStates]
      /\ net[c] # "none"
      /\ net[c] = "sent" => net'[c] = "err"
      /\ net[c] # "sent" => net'[c] = "none"
      /\ net'[c] # "ok" /\ net'[c] # "sent"
      /\ \A d \in Callers : d # c => net'[d] = net[d]
  BY <1>1 DEF NetStates
<1>3. "flush" \in Callers /\ "lastSegment" \in Callers /\ "commitObject" \in Callers
  BY DEF Callers
<1>4. Types'
  BY <1>2 DEF Inv, Types, HandleTypeOK
<1>5. Poisoned' /\ Outcome' /\ (Healthy' <=> Healthy)
  BY DEF Inv, Poisoned, Outcome, Healthy
<1>6. Accounting'
  BY <1>5 DEF Inv, Accounting
<1>7. Slots'
  BY <1>2, <1>3, <1>5 DEF Inv, Slots
<1>8. Stored'
  BY <1>2, <1>3, <1>5 DEF Inv, Slots, Stored, StoredUpTo
<1>9. Sealed'
  BY <1>2, <1>3 DEF Inv, Sealed, Committing, Complete
<1>10. Published'
  BY <1>2, <1>3 DEF Inv, Published, Meta
<1> QED BY <1>4, <1>5, <1>6, <1>7, <1>8, <1>9, <1>10 DEF Inv

\* A detached delete ends.
LEMMA DetachedDeleteEndsInv ==
    ASSUME Inv, NEW c \in Callers, DetachedDeleteEnds(c)
    PROVE  Inv'
<1> USE DEF DetachedDeleteEnds, inner, satellite
<1>1. net \in [Callers -> NetStates]
  BY DEF Inv, Types, HandleTypeOK
<1>2. /\ net' \in [Callers -> NetStates]
      /\ net'["flush"] = net["flush"] /\ net'["lastSegment"] = net["lastSegment"]
      /\ net'["commitObject"] = net["commitObject"]
  BY <1>1 DEF NetStates, Callers
<1>3. Types' /\ Poisoned' /\ Outcome'
  BY <1>2 DEF Inv, Types, HandleTypeOK, Poisoned, Outcome
<1>4. Slots' /\ Accounting' /\ Stored'
  BY DEF Healthy, Slots, Accounting, Stored
<1>5. Sealed' /\ Published'
  BY <1>2 DEF Inv, Sealed, Committing, Complete, Published, Meta
<1> QED BY <1>3, <1>4, <1>5 DEF Inv

\* A segment request is served while the object is pending: the flush task's
\* next segment, or commit's last.
LEMMA SegmentServedInv ==
    ASSUME Inv, NEW c \in {"flush", "lastSegment"}, SatelliteServes(c), object = "pending"
    PROVE  Inv'
<1> USE DEF SatelliteServes, inner, satellite
<1>1. net \in [Callers -> NetStates] /\ c \in Callers
  BY DEF Inv, Types, HandleTypeOK, Callers
<1>2. /\ net' \in [Callers -> NetStates]
      /\ \A d \in Callers : d # c => net'[d] = net[d]
      /\ net[c] \in {"sent", "late"}
      /\ net[c] = "sent" => net'[c] \in {"ok", "err"}
      /\ net[c] = "late" => net'[c] = "none"
  <2>1. PICK v \in {"none", "ok", "err"} :
            /\ net' = [net EXCEPT ![c] = v]
            /\ net[c] = "sent" => v \in {"ok", "err"}
            /\ net[c] = "late" => v = "none"
    <3>1. Accepts(c)
      BY DEF Accepts
    <3>2. CASE net[c] = "late"
      <4>1. net' = [net EXCEPT ![c] = "none"]
        BY <3>2
      <4> QED BY <3>2, <4>1
    <3>3. CASE net[c] = "sent"
      <4>1. net' = [net EXCEPT ![c] = "ok"] \/ net' = [net EXCEPT ![c] = "err"]
        BY <3>1, <3>3
      <4> QED BY <3>3, <4>1
    <3> QED BY <3>2, <3>3
  <2>2. net[c] \in {"sent", "late"}
    OBVIOUS
  <2> QED BY ONLY <1>1, <2>1, <2>2 DEF NetStates
<1>3. "flush" \in Callers /\ "lastSegment" \in Callers /\ "commitObject" \in Callers
  BY DEF Callers
<1>4. /\ segs' = [i \in DOMAIN segs \cup {Job(c).index} |->
                    IF i = Job(c).index THEN Job(c).data ELSE segs[i]]
      /\ UNCHANGED <<object, published>>
  BY DEF Serve
<1>5. ~Committing /\ ~Committing'
  BY <1>2, <1>3, <1>4 DEF Inv, Sealed, Committing
<1>6. Types'
  BY <1>2, <1>4 DEF Inv, Types, HandleTypeOK
<1>7. Poisoned' /\ Outcome' /\ (Healthy' <=> Healthy)
  BY <1>4 DEF Inv, Poisoned, Outcome, Healthy
<1>8. Accounting'
  BY <1>7 DEF Inv, Accounting
<1>9. Sealed' /\ Published'
  BY <1>5 DEF Sealed, Published, Committing
<1>10. Slots'
  BY <1>2, <1>3, <1>7 DEF Inv, Slots
<1>11. ASSUME NEW n \in Nat, StoredUpTo(n), Job(c).index = n
       PROVE  /\ DOMAIN segs' = 0..n
              /\ \A i \in 0..(n - 1) : segs'[i] = Run(Off(i), MaxSegment)
              /\ segs'[n] = Job(c).data
  <2>1. (0..(n - 1)) \cup {n} = 0..n
    OBVIOUS
  <2>2. DOMAIN segs = 0..(n - 1) /\ \A i \in 0..(n - 1) : segs[i] = Run(Off(i), MaxSegment)
    BY <1>11 DEF StoredUpTo
  <2> QED BY <1>4, <1>11, <2>1, <2>2
<1>12. nextSegment \in Nat
  BY UploadAssumption DEF Inv, Types, HandleTypeOK
<1>13. ASSUME Healthy, c = "flush" PROVE Stored'
  <2>1. attached /\ handle # "lastSegment"
    BY <1>2, <1>13 DEF Inv, Slots
  <2>2. CASE flush.st = "running" /\ net["flush"] = "sent"
    <3>1. StoredUpTo(nextSegment) /\ Job(c).index = nextSegment
          /\ Job(c).data = Run(Off(nextSegment), MaxSegment)
      BY <1>13, <2>1, <2>2 DEF Inv, Stored, Accounting, Job
    <3>2. StoredUpTo(nextSegment + 1)'
      BY <1>11, <1>12, <3>1 DEF StoredUpTo
    <3>3. net'["flush"] # "sent"
      BY <1>2, <1>13, <2>2
    <3> QED BY <2>1, <3>2, <3>3 DEF Stored
  <2>3. CASE ~(flush.st = "running" /\ net["flush"] = "sent")
    <3>1. flush.st = "err"
      BY <1>2, <1>13, <2>1, <2>3 DEF Inv, Slots, Types, HandleTypeOK
    <3> QED BY <2>1, <3>1 DEF Stored
  <2> QED BY <2>2, <2>3
<1>14. ASSUME Healthy, c = "lastSegment" PROVE Stored'
  <2>1. handle = "lastSegment" /\ ~attached /\ net["lastSegment"] = "sent"
    BY <1>2, <1>14 DEF Inv, Slots
  <2>2. StoredUpTo(nextSegment) /\ Job(c).index = nextSegment /\ Job(c).data = plaintext
    BY <1>14, <2>1 DEF Inv, Stored, Job
  <2>3. net'["lastSegment"] # "sent"
    BY <1>2, <1>14, <2>1
  <2> QED BY <1>11, <1>12, <2>1, <2>2, <2>3 DEF Stored
<1>15. Stored'
  BY <1>7, <1>13, <1>14 DEF Stored
<1> QED BY <1>6, <1>7, <1>8, <1>9, <1>10, <1>15 DEF Inv

\* CommitObject is served: the object is published as the handle describes it.
LEMMA CommitServedInv ==
    ASSUME Inv, SatelliteServes("commitObject"), object = "pending"
    PROVE  Inv'
<1> USE DEF SatelliteServes, inner, satellite
<1>1. net \in [Callers -> NetStates] /\ "flush" \in Callers /\ "lastSegment" \in Callers
      /\ "commitObject" \in Callers
  BY DEF Inv, Types, HandleTypeOK, Callers
<1>2. /\ net' \in [Callers -> NetStates]
      /\ net'["flush"] = net["flush"] /\ net'["lastSegment"] = net["lastSegment"]
  BY <1>1 DEF NetStates
<1>3. object' = "committed" /\ published' = Meta /\ UNCHANGED segs
  BY DEF Serve
<1>4. Committing
  BY DEF Committing
<1>5. Types' /\ Poisoned' /\ Outcome'
  BY <1>2, <1>3 DEF Inv, Types, HandleTypeOK, Poisoned, Outcome
<1>6. ~Healthy'
  BY <1>4 DEF Inv, Sealed, Healthy
<1>7. Slots' /\ Accounting' /\ Stored'
  BY <1>6 DEF Slots, Accounting, Stored
<1>8. Sealed' /\ Published'
  BY <1>2, <1>3, <1>4 DEF Inv, Sealed, Complete, Published, Meta
<1> QED BY <1>5, <1>7, <1>8 DEF Inv

\* A delete is served: only a pending object is removed.
LEMMA DeleteServedInv ==
    ASSUME Inv, NEW c \in {"delete", "deleteRetry"}, SatelliteServes(c), object = "pending"
    PROVE  Inv'
<1> USE DEF SatelliteServes, inner, satellite
<1>1. net \in [Callers -> NetStates] /\ c \in Callers
  BY DEF Inv, Types, HandleTypeOK, Callers
<1>2. /\ net' \in [Callers -> NetStates]
      /\ net'["flush"] = net["flush"] /\ net'["lastSegment"] = net["lastSegment"]
      /\ net'["commitObject"] = net["commitObject"]
  BY <1>1 DEF NetStates, Callers
<1>3. object' = "deleted" /\ UNCHANGED <<segs, published>>
  BY DEF Serve, Deletable
<1>4. Types' /\ Poisoned' /\ Outcome' /\ (Healthy' <=> Healthy)
  BY <1>2, <1>3 DEF Inv, Types, HandleTypeOK, Poisoned, Outcome, Healthy
<1>5. Slots' /\ Accounting'
  BY <1>2, <1>4 DEF Inv, Slots, Accounting
<1>6. Stored'
  BY <1>2, <1>3, <1>4 DEF Inv, Stored, StoredUpTo
<1>7. Sealed' /\ Published'
  BY <1>2, <1>3 DEF Inv, Sealed, Committing, Complete, Published
<1> QED BY <1>4, <1>5, <1>6, <1>7 DEF Inv

LEMMA SatelliteServesInv ==
    ASSUME Inv, NEW c \in Callers, SatelliteServes(c)
    PROVE  Inv'
<1>1. CASE object = "pending"
  BY <1>1, SegmentServedInv, CommitServedInv, DeleteServedInv DEF Callers
<1>2. CASE object # "pending"
  <2>1. net' = [net EXCEPT ![c] = IF net[c] = "late" THEN "none" ELSE "err"]
    BY <1>2 DEF SatelliteServes, Accepts, Deletable
  <2>2. UNCHANGED satellite
    BY <1>2 DEF SatelliteServes, Serve, Deletable
  <2> QED BY <2>1, <2>2, NoEffectInv DEF SatelliteServes, inner
<1> QED BY <1>1, <1>2

\* What apply_flush makes of the counters when no flush is under way and none
\* failed: every full segment taken from the buffer is stored and counted.
LEMMA FlushApplied ==
    ASSUME Inv, Healthy, ~FlushPending, ~FlushErr
    PROVE  /\ NextAfterFlush \in Nat
           /\ TotalAfterFlush = Off(NextAfterFlush)
           /\ NextAfterFlush # 0 => LastAfterFlush = MaxSegment
           /\ LastAfterFlush \in 0..MaxSegment
           /\ accepted = Off(NextAfterFlush) + Len(plaintext)
           /\ handle # "lastSegment" => StoredUpTo(NextAfterFlush)
           /\ handle # "lastSegment" => net["flush"] = "none" /\ flush.st \in {"none", "ok"}
<1>1. nextSegment \in Nat /\ plaintext \in Seq(1..MaxBytes) /\ lastPlain \in 0..MaxSegment
      /\ Len(plaintext) \in Nat /\ MaxSegment \in Nat
  BY UploadAssumption DEF Inv, Types, HandleTypeOK
<1>2. CASE FlushOk
  <2>1. attached /\ flush.st = "ok" /\ flush.index = nextSegment
        /\ flush.data = Run(Off(nextSegment), MaxSegment)
    BY <1>2 DEF Inv, Accounting, FlushOk
  <2>2. Len(flush.data) = MaxSegment
    BY <1>1, <2>1, OffFacts, RunFacts
  <2>3. NextAfterFlush = nextSegment + 1
    BY <1>1, <1>2, <2>1 DEF NextAfterFlush, MaxOf
  <2>4. TotalAfterFlush = Off(nextSegment) + MaxSegment /\ LastAfterFlush = MaxSegment
    BY <1>2, <2>2 DEF TotalAfterFlush, LastAfterFlush, Inv, Accounting
  <2>5. Off(nextSegment + 1) = Off(nextSegment) + MaxSegment /\ Off(nextSegment) \in Nat
    BY <1>1, OffFacts
  <2>6. accepted = Off(nextSegment) + MaxSegment + Len(plaintext)
    BY <2>1 DEF Inv, Accounting
  <2>7. StoredUpTo(nextSegment + 1) /\ net["flush"] = "none"
    BY <2>1 DEF Inv, Stored, Slots
  <2> QED BY <1>1, <2>1, <2>3, <2>4, <2>5, <2>6, <2>7
<1>3. CASE ~FlushOk
  <2>1. ~attached
    BY <1>3 DEF FlushPending, FlushErr, FlushOk, Inv, Slots, Types, HandleTypeOK
  <2>2. NextAfterFlush = nextSegment /\ TotalAfterFlush = totalPlain /\ LastAfterFlush = lastPlain
    BY <1>3 DEF NextAfterFlush, TotalAfterFlush, LastAfterFlush
  <2>3. accepted = Off(nextSegment) + Len(plaintext)
    BY <1>1, <2>1, OffFacts DEF Inv, Accounting
  <2>4. handle # "lastSegment" => StoredUpTo(nextSegment)
    BY <2>1 DEF Inv, Stored
  <2> QED BY <1>1, <2>1, <2>2, <2>3, <2>4 DEF Inv, Accounting, Slots
<1> QED BY <1>2, <1>3

\* The counters stay within the bounds of what was accepted.
LEMMA CountersBounded ==
    ASSUME NEW n \in Nat, NEW l \in Nat, NEW a \in 0..MaxBytes, a = Off(n) + l
    PROVE  n \in 0..MaxBytes /\ n + 1 \in 0..(MaxBytes + 1) /\ n \in 0..(MaxBytes + 1)
           /\ Off(n) \in 0..MaxBytes
<1>1. Off(n) \in Nat /\ Off(n) >= n
  BY OffFacts
<1> QED BY <1>1, UploadAssumption

\* flush() applies the flush that has ended.
LEMMA FlushAppliesInv ==
    ASSUME Inv, handle = "open", ~innerFailed, ~FlushPending, ~FlushErr,
           ApplyFlush, attached' = FALSE,
           UNCHANGED <<handle, plaintext, innerFailed, flush, blocked, accepted, events, net, satellite>>
    PROVE  Inv'
<1> USE DEF satellite
<1> DEFINE n == NextAfterFlush
<1>1. Healthy /\ Healthy'
  BY DEF Healthy
<1>2. /\ n \in Nat
      /\ TotalAfterFlush = Off(n)
      /\ n # 0 => LastAfterFlush = MaxSegment
      /\ LastAfterFlush \in 0..MaxSegment
      /\ accepted = Off(n) + Len(plaintext)
      /\ StoredUpTo(n)
      /\ net["flush"] = "none" /\ flush.st \in {"none", "ok"}
  BY <1>1, FlushApplied
<1>3. nextSegment' = n /\ totalPlain' = TotalAfterFlush /\ lastPlain' = LastAfterFlush
  BY DEF ApplyFlush
<1> HIDE DEF n
<1>4. Len(plaintext) \in Nat /\ accepted \in 0..MaxBytes
  BY DEF Inv, Types, HandleTypeOK
<1>5. n \in 0..(MaxBytes + 1) /\ Off(n) \in 0..MaxBytes
  BY <1>2, <1>4, CountersBounded
<1>6. Types'
  BY <1>2, <1>3, <1>5 DEF Inv, Types, HandleTypeOK
<1>7. Poisoned' /\ Outcome'
  BY DEF Inv, Poisoned, Outcome
<1>8. Slots'
  BY <1>1, <1>2 DEF Inv, Slots
<1>9. Accounting'
  BY <1>1, <1>2, <1>3, <1>4, OffFacts DEF Inv, Accounting
<1>10. StoredUpTo(nextSegment)'
  BY <1>2, <1>3 DEF StoredUpTo
<1>11. Stored'
  BY <1>10 DEF Stored
<1>12. ~Committing /\ ~Committing'
  BY DEF Inv, Sealed, Committing
<1>13. Sealed' /\ Published'
  BY <1>12 DEF Sealed, Published, Committing
<1> QED BY <1>6, <1>7, <1>8, <1>9, <1>11, <1>13 DEF Inv

\* A run within the bound of the model.
LEMMA RunBounded ==
    ASSUME NEW from \in Nat, NEW n \in Nat, from + n <= MaxBytes
    PROVE  Run(from, n) \in Seq(1..MaxBytes)
<1>1. \A j \in 1..n : from + j \in 1..MaxBytes
  BY UploadAssumption
<1> QED BY <1>1 DEF Run

\* The buffer after a write: what was kept of it and the units taken, with
\* nothing between.
LEMMA BufferAfterWrite ==
    ASSUME Inv, Healthy, NEW n \in 1..MaxWrite, WriteAccepts(n)
    PROVE  \E k \in Nat, t \in Nat :
              /\ k = IF Len(plaintext) >= MaxSegment THEN 0 ELSE Len(plaintext)
              /\ accepted' = accepted + t /\ accepted - k \in Nat
              /\ accepted' \in 0..MaxBytes
              /\ k + t <= MaxSegment
              /\ plaintext' = Run(accepted - k, k + t)
              /\ Len(plaintext') = k + t
              /\ accepted' - Len(plaintext') = accepted - k
              /\ plaintext' \in Seq(1..MaxBytes)
<1> DEFINE full == Len(plaintext) >= MaxSegment
           kept == IF full THEN <<>> ELSE plaintext
           k == IF full THEN 0 ELSE Len(plaintext)
           t == IF n <= MaxSegment - Len(kept) THEN n ELSE MaxSegment - Len(kept)
<1>1. plaintext \in Seq(1..MaxBytes) /\ Len(plaintext) \in Nat /\ Len(plaintext) <= MaxSegment
      /\ accepted \in Nat /\ nextSegment \in Nat /\ MaxSegment \in Nat \ {0} /\ MaxBytes \in Nat
      /\ MaxWrite \in Nat
  BY UploadAssumption DEF Inv, Types, HandleTypeOK
<1>2. accepted >= Len(plaintext) /\ plaintext = Run(accepted - Len(plaintext), Len(plaintext))
  <2>1. Off(nextSegment) \in Nat
    BY <1>1, OffFacts
  <2>2. accepted = Off(nextSegment) + (IF attached THEN MaxSegment ELSE 0) + Len(plaintext)
    BY DEF Inv, Accounting
  <2> QED BY <1>1, <2>1, <2>2 DEF Inv, Accounting
<1>3. k \in Nat /\ Len(kept) = k /\ accepted - k \in Nat /\ k <= MaxSegment
  BY <1>1, <1>2
<1>4. kept = Run(accepted - k, k)
  <2>1. Run(accepted, 0) = <<>>
    BY DEF Run
  <2> QED BY <1>1, <1>2, <2>1
<1>5. plaintext' = kept \o NextUnits(t) /\ accepted' = accepted + t /\ accepted + t <= MaxBytes
  BY DEF WriteAccepts
<1> HIDE DEF full, kept, k
<1>6. t \in Nat /\ k + t <= MaxSegment
  BY <1>1, <1>3
<1> HIDE DEF t
<1>7. NextUnits(t) = Run((accepted - k) + k, t)
  <2>1. (accepted - k) + k = accepted
    BY <1>1, <1>3
  <2> QED BY <2>1 DEF NextUnits, Run
<1>8. plaintext' = Run(accepted - k, k + t)
  <2> DEFINE f == accepted - k
  <2>1. f \in Nat
    BY <1>3
  <2> HIDE DEF f
  <2>2. Run(f, k) \o Run(f + k, t) = Run(f, k + t)
    BY <1>3, <1>6, <2>1, RunJoins
  <2> QED BY <1>4, <1>5, <1>7, <2>2 DEF f
<1>9. k + t \in Nat /\ (accepted - k) + (k + t) = accepted + t
  BY <1>1, <1>3, <1>6
<1>10. plaintext' \in Seq(1..MaxBytes)
  BY <1>3, <1>5, <1>8, <1>9, RunBounded
<1>11. Len(plaintext') = k + t
  BY <1>3, <1>8, <1>9, RunFacts
<1>12. accepted' \in 0..MaxBytes /\ accepted' - (k + t) = accepted - k
  BY <1>1, <1>3, <1>5, <1>6
<1>13. k = IF Len(plaintext) >= MaxSegment THEN 0 ELSE Len(plaintext)
  BY DEF full, k
<1> QED BY <1>3, <1>5, <1>6, <1>8, <1>10, <1>11, <1>12, <1>13

\* poll_write_inner accepts: a full buffer becomes the job of a new flush task,
\* and the units that do not fit are left to the caller.
LEMMA WriteAcceptsInv ==
    ASSUME Inv, handle = "open", NEW n \in 1..MaxWrite, WriteAccepts(n)
    PROVE  Inv'
<1> USE DEF satellite
<1> DEFINE full == Len(plaintext) >= MaxSegment
<1>1. Healthy /\ Healthy' /\ handle' = "open" /\ ~FlushErr
  BY DEF Healthy, WriteAccepts
<1>2. PICK k \in Nat, t \in Nat :
      /\ k = IF full THEN 0 ELSE Len(plaintext)
      /\ accepted' = accepted + t /\ accepted - k \in Nat
      /\ accepted' \in 0..MaxBytes
      /\ k + t <= MaxSegment
      /\ plaintext' = Run(accepted - k, k + t)
      /\ Len(plaintext') = k + t
      /\ accepted' - Len(plaintext') = accepted - k
      /\ plaintext' \in Seq(1..MaxBytes)
  BY <1>1, BufferAfterWrite
<1>3. /\ nextSegment' = NextAfterFlush /\ totalPlain' = TotalAfterFlush /\ lastPlain' = LastAfterFlush
      /\ UNCHANGED <<handle, innerFailed, blocked, events, satellite>>
  BY DEF WriteAccepts, ApplyFlush
<1>4. nextSegment \in Nat /\ accepted \in Nat /\ Len(plaintext) \in Nat /\ MaxSegment \in Nat \ {0}
      /\ Len(plaintext) <= MaxSegment /\ plaintext \in Seq(1..MaxBytes)
      /\ net \in [Callers -> NetStates] /\ "flush" \in Callers
      /\ "lastSegment" \in Callers /\ "commitObject" \in Callers
      /\ Off(nextSegment) \in Nat /\ MaxBytes \in Nat
  <2>1. nextSegment \in Nat /\ MaxBytes \in Nat
    BY UploadAssumption DEF Inv, Types, HandleTypeOK
  <2>2. Off(nextSegment) \in Nat
    BY <2>1, OffFacts
  <2> QED BY <2>1, <2>2, UploadAssumption DEF Inv, Types, HandleTypeOK, Callers
<1>5. accepted' = accepted + t /\ Len(plaintext') = k + t
  BY <1>2
<1>6. /\ net' \in [Callers -> NetStates]
      /\ net'["lastSegment"] = net["lastSegment"] /\ net'["commitObject"] = net["commitObject"]
  BY <1>4 DEF WriteAccepts, Send, NetStates
<1>7. plaintext' = Run(accepted' - Len(plaintext'), Len(plaintext'))
  BY <1>2
<1>8. Poisoned' /\ Outcome'
  BY <1>3 DEF Inv, Poisoned, Outcome, WriteAccepts
<1>9. ~Committing /\ ~Committing'
  BY <1>3, <1>6 DEF Inv, Sealed, Committing
<1>10. Sealed' /\ Published'
  BY <1>9 DEF Sealed, Published, Committing
<1>11. net["lastSegment"] = "none"
  BY <1>1 DEF Inv, Slots
<1>12. ASSUME full PROVE Types' /\ Slots' /\ Accounting' /\ Stored'
  <2>1. ~FlushPending /\ Len(plaintext) = MaxSegment /\ k = 0
    BY <1>2, <1>4, <1>12 DEF WriteAccepts
  <2>2. /\ NextAfterFlush \in Nat
        /\ TotalAfterFlush = Off(NextAfterFlush)
        /\ NextAfterFlush # 0 => LastAfterFlush = MaxSegment
        /\ LastAfterFlush \in 0..MaxSegment
        /\ accepted = Off(NextAfterFlush) + Len(plaintext)
        /\ StoredUpTo(NextAfterFlush)
    BY <1>1, <2>1, FlushApplied
  <2>3. /\ flush' = [st |-> "running", abort |-> FALSE, index |-> nextSegment', data |-> plaintext]
        /\ attached' = TRUE
        /\ net'["flush"] = "sent"
    BY <1>3, <1>4, <1>12 DEF WriteAccepts, Send
  <2>4. /\ nextSegment' \in 0..(MaxBytes + 1) /\ nextSegment' \in Nat
        /\ totalPlain' \in 0..MaxBytes /\ totalPlain' = Off(nextSegment')
        /\ Off(nextSegment') \in Nat
    <3>1. accepted \in 0..MaxBytes
      BY DEF Inv, Types, HandleTypeOK
    <3> QED BY <1>3, <1>4, <2>2, <3>1, CountersBounded
  <2>5. plaintext = Run(Off(nextSegment'), MaxSegment)
    <3>1. plaintext = Run(accepted - Len(plaintext), Len(plaintext))
      BY <1>1 DEF Inv, Accounting
    <3>2. accepted - Len(plaintext) = Off(nextSegment')
      BY <1>3, <1>4, <2>2, <2>4
    <3> QED BY <2>1, <3>1, <3>2
  <2>6. plaintext \in Seq(Nat)
    BY <1>4
  <2>7. Types'
    <3>1. flush' \in [st : {"none", "running", "ok", "err"}, abort : BOOLEAN, index : Nat, data : Seq(Nat)]
      BY <2>3, <2>4, <2>6
    <3>2. lastPlain' \in 0..MaxSegment
      BY <1>3, <2>2
    <3> QED BY <1>2, <1>3, <1>6, <2>3, <2>4, <3>1, <3>2 DEF Inv, Types, HandleTypeOK
  <2>8. Slots'
    BY <1>1, <1>6, <1>11, <2>3 DEF Slots
  <2>9. accepted' = Off(nextSegment') + MaxSegment + Len(plaintext')
    <3>1. accepted' = accepted + t /\ Len(plaintext') = t
      BY <1>5, <2>1
    <3> QED BY <1>3, <1>4, <1>5, <2>1, <2>2, <2>4, <3>1
  <2>10. Accounting'
    <3>1. nextSegment' # 0 => lastPlain' = MaxSegment
      BY <1>3, <2>2
    <3>2. flush'.index = nextSegment' /\ flush'.data = plaintext
      BY <2>3
    <3> QED BY <1>7, <2>3, <2>4, <2>5, <2>9, <3>1, <3>2 DEF Accounting
  <2>11. StoredUpTo(nextSegment)'
    BY <1>3, <2>2 DEF StoredUpTo
  <2>12. Stored'
    BY <1>1, <2>3, <2>11 DEF Stored
  <2> QED BY <2>7, <2>8, <2>10, <2>12
<1>13. ASSUME ~full PROVE Types' /\ Slots' /\ Accounting' /\ Stored'
  <2>1. k = Len(plaintext) /\ attached' = FlushPending /\ UNCHANGED <<flush, net>>
    BY <1>2, <1>13 DEF WriteAccepts
  <2>2. accepted' = accepted + t /\ Len(plaintext') = Len(plaintext) + t
    BY <1>5, <2>1
  <2>3. CASE FlushPending
    <3>1. attached /\ attached' = TRUE /\ flush.st = "running" /\ UNCHANGED <<nextSegment, totalPlain, lastPlain>>
      BY <1>3, <2>1, <2>3 DEF FlushPending, NextAfterFlush, TotalAfterFlush, LastAfterFlush, FlushOk
    <3>2. Types'
      BY <1>2, <1>3, <2>1, <2>2, <3>1 DEF Inv, Types, HandleTypeOK
    <3>3. Slots'
      BY <1>1, <2>1, <3>1 DEF Inv, Slots
    <3>4. accepted' = Off(nextSegment) + MaxSegment + Len(plaintext')
      <4>1. accepted = Off(nextSegment) + MaxSegment + Len(plaintext)
        BY <1>1, <3>1 DEF Inv, Accounting
      <4>2. Off(nextSegment) \in Nat /\ MaxSegment \in Nat /\ Len(plaintext) \in Nat /\ t \in Nat
        BY <1>4
      <4> QED BY ONLY <2>2, <4>1, <4>2
    <3>5. Accounting'
      BY <1>1, <1>7, <2>1, <3>1, <3>4 DEF Inv, Accounting
    <3>6. Stored'
      BY <1>1, <1>3, <2>1, <3>1 DEF Inv, Stored, StoredUpTo
    <3> QED BY <3>2, <3>3, <3>5, <3>6
  <2>4. CASE ~FlushPending
    <3>1. /\ NextAfterFlush \in Nat
          /\ TotalAfterFlush = Off(NextAfterFlush)
          /\ NextAfterFlush # 0 => LastAfterFlush = MaxSegment
          /\ LastAfterFlush \in 0..MaxSegment
          /\ accepted = Off(NextAfterFlush) + Len(plaintext)
          /\ StoredUpTo(NextAfterFlush)
          /\ net["flush"] = "none" /\ flush.st \in {"none", "ok"}
      BY <1>1, <2>4, FlushApplied
    <3>2. attached' = FALSE
      BY <2>1, <2>4
    <3>3. /\ nextSegment' \in 0..(MaxBytes + 1) /\ nextSegment' \in Nat
          /\ totalPlain' \in 0..MaxBytes /\ totalPlain' = Off(nextSegment')
          /\ Off(nextSegment') \in Nat
      <4>1. accepted \in 0..MaxBytes
        BY DEF Inv, Types, HandleTypeOK
      <4> QED BY <1>3, <1>4, <3>1, <4>1, CountersBounded
    <3>4. lastPlain' \in 0..MaxSegment /\ (nextSegment' # 0 => lastPlain' = MaxSegment)
      BY <1>3, <3>1
    <3>5. Types'
      BY <1>2, <1>3, <2>1, <2>2, <3>2, <3>3, <3>4 DEF Inv, Types, HandleTypeOK
    <3>6. Slots'
      BY <1>1, <2>1, <3>1, <3>2 DEF Inv, Slots
    <3>7. accepted' = Off(nextSegment') + Len(plaintext')
      <4>1. Off(nextSegment') \in Nat /\ Len(plaintext) \in Nat /\ t \in Nat
        BY <1>4, <3>3
      <4>2. accepted = Off(nextSegment') + Len(plaintext)
        BY <1>3, <3>1
      <4> QED BY ONLY <2>2, <4>1, <4>2
    <3>8. Accounting'
      <4>1. accepted' = Off(nextSegment') + 0 + Len(plaintext')
        BY <1>2, <3>3, <3>7
      <4> QED BY <1>7, <3>2, <3>3, <3>4, <4>1 DEF Accounting
    <3>9. StoredUpTo(nextSegment)'
      BY <1>3, <3>1 DEF StoredUpTo
    <3>10. Stored'
      BY <1>1, <3>2, <3>9 DEF Stored
    <3> QED BY <3>5, <3>6, <3>8, <3>10
  <2> QED BY <2>3, <2>4
<1> QED BY <1>8, <1>10, <1>12, <1>13 DEF Inv

\* With all full segments stored and nothing left in the buffer, the stream is
\* complete.
LEMMA StoredComplete ==
    ASSUME NEW n \in Nat \ {0}, StoredUpTo(n), accepted = Off(n)
    PROVE  Complete(n) /\ Len(segs[n - 1]) = MaxSegment
<1>1. MaxSegment \in Nat
  BY UploadAssumption
<1>2. \A i \in 0..(n - 1) : Off(i) \in Nat /\ segs[i] = Run(Off(i), MaxSegment)
  <2>1. \A i \in 0..(n - 1) : i \in Nat
    OBVIOUS
  <2>2. \A i \in 0..(n - 1) : segs[i] = Run(Off(i), MaxSegment)
    BY DEF StoredUpTo
  <2> QED BY <2>1, <2>2, OffFacts
<1>3. ASSUME NEW i \in 0..(n - 1)
      PROVE  Len(segs[i]) = MaxSegment
  <2>1. Off(i) \in Nat /\ segs[i] = Run(Off(i), MaxSegment)
    BY <1>2
  <2> QED BY <1>1, <2>1, RunFacts
<1>4. n - 1 \in Nat /\ n - 1 \in 0..(n - 1) /\ (n - 1) + 1 = n
  OBVIOUS
<1>5. Off(n) = Off(n - 1) + MaxSegment
  BY <1>4, OffFacts
<1>6. \A i \in 0..(n - 1) : segs[i] = [j \in 1..Len(segs[i]) |-> i * MaxSegment + j]
  BY <1>2, <1>3 DEF Run, Off
<1>7. (n - 1) * MaxSegment + Len(segs[n - 1]) = accepted
  BY <1>3, <1>4, <1>5 DEF Off
<1> QED BY <1>3, <1>4, <1>6, <1>7 DEF Complete, StoredUpTo

\* The last segment has been stored behind the full ones: the stream is
\* complete.
LEMMA LastStoredComplete ==
    ASSUME NEW n \in Nat, NEW l \in Nat,
           DOMAIN segs = 0..n,
           \A i \in 0..(n - 1) : segs[i] = Run(Off(i), MaxSegment),
           segs[n] = Run(Off(n), l), accepted = Off(n) + l
    PROVE  Complete(n + 1) /\ Len(segs[(n + 1) - 1]) = l
<1>1. MaxSegment \in Nat /\ (n + 1) - 1 = n
  BY UploadAssumption
<1>2. \A i \in 0..n : Off(i) \in Nat
  <2>1. \A i \in 0..n : i \in Nat
    OBVIOUS
  <2> QED BY <2>1, OffFacts
<1>3. ASSUME NEW i \in 0..(n - 1)
      PROVE  Len(segs[i]) = MaxSegment
  <2>1. Off(i) \in Nat /\ segs[i] = Run(Off(i), MaxSegment)
    BY <1>2
  <2> QED BY <1>1, <2>1, RunFacts
<1>4. Len(segs[n]) = l
  BY <1>2, RunFacts
<1>5. \A i \in 0..(n - 1) : segs[i] = [j \in 1..Len(segs[i]) |-> i * MaxSegment + j]
  BY <1>3 DEF Run, Off
<1>6. segs[n] = [j \in 1..Len(segs[n]) |-> n * MaxSegment + j]
  BY <1>4 DEF Run, Off
<1>7. n * MaxSegment + Len(segs[n]) = accepted
  BY <1>4 DEF Off
<1>8. \A i \in 0..n : i = n \/ (i \in 0..(n - 1) /\ i < n)
  OBVIOUS
<1>9. ASSUME NEW i \in 0..n
      PROVE  /\ segs[i] = [j \in 1..Len(segs[i]) |-> i * MaxSegment + j]
             /\ i < n => Len(segs[i]) = MaxSegment
  <2>1. CASE i = n
    BY <1>6, <2>1
  <2>2. CASE i \in 0..(n - 1)
    BY <1>3, <1>5, <2>2
  <2> QED BY <1>8, <2>1, <2>2
<1> QED BY <1>1, <1>4, <1>7, <1>9 DEF Complete

\* commit_upload proceeds past its flush: the last segment or CommitObject is
\* sent, with every full segment stored.
LEMMA CommitProceedsInv ==
    ASSUME Inv, Healthy, handle # "lastSegment", ~FlushPending, ~FlushErr,
           ApplyFlush, attached' = FALSE, blocked' \in BOOLEAN,
           IF LastSegmentNeeded(plaintext, NextAfterFlush)
             THEN handle' = "lastSegment" /\ Send("lastSegment")
             ELSE handle' = "commitObject" /\ Send("commitObject"),
           UNCHANGED <<plaintext, innerFailed, flush, accepted, events, satellite>>
    PROVE  Inv'
<1> USE DEF satellite
<1>1. /\ NextAfterFlush \in Nat
      /\ TotalAfterFlush = Off(NextAfterFlush)
      /\ NextAfterFlush # 0 => LastAfterFlush = MaxSegment
      /\ LastAfterFlush \in 0..MaxSegment
      /\ accepted = Off(NextAfterFlush) + Len(plaintext)
      /\ StoredUpTo(NextAfterFlush)
      /\ net["flush"] = "none" /\ flush.st \in {"none", "ok"}
  BY FlushApplied
<1>2. nextSegment' = NextAfterFlush /\ totalPlain' = TotalAfterFlush /\ lastPlain' = LastAfterFlush
  BY DEF ApplyFlush
<1>3. Len(plaintext) \in Nat /\ accepted \in 0..MaxBytes /\ plaintext \in Seq(1..MaxBytes)
      /\ net \in [Callers -> NetStates] /\ "flush" \in Callers
      /\ "lastSegment" \in Callers /\ "commitObject" \in Callers
  BY DEF Inv, Types, HandleTypeOK, Callers
<1>4. /\ nextSegment' \in 0..(MaxBytes + 1) /\ nextSegment' \in Nat
      /\ totalPlain' \in 0..MaxBytes /\ Off(nextSegment') \in Nat
  BY <1>1, <1>2, <1>3, CountersBounded, OffFacts
<1>5. /\ net' \in [Callers -> NetStates] /\ net'["flush"] = "none"
      /\ handle' = "lastSegment" => net'["lastSegment"] = "sent" /\ net'["commitObject"] = net["commitObject"]
      /\ handle' = "commitObject" => net'["lastSegment"] = net["lastSegment"] /\ net'["commitObject"] = "sent"
      /\ handle' \in {"lastSegment", "commitObject"}
  BY <1>1, <1>3 DEF Send, NetStates
<1>6. ~Committing /\ net["commitObject"] = "none" /\ object # "committed" /\ ~innerFailed
  BY DEF Inv, Sealed, Committing, Healthy
<1>7. Types'
  BY <1>1, <1>2, <1>4, <1>5 DEF Inv, Types, HandleTypeOK, HandleStates, Awaits
<1>8. Poisoned' /\ Published' /\ Outcome'
  BY <1>5, <1>6 DEF Inv, Poisoned, Published, Outcome
<1>9. CASE handle' = "lastSegment"
  <2>1. ~Committing' /\ Sealed'
    BY <1>5, <1>6, <1>9 DEF Committing, Sealed
  <2>2. Slots'
    BY <1>1, <1>5, <1>9 DEF Inv, Slots
  <2>3. accepted' = Off(nextSegment') + 0 + Len(plaintext')
    BY <1>1, <1>2, <1>4
  <2>4. Accounting'
    BY <1>1, <1>2, <2>3 DEF Inv, Accounting
  <2>5. StoredUpTo(nextSegment)'
    BY <1>1, <1>2 DEF StoredUpTo
  <2>6. Stored'
    BY <1>5, <1>9, <2>5 DEF Stored
  <2> QED BY <1>7, <1>8, <2>1, <2>2, <2>4, <2>6 DEF Inv
<1>10. CASE handle' = "commitObject"
  <2>1. ~Healthy' /\ Slots' /\ Accounting' /\ Stored'
    BY <1>10 DEF Healthy, Slots, Accounting, Stored
  <2>2. plaintext = <<>> /\ NextAfterFlush # 0
    BY <1>10 DEF LastSegmentNeeded
  <2>3. accepted = Off(NextAfterFlush)
    BY <1>1, <1>2, <1>4, <2>2
  <2>4. Complete(NextAfterFlush) /\ Len(segs[NextAfterFlush - 1]) = MaxSegment
    BY <1>1, <2>2, <2>3, StoredComplete
  <2>5. Complete(nextSegment)' /\ Len(segs'[nextSegment' - 1]) = MaxSegment
    BY <1>2, <2>4 DEF Complete
  <2>6. net["lastSegment"] = "none"
    BY DEF Inv, Slots
  <2>7. Sealed'
    BY <1>1, <1>2, <1>5, <1>6, <1>10, <2>2, <2>3, <2>5, <2>6 DEF Sealed
  <2> QED BY <1>7, <1>8, <2>1, <2>7 DEF Inv
<1> QED BY <1>5, <1>9, <1>10

\* commit_upload begins: it fails, waits for the flush, or proceeds.
LEMMA CommitInv ==
    ASSUME Inv, Commit
    PROVE  Inv'
<1> USE DEF Commit, inner
<1>1. blocked' \in BOOLEAN
  OBVIOUS
<1>2. net \in [Callers -> NetStates] /\ innerFailed \in BOOLEAN /\ attached \in BOOLEAN
  BY DEF Inv, Types, HandleTypeOK
<1>3. CASE innerFailed
  <2>1. ~Committing /\ net["commitObject"] = "none"
    BY DEF Inv, Sealed, Committing
  <2>2. net' = [net EXCEPT !["delete"] = "sent"] /\ handle' = "failedDelete"
    BY <1>3 DEF CommitChecksFailed, Send
  <2>3. net' \in [Callers -> NetStates] /\ net'["commitObject"] = "none"
    BY <1>2, <2>1, <2>2 DEF Callers, NetStates
  <2> QED BY <2>1, <2>2, <2>3, LeaveInv
<1>4. CASE ~innerFailed /\ attached
  <2>1. handle' = "flushWait" /\ net' = net
    BY <1>4 DEF CommitChecksFailed
  <2> USE DEF satellite
  <2>2. Healthy /\ Healthy'
    BY <1>4, <2>1 DEF Healthy
  <2>3. Types' /\ Poisoned' /\ Outcome'
    BY <1>4, <2>1 DEF Inv, Types, HandleTypeOK, HandleStates, Awaits, Poisoned, Outcome
  <2>4. Slots'
    BY <2>1, <2>2 DEF Inv, Slots
  <2>5. Accounting'
    BY <2>2 DEF Inv, Accounting
  <2>6. Stored'
    BY <1>4, <2>1, <2>2 DEF Inv, Stored, StoredUpTo
  <2>7. Sealed' /\ Published'
    BY <2>1 DEF Inv, Sealed, Published, Committing
  <2> QED BY <2>3, <2>4, <2>5, <2>6, <2>7 DEF Inv
<1>5. CASE ~innerFailed /\ ~attached
  <2>1. Healthy /\ ~FlushPending /\ ~FlushErr /\ ~FlushOk
    BY <1>5 DEF Healthy, FlushPending, FlushErr, FlushOk
  <2>2. ApplyFlush /\ attached' = FALSE
    BY <1>2, <1>5, <2>1 DEF ApplyFlush, NextAfterFlush, TotalAfterFlush, LastAfterFlush
  <2>3. IF LastSegmentNeeded(plaintext, NextAfterFlush)
        THEN handle' = "lastSegment" /\ Send("lastSegment")
        ELSE handle' = "commitObject" /\ Send("commitObject")
    BY <1>5, <2>1 DEF CommitChecksFailed, NextAfterFlush
  <2> QED BY <1>1, <2>1, <2>2, <2>3, CommitProceedsInv
<1> QED BY <1>3, <1>4, <1>5

\* commit_upload has its flush's result.
LEMMA CommitJoinsFlushInv ==
    ASSUME Inv, CommitJoinsFlush
    PROVE  Inv'
<1>1. CASE FlushOk /\ ApplyFlush
  <2>1. Healthy /\ ~FlushPending /\ ~FlushErr /\ handle = "flushWait"
    BY <1>1 DEF Inv, Poisoned, Healthy, FlushOk, FlushPending, FlushErr, CommitJoinsFlush
  <2>2. blocked' \in BOOLEAN /\ attached' = FALSE
    BY <1>1, <2>1 DEF CommitJoinsFlush, Inv, Types, HandleTypeOK, LeaveCommit
  <2> QED BY <1>1, <2>1, <2>2, CommitProceedsInv DEF CommitJoinsFlush
<1>2. CASE LeaveCommit("Error", FALSE)
  BY <1>2, LeaveCommitInv DEF CommitJoinsFlush
<1> QED BY <1>1, <1>2 DEF CommitJoinsFlush

\* The last segment is stored: everything is, and CommitObject goes out.
LEMMA CommitStoredLastInv ==
    ASSUME Inv, CommitStoredLast
    PROVE  Inv'
<1>1. CASE LeaveCommit("Error", FALSE)
  BY <1>1, LeaveCommitInv DEF CommitStoredLast
<1>2. CASE net["lastSegment"] = "ok" /\ ~LeaveCommit("Error", FALSE)
  <2> USE DEF satellite
  <2>1. /\ handle = "lastSegment" /\ handle' = "commitObject"
        /\ nextSegment' = MaxOf(nextSegment, nextSegment + 1)
        /\ totalPlain' = totalPlain + Len(plaintext)
        /\ lastPlain' = Len(plaintext)
        /\ plaintext' = <<>>
        /\ net' = [net EXCEPT !["lastSegment"] = "none", !["commitObject"] = "sent"]
        /\ UNCHANGED <<attached, innerFailed, flush, blocked, accepted, events, satellite>>
    BY <1>2 DEF CommitStoredLast
  <2>2. Healthy /\ ~innerFailed /\ ~attached /\ net["flush"] = "none"
    BY <2>1 DEF Inv, Poisoned, Slots, Healthy
  <2>3. net \in [Callers -> NetStates] /\ nextSegment \in Nat /\ Len(plaintext) \in Nat
        /\ Len(plaintext) <= MaxSegment /\ accepted \in 0..MaxBytes /\ MaxSegment \in Nat
        /\ MaxBytes \in Nat
    BY UploadAssumption DEF Inv, Types, HandleTypeOK
  <2>4. Off(nextSegment) \in Nat
    BY <2>3, OffFacts
  <2>5. nextSegment' = nextSegment + 1
    BY <2>1, <2>3 DEF MaxOf
  <2>6. /\ net' \in [Callers -> NetStates] /\ net'["lastSegment"] = "none"
        /\ net'["flush"] = "none" /\ net'["commitObject"] = "sent"
    BY <2>1, <2>2, <2>3 DEF Callers, NetStates
  <2>7. accepted = Off(nextSegment) + Len(plaintext) /\ totalPlain = Off(nextSegment)
        /\ plaintext = Run(accepted - Len(plaintext), Len(plaintext))
    <3>1. accepted = Off(nextSegment) + 0 + Len(plaintext)
      BY <2>2 DEF Inv, Accounting
    <3>2. totalPlain = Off(nextSegment) /\ plaintext = Run(accepted - Len(plaintext), Len(plaintext))
      BY <2>2 DEF Inv, Accounting
    <3> QED BY <2>3, <2>4, <3>1, <3>2
  <2>8. plaintext = Run(Off(nextSegment), Len(plaintext))
    <3>1. accepted - Len(plaintext) = Off(nextSegment)
      BY <2>3, <2>4, <2>7
    <3> QED BY <2>7, <3>1
  <2>9. /\ DOMAIN segs = 0..nextSegment
        /\ \A i \in 0..(nextSegment - 1) : segs[i] = Run(Off(i), MaxSegment)
        /\ segs[nextSegment] = plaintext
    BY <1>2, <2>1, <2>2 DEF Inv, Stored
  <2>10. Complete(nextSegment + 1) /\ Len(segs[(nextSegment + 1) - 1]) = Len(plaintext)
    BY <2>3, <2>7, <2>8, <2>9, LastStoredComplete
  <2>11. Complete(nextSegment)' /\ Len(segs'[nextSegment' - 1]) = Len(plaintext)
    BY <2>1, <2>5, <2>10 DEF Complete
  <2>12. totalPlain' = accepted /\ nextSegment' # 0
    BY <2>1, <2>3, <2>4, <2>5, <2>7
  <2>13. nextSegment' \in 0..(MaxBytes + 1)
    BY <2>3, <2>5, <2>7, CountersBounded
  <2>14. Types'
    <3>1. plaintext' \in Seq(1..MaxBytes) /\ Len(plaintext') <= MaxSegment
      BY <2>1, <2>3
    <3>2. lastPlain' \in 0..MaxSegment /\ totalPlain' \in 0..MaxBytes
      BY <2>1, <2>3, <2>12
    <3> QED BY <2>1, <2>6, <2>13, <3>1, <3>2 DEF Inv, Types, HandleTypeOK, HandleStates, Awaits
  <2>15. Sealed'
    BY <2>1, <2>2, <2>6, <2>11, <2>12 DEF Sealed
  <2>16. Slots' /\ Accounting' /\ Stored' /\ Poisoned' /\ Outcome'
    BY <2>1, <2>2 DEF Healthy, Slots, Accounting, Stored, Inv, Poisoned, Outcome
  <2>17. object # "committed"
    BY <2>1 DEF Inv, Sealed, Committing
  <2>18. Published'
    BY <2>1, <2>6, <2>17 DEF Published
  <2> QED BY <2>14, <2>15, <2>16, <2>18 DEF Inv
<1> QED BY <1>1, <1>2 DEF CommitStoredLast

\* CommitObject is answered, or given up.
LEMMA CommitAnsweredInv ==
    ASSUME Inv, CommitAnswered
    PROVE  Inv'
<1>1. CASE LeaveCommit("Error", FALSE)
  BY <1>1, LeaveCommitInv DEF CommitAnswered
<1>2. CASE net["commitObject"] = "ok" /\ ~LeaveCommit("Error", FALSE)
  <2> USE DEF inner, satellite
  <2>1. /\ handle = "commitObject" /\ handle' = "closed"
        /\ net' = [net EXCEPT !["commitObject"] = "none"]
        /\ Finish("Success")
        /\ UNCHANGED <<inner, flush, blocked, accepted, satellite>>
    BY <1>2 DEF CommitAnswered
  <2>2. net \in [Callers -> NetStates]
    BY DEF Inv, Types, HandleTypeOK
  <2>3. /\ net' \in [Callers -> NetStates]
        /\ net'["flush"] = net["flush"] /\ net'["lastSegment"] = net["lastSegment"]
        /\ net'["commitObject"] = "none"
    BY <2>1, <2>2 DEF Callers, NetStates
  <2>4. object = "committed"
    BY <1>2 DEF Inv, Published
  <2>5. Types' /\ Poisoned' /\ Outcome'
    BY <2>1, <2>3, <2>4 DEF Inv, Types, HandleTypeOK, HandleStates, Poisoned, Outcome, Finish
  <2>6. Slots' /\ Accounting' /\ Stored'
    BY <2>1 DEF Healthy, Slots, Accounting, Stored
  <2>7. Sealed' /\ Published'
    BY <2>1, <2>3, <2>4 DEF Inv, Sealed, Committing, Complete, Published, Meta
  <2> QED BY <2>5, <2>6, <2>7 DEF Inv
<1> QED BY <1>1, <1>2 DEF CommitAnswered

-----------------------------------------------------------------------------
(* The theorems *)

\* write(), flush() and shutdown() keep the invariant.
LEMMA OwnerWritesInv ==
    ASSUME Inv, Write \/ Flush \/ Shutdown
    PROVE  Inv'
<1>1. blocked \in BOOLEAN
  BY DEF Inv, Types, HandleTypeOK
<1>2. ASSUME UNCHANGED <<core, blocked>> PROVE Inv'
  BY <1>1, <1>2, CoreUnchanged
<1>3. ASSUME UNCHANGED core, blocked' = TRUE PROVE Inv'
  BY <1>3, CoreUnchanged
<1>4. CASE Write
  <2>1. ASSUME NEW n \in 1..MaxWrite, WriteAccepts(n) PROVE Inv'
    BY <1>4, <2>1, WriteAcceptsInv DEF Write
  <2>2. CASE WriteBlocks
    BY <1>3, <2>2 DEF WriteBlocks, core
  <2>3. CASE CallFails("write")
    BY <1>4, <2>3, CallFailsInv DEF Write
  <2>4. CASE EmptyWrite
    BY <1>2, <2>4 DEF EmptyWrite, core
  <2> QED BY <1>4, <2>1, <2>2, <2>3, <2>4 DEF Write
<1>5. CASE Flush
  <2>1. CASE UNCHANGED core /\ blocked' = TRUE
    BY <1>3, <2>1
  <2>2. CASE CallFails("flush")
    BY <1>5, <2>2, CallFailsInv DEF Flush
  <2>3. CASE ~innerFailed /\ ~FlushPending /\ ~FlushErr /\ ApplyFlush /\ attached' = FALSE
             /\ UNCHANGED <<handle, plaintext, innerFailed, flush, blocked, accepted, events, net, satellite>>
    BY <1>5, <2>3, FlushAppliesInv DEF Flush
  <2> QED BY <1>5, <2>1, <2>2, <2>3 DEF Flush, core
<1>6. CASE Shutdown
  BY <1>2, <1>6 DEF Shutdown, core
<1> QED BY <1>4, <1>5, <1>6

\* Every step of the upload, of its tasks and of the satellite keeps the
\* invariant.
LEMMA NextInv == Inv /\ [HandleNext]_handleVars => Inv'
<1> SUFFICES ASSUME Inv, [HandleNext]_handleVars PROVE Inv'
  OBVIOUS
<1>1. CASE OwnerCalls
  BY <1>1, OwnerWritesInv, CommitInv, AbortInv DEF OwnerCalls
<1>2. CASE CommitRuns
  BY <1>2, CommitJoinsFlushInv, CommitStoredLastInv, CommitAnsweredInv DEF CommitRuns
<1>3. CASE CancelCommit
  BY <1>3, LeaveCommitInv DEF CancelCommit
<1>4. CASE AbortRuns \/ CancelAbort
  BY <1>4, AbortInv, AbortEndsInv DEF AbortRuns
<1>5. CASE FlushRuns
  BY <1>5, FlushRunsInv
<1>6. ASSUME NEW c \in Callers, SatelliteServes(c) \/ RequestLost(c) \/ DetachedDeleteEnds(c)
      PROVE  Inv'
  <2>1. CASE RequestLost(c)
    BY <2>1, NoEffectInv DEF RequestLost, inner
  <2> QED BY <1>6, <2>1, SatelliteServesInv, DetachedDeleteEndsInv
<1>7. CASE UNCHANGED handleVars
  <2>1. UNCHANGED core /\ blocked' = blocked
    BY <1>7 DEF handleVars, core
  <2>2. blocked \in BOOLEAN
    BY DEF Inv, Types, HandleTypeOK
  <2> QED BY <2>1, <2>2, CoreUnchanged
<1> QED BY <1>1, <1>2, <1>3, <1>4, <1>5, <1>6, <1>7 DEF HandleNext

\* Every reachable state of one upload satisfies the invariant, whatever the
\* owner calls and whatever becomes of the requests.
THEOREM InvHolds == HandleSpec => []Inv
<1>1. HandleInit => Inv
  BY InitInv
<1>2. Inv /\ [HandleNext]_handleVars => Inv'
  BY NextInv
<1> QED BY <1>1, <1>2, PTL DEF HandleSpec

\* UploadIntegrity: what an upload publishes is all of what its owner wrote, in
\* order and with the metadata that describes it; an upload with a failed flush
\* publishes nothing; and the one outcome reported is true.
THEOREM UploadIntegrityHolds == HandleSpec => []UploadIntegrity
<1>1. Inv => UploadIntegrity
  <2> SUFFICES ASSUME Inv PROVE UploadIntegrity
    OBVIOUS
  <2>1. HandleTypeOK
    BY DEF Inv, Types
  <2>2. PublishedComplete
    <3> SUFFICES ASSUME object = "committed"
                 PROVE  /\ Complete(published.segments)
                        /\ published.lastSize = Len(segs[published.segments - 1])
                        /\ totalPlain = accepted
      BY DEF PublishedComplete
    <3>1. published.segments = nextSegment /\ published.lastSize = lastPlain
      BY DEF Inv, Published, Meta
    <3> QED BY <3>1 DEF Inv, Sealed, Committing
  <2>3. PoisonNeverPublished
    BY DEF Inv, Sealed, Committing, PoisonNeverPublished
  <2>4. OneOutcome
    <3>1. Len(events) <= 1 /\ (events # <<>> => Len(events) = 1)
      <4>1. CASE events = <<>>
        BY <4>1
      <4>2. CASE events # <<>>
        <5>1. PICK o \in {"Success", "Error", "Cancelled"} : events = <<o>>
          BY <4>2 DEF Inv, Outcome
        <5> QED BY <5>1
      <4> QED BY <4>1, <4>2
    <3> QED BY <3>1 DEF Inv, Outcome, OneOutcome
  <2> QED BY <2>1, <2>2, <2>3, <2>4 DEF UploadIntegrity
<1> QED BY <1>1, InvHolds, PTL

\* CommittedStays: no delete that is under way, retried or spawned by a guard
\* takes back an object that was committed.
THEOREM CommittedStaysHolds == HandleSpec => CommittedStays
<1>1. [HandleNext]_handleVars => (object = "committed" => object' = "committed")
  <2> SUFFICES ASSUME [HandleNext]_handleVars, object = "committed" PROVE object' = "committed"
    OBVIOUS
  <2> USE DEF satellite
  <2>1. ASSUME NEW c \in Callers, SatelliteServes(c) PROVE object' = object
    BY <2>1 DEF SatelliteServes, Serve, Deletable
  <2>2. CASE OwnerCalls
    BY <2>2 DEF OwnerCalls, Write, WriteAccepts, WriteBlocks, CallFails, Poison, EmptyWrite,
                Flush, Shutdown, Commit, Abort, Drop
  <2>3. CASE CommitRuns \/ CancelCommit
    BY <2>3 DEF CommitRuns, CommitJoinsFlush, CommitStoredLast, CommitAnswered, CancelCommit, LeaveCommit
  <2>4. CASE AbortRuns \/ CancelAbort \/ FlushRuns
    BY <2>4 DEF AbortRuns, AbortJoins, AbortAnswered, CancelAbort, FlushRuns, FlushEnds,
                FlushTimesOut, FlushAborted
  <2>5. ASSUME NEW c \in Callers, RequestLost(c) \/ DetachedDeleteEnds(c) PROVE object' = object
    BY <2>5 DEF RequestLost, DetachedDeleteEnds
  <2>6. CASE UNCHANGED handleVars
    BY <2>6 DEF handleVars
  <2> QED BY <2>1, <2>2, <2>3, <2>4, <2>5, <2>6 DEF HandleNext
<1> QED BY <1>1, PTL DEF HandleSpec, CommittedStays
=============================================================================
