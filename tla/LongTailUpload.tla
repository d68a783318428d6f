--------------------------- MODULE LongTailUpload ---------------------------
(***************************************************************************)
(* Upload of one segment's pieces: rounds of concurrent piece uploads, the *)
(* long-tail cancellation once the placement requirement is met, and the   *)
(* replacement of failed pieces' order limits between rounds               *)
(* (storj-uplink/src/segment.rs, upload_pieces_long_tail, upload_round).   *)
(*                                                                         *)
(* An order limit is the piece it is for and the segment id (a generation) *)
(* that introduced it: a new limit means another storage node, with its    *)
(* own placement tags.  The satellite (external) keeps, for its latest     *)
(* segment id, the limits it will accept results for in CommitSegment.     *)
(***************************************************************************)
EXTENDS Naturals, FiniteSets

CONSTANTS Pieces,       \* piece numbers of the segment
          MaxAttempts,  \* rounds the loop may run (4 in the code)
          Verdicts(_)   \* verdicts requirements_met may return for a set of limits

ASSUME LongTailUploadAssumption ==
    /\ MaxAttempts \in Nat \ {0}
    /\ Pieces \subseteq Nat
    /\ IsFiniteSet(Pieces)

VARIABLES
    phase,      \* where the function is: loop head, an await, or its outcome
    attempts,   \* attempts
    segmentId,  \* job.segment_id
    asg,        \* job.assignments, by piece: its limit, or NoLimit when removed
    task,       \* the round's JoinSet: state of each piece's task
    successes,  \* results of the earlier rounds
    roundOk,    \* results of this round
    failed,     \* failed_nums of this round
    sat,        \* satellite: latest segment id and its limits, by piece
    cause,      \* why the function failed
    met,        \* history: requirements_met has answered TRUE
    stored      \* history: limits whose task finished Ok before the JoinSet was given up

job == <<segmentId, asg>>
round == <<task, roundOk, failed>>
vars == <<phase, attempts, job, round, successes, sat, cause, met, stored>>

Limit == [piece : Pieces, id : 0..MaxAttempts]
NoLimit == [piece |-> "none"]

Outcomes == {"ok", "err", "panic"}
Done == {"committable", "error"}

TypeOK ==
    /\ phase \in {"head", "round", "drain", "retry"} \cup Done
    /\ attempts \in 0..MaxAttempts
    /\ segmentId \in 0..MaxAttempts
    /\ asg \in [Pieces -> Limit \cup {NoLimit}]
    /\ task \in [Pieces -> {"none", "running"} \cup Outcomes]
    /\ successes \in SUBSET Limit
    /\ roundOk \in SUBSET Limit
    /\ failed \in SUBSET Pieces
    /\ sat \in [id : 0..MaxAttempts, limits : [Pieces -> Limit \cup {NoLimit}]]
    /\ cause \in {"none", "join", "rpc", "limit", "threshold"}
    /\ met \in BOOLEAN
    /\ stored \in SUBSET Limit

Numbers(S) == {l.piece : l \in S}

\* success_tags looks each result's piece up in the assignments: what decides
\* are the assignments of the successful pieces, not the limits used.
Tagged(S) == {asg[p] : p \in Numbers(S)} \ {NoLimit}

Init ==
    /\ phase = "head"
    /\ attempts = 0
    /\ segmentId = 0
    /\ asg = [p \in Pieces |-> [piece |-> p, id |-> 0]]
    /\ task = [p \in Pieces |-> "none"]
    /\ successes = {}
    /\ roundOk = {}
    /\ failed = {}
    /\ sat = [id |-> 0, limits |-> asg]
    /\ cause = "none"
    /\ met = FALSE
    /\ stored = {}

-----------------------------------------------------------------------------
(* The retry loop *)

\* Assignments whose piece has no result yet.
Pending == {p \in Pieces : asg[p] # NoLimit /\ p \notin Numbers(successes)}

Fail(why) ==
    /\ phase' = "error"
    /\ cause' = why

\* Leaving the loop: the last requirements_met decides the outcome.  S are the
\* results; sorted and without duplicates they are what CommitSegment gets.
Leave(S) ==
    \E v \in Verdicts(Tagged(S)) :
        /\ met' = IF v THEN TRUE ELSE met
        /\ IF v THEN phase' = "committable" /\ UNCHANGED cause ELSE Fail("threshold")

\* The loop head lets a round start: its tasks are spawned.
StartRound ==
    /\ phase = "head"
    /\ FALSE \in Verdicts(Tagged(successes))
    /\ attempts < MaxAttempts
    /\ Pending # {}
    /\ attempts' = attempts + 1
    /\ phase' = "round"
    /\ task' = [p \in Pieces |-> IF p \in Pending THEN "running" ELSE "none"]
    /\ roundOk' = {}
    /\ failed' = {}
    /\ UNCHANGED <<job, successes, sat, cause, met, stored>>

\* The loop ends at its head: requirements met, attempts used up or nothing
\* pending.
LeaveAtHead ==
    /\ phase = "head"
    /\ \E v \in Verdicts(Tagged(successes)) :
          /\ v \/ attempts = MaxAttempts \/ Pending = {}
          /\ attempts' = IF ~v /\ attempts < MaxAttempts THEN attempts + 1 ELSE attempts
    /\ Leave(successes)
    /\ UNCHANGED <<job, round, successes, sat, stored>>

-----------------------------------------------------------------------------
(* One round *)

\* The piece upload of p ends: stored by the node, failed, or panicked.
TaskEnds(p) ==
    /\ phase \in {"round", "drain"}
    /\ task[p] = "running"
    /\ \E out \in Outcomes :
          /\ task' = [task EXCEPT ![p] = out]
          /\ stored' = IF out = "ok" THEN stored \cup {asg[p]} ELSE stored
    /\ UNCHANGED <<phase, attempts, job, roundOk, failed, successes, sat, cause, met>>

\* Mutant: a failed task stays in the set.
JoinedKeepsFailed(p) == task' = IF task[p] = "err" THEN task ELSE [task EXCEPT ![p] = "none"]

\* join_next returns the result of p and p leaves the set.
Joined(p) == task' = [task EXCEPT ![p] = "none"]

\* A result: with the earlier ones it meets the requirements (the others are
\* aborted and the set is drained) or not.
JoinOk(p) ==
    /\ phase = "round"
    /\ task[p] = "ok"
    /\ Joined(p)
    /\ roundOk' = roundOk \cup {asg[p]}
    /\ \E v \in Verdicts(Tagged(successes \cup roundOk')) :
          /\ met' = IF v THEN TRUE ELSE met
          /\ phase' = IF v THEN "drain" ELSE "round"
    /\ UNCHANGED <<attempts, job, failed, successes, sat, cause, stored>>

JoinErr(p) ==
    /\ phase = "round"
    /\ task[p] = "err"
    /\ Joined(p)
    /\ failed' = failed \cup {p}
    /\ UNCHANGED <<phase, attempts, job, roundOk, successes, sat, cause, met, stored>>

\* A panicked task ends the whole upload; the set is dropped with it.
JoinPanic(p) ==
    /\ phase = "round"
    /\ task[p] = "panic"
    /\ task' = [q \in Pieces |-> "none"]
    /\ Fail("join")
    /\ UNCHANGED <<attempts, job, roundOk, failed, successes, sat, met, stored>>

\* After abort_all: results of tasks that had finished are kept.
DrainKeeps(p) == IF task[p] = "ok" THEN roundOk \cup {asg[p]} ELSE roundOk

\* A task still running when it is drained was cancelled by abort_all (it may
\* instead have ended on its own before the abort reached it: TaskEnds).
Drain(p) ==
    /\ phase = "drain"
    /\ task[p] # "none"
    /\ Joined(p)
    /\ roundOk' = DrainKeeps(p)
    /\ UNCHANGED <<phase, attempts, job, failed, successes, sat, cause, met, stored>>

\* Mutant: a round without a new result ends the upload.
EndRoundNoProgress ==
    /\ phase \in {"round", "drain"}
    /\ \A p \in Pieces : task[p] = "none"
    /\ successes' = successes \cup roundOk
    /\ \E v \in Verdicts(Tagged(successes')) :
          IF v \/ failed = {} \/ roundOk = {}
          THEN Leave(successes')
          ELSE phase' = "retry" /\ UNCHANGED <<cause, met>>
    /\ UNCHANGED <<attempts, job, round, sat, stored>>

\* The set is empty.  The requirements are met, nothing failed, or new limits
\* are asked for.
EndRound ==
    /\ phase \in {"round", "drain"}
    /\ \A p \in Pieces : task[p] = "none"
    /\ successes' = successes \cup roundOk
    /\ \E v \in Verdicts(Tagged(successes')) :
          IF v \/ failed = {}
          THEN Leave(successes')
          ELSE phase' = "retry" /\ UNCHANGED <<cause, met>>
    /\ UNCHANGED <<attempts, job, round, sat, stored>>

-----------------------------------------------------------------------------
(* RetryBeginSegmentPieces *)

\* The satellite (external) rotates the segment id, replaces the limits of the
\* failed pieces (those in R; it has no other node for the rest) and answers
\* with its full list, indexed by piece number.
Rotated(R) ==
    [id |-> segmentId + 1,
     limits |-> [p \in Pieces |->
                   CASE p \in R -> [piece |-> p, id |-> segmentId + 1]
                     [] p \in failed \ R -> NoLimit
                     [] OTHER -> sat.limits[p]]]

\* Mutant: the answer is read as a list aligned to the failed piece numbers.
NewLimitAligned(p, limits) ==
    LET at == Cardinality({q \in failed : q < p})
        base == CHOOSE b \in Pieces : \A q \in Pieces : b <= q
    IN  IF base + at \in Pieces THEN limits[base + at] ELSE NoLimit

\* new_limits.get(piece_num): the entry of the piece in the full list.
NewLimit(p, limits) == limits[p]

NewSegmentId(id) == id

\* A failed piece gets its new limit, or leaves the assignments when there is
\* none.
RetryAnswered ==
    /\ phase = "retry"
    /\ \E R \in SUBSET failed :
          /\ sat' = Rotated(R)
          /\ segmentId' = NewSegmentId(sat'.id)
          /\ asg' = [p \in Pieces |-> IF p \in failed THEN NewLimit(p, sat'.limits) ELSE asg[p]]
    /\ phase' = "head"
    /\ UNCHANGED <<attempts, round, successes, cause, met, stored>>

\* The RPC fails, or a new limit has no usable address.
RetryFails ==
    /\ phase = "retry"
    /\ \E why \in {"rpc", "limit"} : Fail(why)
    /\ UNCHANGED <<attempts, job, round, successes, sat, met, stored>>

\* The function has returned.
Returned == phase \in Done /\ UNCHANGED vars

-----------------------------------------------------------------------------
Next ==
    \/ StartRound
    \/ LeaveAtHead
    \/ \E p \in Pieces : TaskEnds(p)
    \/ \E p \in Pieces : JoinOk(p)
    \/ \E p \in Pieces : JoinErr(p)
    \/ \E p \in Pieces : JoinPanic(p)
    \/ \E p \in Pieces : Drain(p)
    \/ EndRound
    \/ RetryAnswered
    \/ RetryFails
    \/ Returned

Spec == Init /\ [][Next]_vars

\* Every piece upload ends (its dials, reads and writes have deadlines; that no
\* node keeps a call alive with packets that carry nothing is assumed, see
\* DrpcConn), the task that drives the loop is polled, and the satellite call
\* returns or times out.  All of Next is progress of one of these.
SegmentFairness == WF_vars(Next)

FairSpec == Spec /\ SegmentFairness

-----------------------------------------------------------------------------
(* Properties *)

\* A piece is uploaded only under the limit that the satellite holds for it in
\* the segment id the client holds, and never again once it has a result: the
\* replacement of limits and ids between rounds keeps client and satellite in
\* step.
UploadsCurrent ==
    \A p \in Pieces : task[p] = "running" =>
        /\ segmentId = sat.id
        /\ asg[p] = sat.limits[p]
        /\ p \notin Numbers(successes \cup roundOk)

\* What CommitSegment is sent matches the latest segment id: each reported
\* piece was stored under the limit that id holds for its number, so no piece
\* number occurs twice (the final dedup drops nothing).
ReportMatchesSegment ==
    phase = "committable" =>
        /\ segmentId = sat.id
        /\ \A l \in successes : l = sat.limits[l.piece]

\* Pieces that finished are durably stored and are all reported, also those
\* that finished while the long tail was being cancelled.
FinishedReported == phase = "committable" => stored = successes

\* upload_pieces_long_tail: limits, segment id and results never fall out of step
\* with the satellite, from the first launch to the report: what runs is
\* current, what is reported belongs to the latest segment id, and everything
\* that finished is reported.
Reporting ==
    /\ TypeOK
    /\ UploadsCurrent
    /\ ReportMatchesSegment
    /\ FinishedReported

\* A placement requirement is steady when the order in which a hash map is
\* walked does not decide about it and one more piece does not break it.
\* Placements are the sets of limits it may be asked about: one per piece.
Placements ==
    {{[piece |-> p, id |-> f[p]] : p \in P} : P \in SUBSET Pieces, f \in [Pieces -> 0..MaxAttempts]}

Steady ==
    \A S \in Placements :
        /\ Verdicts(S) \in {{TRUE}, {FALSE}}
        /\ \A l \in Limit : l.piece \notin Numbers(S) /\ Verdicts(S) = {TRUE}
                              => Verdicts(S \cup {l}) = {TRUE}

\* Once a round has met the requirements the upload does not fail: cancelling
\* the long tail cannot lose what was achieved (for steady requirements).
MetMeansOk == phase = "error" /\ met => cause = "join"

\* The upload fails for lack of pieces only when its rounds are used up or no
\* assigned piece is left to try.
NoEarlyGiveUp == cause = "threshold" => attempts = MaxAttempts \/ Pending = {}

\* upload_pieces_long_tail keeps what it achieved and keeps trying: it fails
\* neither after its requirements were met nor while it could still meet them.
Persistence ==
    /\ MetMeansOk
    /\ NoEarlyGiveUp

\* The upload of a segment ends: every task is joined or drained in every round
\* and there are finitely many rounds.
Terminates == <>(phase \in Done)
=============================================================================
