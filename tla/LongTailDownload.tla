-------------------------- MODULE LongTailDownload --------------------------
(***************************************************************************)
(* Download and reconstruction of one remote segment: the long-tail        *)
(* collection of k pieces with a launch margin, failure replacement and    *)
(* timed hedges (storj-uplink/src/download.rs, collect_piece_downloads),   *)
(* and the decode loop that fetches extra pieces when the content does not *)
(* authenticate (storj/src/project.rs, decrypt_one_segment).               *)
(*                                                                         *)
(* Assignments are the numbers 1..N in the satellite's order.  A node may  *)
(* answer with a good piece, with a piece whose bytes are corrupt (the     *)
(* transfer cannot tell), with an error, or be slow: slow nodes are given  *)
(* no fairness, all others answer.                                         *)
(***************************************************************************)
EXTENDS Naturals, Sequences, FiniteSets, FiniteSetsExt

CONSTANTS N,            \* assignments of the segment
          K,            \* rs.k, pieces needed to decode
          LaunchMargin, \* LAUNCH_MARGIN (1 in the code)
          MaxExtras,    \* MAX_DECODE_EXTRAS (2 in the code)
          MaxSlow       \* bound: slow nodes

ASSUME LongTailDownloadAssumption ==
    /\ N \in Nat
    /\ K \in Nat \ {0}
    /\ LaunchMargin \in Nat
    /\ MaxExtras \in Nat
    /\ MaxSlow \in Nat

Pieces == 1..N

VARIABLES
    range,       \* the requested piece range: invalid, empty or valid
    hedging,     \* hedge_delay is not zero
    slow,        \* nodes that need not answer
    phase,       \* where decrypt_one_segment is
    queue,       \* assignments not launched; between collections, `unused`
    task,        \* the JoinSet: state of each launched piece
    got,         \* successes of this collection
    failures,    \* failures of this collection
    attempted,   \* launches of this collection
    hedgesLeft,  \* hedges_left
    shares,      \* downloaded.shares
    corrupt,     \* shares whose bytes are wrong
    extras,      \* extras
    cause,       \* why the download failed
    tried        \* history: assignments launched for extra pieces

env == <<range, hedging, slow>>
collect == <<queue, task, got, failures, attempted, hedgesLeft>>
segment == <<shares, corrupt, extras>>
vars == <<env, phase, collect, segment, cause, tried>>

\* How a task ends: with a piece (intact or corrupt, decided when it is joined)
\* or without one (an error, or a panic of the task).
Answers == {"piece", "nothing"}
Done == {"plain", "error"}

TypeOK ==
    /\ range \in {"invalid", "empty", "valid"}
    /\ hedging \in BOOLEAN
    /\ slow \in SUBSET Pieces
    /\ phase \in {"start", "collect", "decode", "extra"} \cup Done
    /\ queue \in Seq(Pieces)
    /\ task \in [Pieces -> {"none", "running"} \cup Answers]
    /\ got \in SUBSET Pieces
    /\ failures \in SUBSET Pieces
    /\ attempted \in 0..N
    /\ hedgesLeft \in 0..K
    /\ shares \in SUBSET Pieces
    /\ corrupt \in SUBSET shares
    /\ extras \in 0..MaxExtras
    /\ cause \in {"none", "range", "pieces", "join", "auth", "decode"}
    /\ tried \in SUBSET Pieces

InSet == {p \in Pieces : task[p] # "none"}
Ready == {p \in Pieces : task[p] \in Answers}

\* The call in progress: k pieces with the margin, or one extra piece.
Required == IF phase = "collect" THEN K ELSE 1

Init ==
    /\ range \in {"invalid", "empty", "valid"}
    /\ hedging \in BOOLEAN
    /\ slow \in {S \in SUBSET Pieces : Cardinality(S) <= MaxSlow}
    /\ phase = "start"
    /\ queue = [p \in Pieces |-> p]
    /\ task = [p \in Pieces |-> "none"]
    /\ got = {}
    /\ failures = {}
    /\ attempted = 0
    /\ hedgesLeft = 0
    /\ shares = {}
    /\ corrupt = {}
    /\ extras = 0
    /\ cause = "none"
    /\ tried = {}

Fail(why) ==
    /\ phase' = "error"
    /\ cause' = why

-----------------------------------------------------------------------------
(* collect_piece_downloads *)

\* Mutant: the launch margin is not charged to the budget.
HedgesUncharged(required, margin) == Min({Max({(required + 4) \div 5, 2}), required})

\* Speculative launches besides the margin: about a fifth of what is required,
\* at least two, at most `required`, the margin included.
Hedges(required, margin) ==
    LET budget == Min({Max({(required + 4) \div 5, 2}), required})
    IN  IF budget >= margin THEN budget - margin ELSE 0

\* A collection over the assignments q begins: required + margin pieces are
\* launched.
Launch(q, required, margin) ==
    LET first == Min({required + margin, Len(q)})
        now == {q[i] : i \in 1..first}
    IN  /\ task' = [p \in Pieces |-> IF p \in now THEN "running" ELSE "none"]
        /\ queue' = SubSeq(q, first + 1, Len(q))
        /\ attempted' = first
        /\ hedgesLeft' = Hedges(required, margin)
        /\ got' = {}
        /\ failures' = {}

\* download_pieces_long_tail is called: an invalid range is refused, an empty
\* one needs no piece.
Start ==
    /\ phase = "start"
    /\ \/ /\ range = "invalid"
          /\ Fail("range")
          /\ UNCHANGED <<collect, tried>>
       \/ /\ range = "empty"
          /\ phase' = "decode"
          /\ UNCHANGED <<collect, cause, tried>>
       \/ /\ range = "valid"
          /\ phase' = "collect"
          /\ Launch(queue, K, LaunchMargin)
          /\ UNCHANGED <<cause, tried>>
    /\ UNCHANGED <<env, segment>>

\* The transfer of p ends, one way or another.
TaskEnds(p) ==
    /\ task[p] = "running"
    /\ \E a \in Answers : task' = [task EXCEPT ![p] = a]
    /\ UNCHANGED <<env, phase, queue, got, failures, attempted, hedgesLeft, segment, cause, tried>>

\* Mutant: the last hedge of the budget is not used.
HedgeKeepsOne ==
    /\ phase = "collect"
    /\ hedging
    /\ hedgesLeft > 1
    /\ queue # <<>>
    /\ InSet # {}
    /\ Ready = {}
    /\ task' = [task EXCEPT ![Head(queue)] = "running"]
    /\ queue' = Tail(queue)
    /\ attempted' = attempted + 1
    /\ hedgesLeft' = hedgesLeft - 1
    /\ UNCHANGED <<env, phase, got, failures, segment, cause, tried>>

\* The hedge timer has fired and no result is ready (the select is biased):
\* the next assignment is launched.
Hedge ==
    /\ phase = "collect"
    /\ hedging
    /\ hedgesLeft > 0
    /\ queue # <<>>
    /\ InSet # {}
    /\ Ready = {}
    /\ task' = [task EXCEPT ![Head(queue)] = "running"]
    /\ queue' = Tail(queue)
    /\ attempted' = attempted + 1
    /\ hedgesLeft' = hedgesLeft - 1
    /\ UNCHANGED <<env, phase, got, failures, segment, cause, tried>>

\* A set of assignments in the satellite's order.
InOrder(P) ==
    CHOOSE q \in [1..Cardinality(P) -> P] :
       {q[i] : i \in DOMAIN q} = P /\ \A i, j \in DOMAIN q : i < j => q[i] < q[j]

\* Mutant: what this collection did not launch is all that is kept.
UnusedNotLaunched(S) == queue

\* The assignments left for a later extra piece: all that gave no share, the
\* failed and the cancelled ones included.
Unused(S) == InOrder(Pieces \ S)

\* A piece arrived.  Enough of them end the collection: the rest is aborted and
\* drained without a look at it.
JoinOk(p) ==
    /\ task[p] = "piece"
    /\ got' = got \cup {p}
    /\ corrupt' \in {corrupt, corrupt \cup {p}}
    /\ shares' = shares \cup {p}
    /\ IF Cardinality(got') >= Required
       THEN /\ task' = [q \in Pieces |-> "none"]
            /\ phase' = "decode"
            /\ queue' = IF phase = "collect" THEN Unused(shares') ELSE queue
            /\ extras' = IF phase = "extra" THEN extras + 1 ELSE extras
       ELSE /\ task' = [task EXCEPT ![p] = "none"]
            /\ UNCHANGED <<phase, queue, extras>>
    /\ UNCHANGED <<env, failures, attempted, hedgesLeft, cause, tried>>

\* A failure promotes the next assignment.
Promote(p) ==
    IF queue = <<>>
    THEN /\ task' = [task EXCEPT ![p] = "none"]
         /\ UNCHANGED <<queue, attempted>>
    ELSE /\ task' = [task EXCEPT ![p] = "none", ![Head(queue)] = "running"]
         /\ queue' = Tail(queue)
         /\ attempted' = attempted + 1

JoinErr(p) ==
    /\ task[p] = "nothing"
    /\ failures' = failures \cup {p}
    /\ Promote(p)
    /\ tried' = IF phase = "extra" /\ queue # <<>> THEN tried \cup {Head(queue)} ELSE tried
    /\ UNCHANGED <<env, phase, got, hedgesLeft, segment, cause>>

JoinPanic(p) ==
    /\ task[p] = "nothing"
    /\ task' = [q \in Pieces |-> "none"]
    /\ Fail("join")
    /\ UNCHANGED <<env, queue, got, failures, attempted, hedgesLeft, segment, tried>>

\* The set ran empty: too few pieces.  For an extra piece this is no error of
\* its own, the content stays undecodable.
Insufficient ==
    /\ phase \in {"collect", "extra"}
    /\ InSet = {}
    /\ Fail(IF phase = "collect" THEN "pieces" ELSE "auth")
    /\ UNCHANGED <<env, collect, segment, tried>>

-----------------------------------------------------------------------------
(* The decode loop *)

\* Some k of the shares are intact: reconstruct_remote tries every k-subset.
Decodable == Cardinality(shares \ corrupt) >= K

DecodeOk ==
    /\ phase = "decode"
    /\ Decodable
    /\ phase' = "plain"
    /\ UNCHANGED <<env, collect, segment, cause, tried>>

\* Too few shares, or a failure that is not one of content authentication.
DecodeFails ==
    /\ phase = "decode"
    /\ Fail("decode")
    /\ UNCHANGED <<env, collect, segment, tried>>

AskExtra == extras < MaxExtras

\* No k-subset authenticates: another piece is fetched, as long as there are
\* extras and assignments left.
AuthFails ==
    /\ phase = "decode"
    /\ Cardinality(shares) >= K
    /\ ~Decodable
    /\ IF AskExtra /\ queue # <<>>
       THEN /\ phase' = "extra"
            /\ Launch(queue, 1, 0)
            /\ tried' = tried \cup {Head(queue)}
            /\ UNCHANGED cause
       ELSE /\ Fail("auth")
            /\ UNCHANGED <<collect, tried>>
    /\ UNCHANGED <<env, segment>>

\* The function has returned.
Returned == phase \in Done /\ UNCHANGED vars

-----------------------------------------------------------------------------
Next ==
    \/ Start
    \/ \E p \in Pieces : TaskEnds(p)
    \/ Hedge
    \/ \E p \in Pieces : JoinOk(p)
    \/ \E p \in Pieces : JoinErr(p)
    \/ \E p \in Pieces : JoinPanic(p)
    \/ Insufficient
    \/ DecodeOk
    \/ DecodeFails
    \/ AuthFails
    \/ Returned

Spec == Init /\ [][Next]_vars

Driver ==
    \/ Start \/ Hedge \/ Insufficient \/ DecodeOk \/ DecodeFails \/ AuthFails
    \/ \E p \in Pieces : JoinOk(p) \/ JoinErr(p) \/ JoinPanic(p)

\* The task that drives the download is polled and the hedge timer fires; a
\* node that is not slow answers or runs into its deadline.  Nothing is assumed
\* of the slow ones.
CollectFairness ==
    /\ WF_vars(Driver)
    /\ \A p \in Pieces : WF_vars(p \notin slow /\ TaskEnds(p))

FairSpec == Spec /\ CollectFairness

-----------------------------------------------------------------------------
(* Properties *)

\* Launches that replace no failure: the k pieces, the margin and the hedges.
Speculative == Max({LaunchMargin, Min({Max({(K + 4) \div 5, 2}), K})})

\* The budget for speculative launches is never exceeded and never replenished:
\* without failures a download orders at most k pieces and a fifth more (or
\* two, or the margin), and one more for each failure.
SpareBudget ==
    phase = "collect" => attempted <= K + Speculative + Cardinality(failures)

\* While assignments are left, enough pieces are on their way: the margin above
\* k is restored after each failure, and hedges only add to it.
FullWidth ==
    phase = "collect" /\ queue # <<>> =>
        Cardinality(InSet) + Cardinality(got) + hedgesLeft
            = K + LaunchMargin + Hedges(K, LaunchMargin)

\* A download gives up for lack of pieces only after every assignment was
\* tried and all but fewer than k of them failed.
GivesUpExhausted ==
    cause = "pieces" =>
        /\ attempted = N
        /\ Cardinality(got) < K
        /\ failures = Pieces \ got

\* A piece is never fetched while its share is held, nor waiting twice: the
\* shares handed to the decoder have distinct piece numbers.
DistinctShares ==
    /\ \A p \in InSet : p \notin shares
    /\ \A i, j \in 1..Len(queue) : queue[i] = queue[j] => i = j
    /\ phase \in {"collect", "extra"} =>
          \A i \in 1..Len(queue) : queue[i] \notin InSet \cup got \cup failures

\* Corrupt pieces are replaced: with no more corrupt shares than there are
\* extras, the content is only given up when no assignment is left to try.
CorruptionCovered ==
    cause = "auth" /\ Cardinality(corrupt) <= MaxExtras =>
        Pieces = shares \cup tried

\* collect_piece_downloads launches neither too much nor too little, and no piece
\* twice: the speculative budget, the width while assignments are left, and the
\* distinct shares.
LaunchesRight ==
    /\ SpareBudget
    /\ FullWidth
    /\ DistinctShares

\* collect_piece_downloads and decrypt_one_segment give up only when they must:
\* every assignment was tried, for missing and for corrupt pieces alike.
GivesUpLast ==
    /\ GivesUpExhausted
    /\ CorruptionCovered

\* The slow nodes the speculation is meant to mask.
Masked == LaunchMargin + (IF hedging THEN Hedges(K, LaunchMargin) ELSE 0)

\* Up to that many slow nodes never stall the collection while there are
\* assignments left: it ends without their answer, or has launched everything.
SlowNodesMasked ==
    phase = "collect" /\ Cardinality(slow) <= Masked
        ~> phase # "collect" \/ queue = <<>>

\* A download whose nodes all answer or time out ends.
Terminates == slow = {} ~> phase \in Done

\* collect_piece_downloads ends: without the slow nodes it can do without, and
\* always when none is slow.
DownloadEnds ==
    /\ SlowNodesMasked
    /\ Terminates
=============================================================================
