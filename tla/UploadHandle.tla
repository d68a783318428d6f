---------------------------- MODULE UploadHandle ----------------------------
(***************************************************************************)
(* One object upload: the Upload handle its owner writes to                *)
(* (storj/src/upload.rs), the background task that flushes full segments,  *)
(* commit, abort and drop with the detached delete tasks they spawn        *)
(* (storj/src/project.rs), and the satellite's record of the stream        *)
(* (external).                                                             *)
(*                                                                         *)
(* The owner, the flush task, the detached deletes and the satellite are   *)
(* concurrent.  A byte is its position in what the owner wrote, so the     *)
(* order and completeness of what is published can be stated; sizes are in *)
(* units of which MaxSegment make a full segment.                          *)
(*                                                                         *)
(* A mutating RPC is sent once (Metainfo retries only idempotent calls).   *)
(* Its request or its answer may be lost, and its caller may time out or   *)
(* be cancelled while the request is on its way: the satellite may then    *)
(* still apply it ("late").                                                *)
(***************************************************************************)
EXTENDS Integers, Sequences, FiniteSets

CONSTANTS MaxSegment,   \* constants::MAX_SEGMENT_SIZE, in units
          MaxWrite,     \* bound: longest buffer passed to one write
          MaxBytes      \* bound: units the owner may write

ASSUME UploadAssumption ==
    /\ MaxSegment \in Nat \ {0}
    /\ MaxWrite \in Nat \ {0}
    /\ MaxBytes \in Nat

VARIABLES
    handle,       \* where the owner is: the open handle, an await of commit or abort, or past it
    plaintext,    \* UploadInner.plaintext
    nextSegment,  \* UploadInner.next_segment
    totalPlain,   \* UploadInner.total_plain
    lastPlain,    \* UploadInner.last_segment_plain
    attached,     \* UploadInner.pending_flush is Some
    innerFailed,  \* UploadInner.failed is Some
    flush,        \* the flush task: its state, whether abort() was called, its job
    blocked,      \* the owner's write or flush returned Pending and was not woken yet
    accepted,     \* units accepted by write so far
    events,       \* terminal telemetry events, in order
    last,         \* the last call that returned: [call, poisoned, ok]
    net,          \* one request slot per caller of the satellite
    object,       \* satellite: status of the stream
    segs,         \* satellite: segments stored for the stream, by index
    published,    \* satellite: the metadata CommitObject carried
    gaveUp        \* history: the last delete that would be tried was lost or dropped

inner == <<plaintext, nextSegment, totalPlain, lastPlain, attached, innerFailed>>
satellite == <<object, segs, published>>
handleVars == <<handle, inner, flush, blocked, accepted, events, last, net, satellite, gaveUp>>

\* Callers of the satellite: the flush task, the last segment and CommitObject
\* of commit_upload, the first delete and its one retry (spawn_abort).
Callers == {"flush", "lastSegment", "commitObject", "delete", "deleteRetry"}
NetStates == {"none", "sent", "late", "ok", "err"}

Awaits == {"flushWait", "lastSegment", "commitObject", "failedDelete",
           "abortJoin", "abortDelete"}
HandleStates == {"open", "closed"} \cup Awaits

NoFlush == [st |-> "none", abort |-> FALSE, index |-> 0, data |-> <<>>]

NoPublished == [segments |-> 0, lastSize |-> 0]

MaxOf(a, b) == IF a >= b THEN a ELSE b

-----------------------------------------------------------------------------
(* Telemetry *)

\* Transfer::finish and Transfer::fail: only the first outcome is reported.
Finish(outcome) == events' = IF events = <<>> THEN <<outcome>> ELSE events

-----------------------------------------------------------------------------
(* The satellite (external) and the network *)

Send(c) == net' = [net EXCEPT ![c] = "sent"]

\* The caller's future is dropped or timed out with its request on the way.
GiveUp(n, c) == IF n[c] = "sent" THEN [n EXCEPT ![c] = "late"] ELSE n

\* Mutant: the delete is not restricted to pending objects.
DeletableAny == {"pending", "committed"}

\* BeginDeleteObject carries Status::Uploading: only a pending object matches.
Deletable == {"pending"}

\* What the satellite does with the request of caller c.
Serve(c, seg, meta) ==
    CASE c \in {"flush", "lastSegment"} ->
           IF object = "pending"
           THEN /\ segs' = [i \in DOMAIN segs \cup {seg.index} |->
                              IF i = seg.index THEN seg.data ELSE segs[i]]
                /\ UNCHANGED <<object, published>>
           ELSE UNCHANGED satellite
      [] c = "commitObject" ->
           IF object = "pending"
           THEN object' = "committed" /\ published' = meta /\ UNCHANGED segs
           ELSE UNCHANGED satellite
      [] OTHER ->
           IF object \in Deletable
           THEN object' = "deleted" /\ UNCHANGED <<segs, published>>
           ELSE UNCHANGED satellite

Accepts(c) == IF c \in {"delete", "deleteRetry"} THEN object \in Deletable ELSE object = "pending"

\* The job of a segment request: the flush task's, or commit's last segment
\* (the model leaves its bytes in plaintext until the answer is consumed).
Job(c) == IF c = "flush" THEN flush ELSE [index |-> nextSegment, data |-> plaintext]

Meta == [segments |-> nextSegment, lastSize |-> lastPlain]

\* A request reaches the satellite; its answer reaches the caller or is lost.
SatelliteServes(c) ==
    /\ net[c] \in {"sent", "late"}
    /\ Serve(c, Job(c), Meta)
    /\ \/ net' = [net EXCEPT ![c] = IF net[c] = "late" THEN "none"
                                    ELSE IF Accepts(c) THEN "ok" ELSE "err"]
       \/ net[c] = "sent" /\ net' = [net EXCEPT ![c] = "err"]
    /\ UNCHANGED <<handle, inner, flush, blocked, accepted, events, last, gaveUp>>

\* No further delete follows this one: it is the retry itself, or the single
\* attempt of AbortOnDrop.
LastDelete(c) ==
    \/ c = "deleteRetry"
    \/ c = "delete" /\ handle = "closed" /\ last.call # "drop" /\ net["deleteRetry"] = "none"

\* The request is lost, or never sent because an earlier step of the job failed.
RequestLost(c) ==
    /\ net[c] \in {"sent", "late"}
    /\ net' = [net EXCEPT ![c] = IF net[c] = "late" THEN "none" ELSE "err"]
    /\ gaveUp' = (gaveUp \/ LastDelete(c))
    /\ UNCHANGED <<handle, inner, flush, blocked, accepted, events, last, satellite>>

-----------------------------------------------------------------------------
HandleInit ==
    /\ handle = "open"
    /\ plaintext = <<>>
    /\ nextSegment = 0
    /\ totalPlain = 0
    /\ lastPlain = 0
    /\ attached = FALSE
    /\ innerFailed = FALSE
    /\ flush = NoFlush
    /\ blocked = FALSE
    /\ accepted = 0
    /\ events = <<>>
    /\ last = [call |-> "none", poisoned |-> FALSE, ok |-> TRUE]
    /\ net = [c \in Callers |-> "none"]
    /\ object = "pending"
    /\ segs = <<>>
    /\ published = NoPublished
    /\ gaveUp = FALSE

CallReturned(call, ok) == last' = [call |-> call, poisoned |-> innerFailed, ok |-> ok]

-----------------------------------------------------------------------------
(* The flush task: commit_one_segment, then the JoinHandle is ready.       *)

FlushEnds ==
    /\ flush.st = "running"
    /\ net["flush"] \in {"ok", "err"}
    /\ flush' = [flush EXCEPT !.st = net["flush"]]
    /\ net' = [net EXCEPT !["flush"] = "none"]
    /\ blocked' = FALSE
    /\ UNCHANGED <<handle, inner, accepted, events, last, satellite, gaveUp>>

\* message_timeout: the task fails with its request still on the way.
FlushTimesOut ==
    /\ flush.st = "running"
    /\ net["flush"] = "sent"
    /\ flush' = [flush EXCEPT !.st = "err"]
    /\ net' = GiveUp(net, "flush")
    /\ blocked' = FALSE
    /\ UNCHANGED <<handle, inner, accepted, events, last, satellite, gaveUp>>

\* JoinHandle::abort takes effect at the task's next await.
FlushAborted ==
    /\ flush.st = "running"
    /\ flush.abort
    /\ flush' = [flush EXCEPT !.st = "err"]
    /\ net' = GiveUp(net, "flush")
    /\ UNCHANGED <<handle, inner, blocked, accepted, events, last, satellite, gaveUp>>

-----------------------------------------------------------------------------
(* poll_pending_flush: ready when no task is attached or it has ended.     *)

FlushPending == attached /\ flush.st = "running"
FlushOk == attached /\ flush.st = "ok"
FlushErr == attached /\ flush.st = "err"

\* Mutant: the segment number is taken before the flush is applied.
NextAfterFlushStale == nextSegment

\* apply_flush
NextAfterFlush == IF FlushOk THEN MaxOf(nextSegment, flush.index + 1) ELSE nextSegment
TotalAfterFlush == IF FlushOk THEN totalPlain + Len(flush.data) ELSE totalPlain
LastAfterFlush == IF FlushOk THEN Len(flush.data) ELSE lastPlain

ApplyFlush ==
    /\ nextSegment' = NextAfterFlush
    /\ totalPlain' = TotalAfterFlush
    /\ lastPlain' = LastAfterFlush

\* poison: the first flush error sticks, and the call reports it.
Poison(call) ==
    /\ attached' = FALSE
    /\ innerFailed' = TRUE
    /\ Finish("Error")
    /\ CallReturned(call, FALSE)
    /\ UNCHANGED <<handle, plaintext, nextSegment, totalPlain, lastPlain, flush, blocked, accepted, net, satellite, gaveUp>>

\* Units the owner writes next.
NextUnits(n) == [i \in 1..n |-> accepted + i]

\* poll_write_inner accepts: a full window is first handed to a new flush task
\* (spawn_flush_segment), then as much of the buffer is taken as there is room.
WriteAccepts(n) ==
    LET full == Len(plaintext) >= MaxSegment
        kept == IF full THEN <<>> ELSE plaintext
        taken == IF n <= MaxSegment - Len(kept) THEN n ELSE MaxSegment - Len(kept)
    IN /\ ~innerFailed /\ ~FlushErr
       /\ ~(full /\ FlushPending)
       /\ accepted + taken <= MaxBytes
       /\ ApplyFlush
       /\ IF full
          THEN /\ flush' = [st |-> "running", abort |-> FALSE,
                            index |-> NextAfterFlush, data |-> plaintext]
               /\ attached' = TRUE
               /\ Send("flush")
          ELSE /\ attached' = FlushPending
               /\ UNCHANGED <<flush, net>>
       /\ plaintext' = kept \o NextUnits(taken)
       /\ accepted' = accepted + taken
       /\ CallReturned("write", TRUE)
       /\ UNCHANGED <<handle, innerFailed, blocked, events, satellite, gaveUp>>

\* The window is full and its predecessor is still being flushed: Pending, with
\* the owner's waker registered on the JoinHandle.
WriteBlocks ==
    /\ ~innerFailed
    /\ FlushPending
    /\ Len(plaintext) >= MaxSegment
    /\ blocked' = TRUE
    /\ UNCHANGED <<handle, inner, flush, accepted, events, last, net, satellite, gaveUp>>

CallFails(call) ==
    \/ FlushErr /\ ~innerFailed /\ Poison(call)
    \/ /\ innerFailed
       /\ CallReturned(call, FALSE)
       /\ UNCHANGED <<handle, inner, flush, blocked, accepted, events, net, satellite, gaveUp>>

\* An empty buffer returns Ok(0) before anything else is looked at.
EmptyWrite ==
    /\ CallReturned("emptyWrite", TRUE)
    /\ UNCHANGED <<handle, inner, flush, blocked, accepted, events, net, satellite, gaveUp>>

Write ==
    /\ handle = "open" /\ ~blocked
    /\ \/ \E n \in 1..MaxWrite : WriteAccepts(n)
       \/ WriteBlocks
       \/ CallFails("write")
       \/ EmptyWrite

Flush ==
    /\ handle = "open" /\ ~blocked
    /\ \/ /\ ~innerFailed /\ FlushPending
          /\ blocked' = TRUE
          /\ UNCHANGED <<handle, inner, flush, accepted, events, last, net, satellite, gaveUp>>
       \/ /\ ~innerFailed /\ ~FlushPending /\ ~FlushErr
          /\ ApplyFlush
          /\ attached' = FALSE
          /\ CallReturned("flush", TRUE)
          /\ UNCHANGED <<handle, plaintext, innerFailed, flush, blocked, accepted, events, net, satellite, gaveUp>>
       \/ CallFails("flush")

\* poll_shutdown
Shutdown ==
    /\ handle = "open" /\ ~blocked
    /\ CallReturned("shutdown", TRUE)
    /\ UNCHANGED <<handle, inner, flush, blocked, accepted, events, net, satellite, gaveUp>>

-----------------------------------------------------------------------------
(* commit_upload *)

\* Mutant: the abort guard is disarmed before CommitObject has answered.
LeaveCommitDisarmed(outcome, ok) ==
    /\ handle' = "closed"
    /\ net' = GiveUp(GiveUp(net, "lastSegment"), "commitObject")
    /\ Finish(outcome)
    /\ CallReturned("commit", ok)
    /\ attached' = FALSE
    /\ UNCHANGED <<plaintext, nextSegment, totalPlain, lastPlain, innerFailed, flush, blocked,
                   accepted, satellite, gaveUp>>

\* AbortOnDrop: any way out of commit_upload other than success spawns one
\* delete of the pending object.  A flush task still attached is detached.
LeaveCommit(outcome, ok) ==
    /\ handle' = "closed"
    /\ net' = [GiveUp(GiveUp(net, "lastSegment"), "commitObject") EXCEPT !["delete"] = "sent"]
    /\ Finish(outcome)
    /\ CallReturned("commit", ok)
    /\ attached' = FALSE
    /\ UNCHANGED <<plaintext, nextSegment, totalPlain, lastPlain, innerFailed, flush, blocked,
                   accepted, satellite, gaveUp>>

\* The final window is sent when it holds anything, and an empty object still
\* gets one (empty) segment.
LastSegmentNeeded(p, n) == p # <<>> \/ n = 0

\* failed_error() at the head of commit_upload.
CommitChecksFailed == innerFailed

Commit ==
    /\ handle = "open"
    /\ blocked' = FALSE
    /\ IF CommitChecksFailed
       THEN handle' = "failedDelete" /\ Send("delete")
       ELSE IF attached
       THEN handle' = "flushWait" /\ net' = net
       ELSE IF LastSegmentNeeded(plaintext, nextSegment)
       THEN handle' = "lastSegment" /\ Send("lastSegment")
       ELSE handle' = "commitObject" /\ Send("commitObject")
    /\ UNCHANGED <<inner, flush, accepted, events, last, satellite, gaveUp>>

\* handle.await??: the flush task has ended.
CommitJoinsFlush ==
    /\ handle = "flushWait"
    /\ \/ /\ FlushOk
          /\ ApplyFlush
          /\ attached' = FALSE
          /\ IF LastSegmentNeeded(plaintext, NextAfterFlush)
             THEN handle' = "lastSegment" /\ Send("lastSegment")
             ELSE handle' = "commitObject" /\ Send("commitObject")
          /\ UNCHANGED <<plaintext, innerFailed, flush, blocked, accepted, events, last, satellite, gaveUp>>
       \/ /\ FlushErr
          /\ LeaveCommit("Error", FALSE)

\* The last segment is stored: apply_flush and CommitObject.
CommitStoredLast ==
    /\ handle = "lastSegment"
    /\ \/ /\ net["lastSegment"] = "ok"
          /\ handle' = "commitObject"
          /\ nextSegment' = MaxOf(nextSegment, nextSegment + 1)
          /\ totalPlain' = totalPlain + Len(plaintext)
          /\ lastPlain' = Len(plaintext)
          /\ plaintext' = <<>>
          /\ net' = [net EXCEPT !["lastSegment"] = "none", !["commitObject"] = "sent"]
          /\ UNCHANGED <<attached, innerFailed, flush, blocked, accepted, events, last, satellite, gaveUp>>
       \/ /\ net["lastSegment"] \in {"err", "sent"}
          /\ LeaveCommit("Error", FALSE)

\* CommitObject answered: the guard is disarmed, the object is the owner's.
CommitAnswered ==
    /\ handle = "commitObject"
    /\ \/ /\ net["commitObject"] = "ok"
          /\ handle' = "closed"
          /\ net' = [net EXCEPT !["commitObject"] = "none"]
          /\ Finish("Success")
          /\ CallReturned("commit", TRUE)
          /\ UNCHANGED <<inner, flush, blocked, accepted, satellite, gaveUp>>
       \/ /\ net["commitObject"] \in {"err", "sent"}
          /\ LeaveCommit("Error", FALSE)

\* The owner drops the commit future at one of its awaits.
CancelCommit ==
    /\ handle \in {"flushWait", "lastSegment", "commitObject"}
    /\ LeaveCommit("Cancelled", FALSE)

-----------------------------------------------------------------------------
(* abort_upload and Drop *)

AbortFlush == flush' = IF attached THEN [flush EXCEPT !.abort = TRUE] ELSE flush

Abort ==
    /\ handle = "open"
    /\ blocked' = FALSE
    /\ AbortFlush
    /\ IF attached
       THEN handle' = "abortJoin" /\ net' = net
       ELSE handle' = "abortDelete" /\ Send("delete")
    /\ UNCHANGED <<inner, accepted, events, last, satellite, gaveUp>>

\* join_aborted_flush: the delete is sent only once the task is gone.
AbortJoins ==
    /\ handle = "abortJoin"
    /\ flush.st # "running"
    /\ handle' = "abortDelete"
    /\ attached' = FALSE
    /\ Send("delete")
    /\ UNCHANGED <<plaintext, nextSegment, totalPlain, lastPlain, innerFailed, flush, blocked,
                   accepted, events, last, satellite, gaveUp>>

\* The delete is answered; on an error one more is spawned.  The same
\* abort_upload serves abort() and a commit() of a poisoned upload, which
\* reports the flush error whatever the delete returned.
AbortAnswered ==
    /\ handle \in {"abortDelete", "failedDelete"}
    /\ handle' = "closed"
    /\ \/ /\ net["delete"] = "ok"
          /\ net' = [net EXCEPT !["delete"] = "none"]
          /\ IF handle = "abortDelete"
             THEN Finish("Cancelled") /\ CallReturned("abort", TRUE)
             ELSE Finish("Error") /\ CallReturned("commit", FALSE)
       \/ /\ net["delete"] \in {"err", "sent"}
          /\ net' = [GiveUp(net, "delete") EXCEPT !["deleteRetry"] = "sent"]
          /\ Finish("Error")
          /\ CallReturned(IF handle = "abortDelete" THEN "abort" ELSE "commit", FALSE)
    /\ UNCHANGED <<inner, flush, blocked, accepted, satellite, gaveUp>>

\* The owner drops the abort future: nothing takes over the delete.
CancelAbort ==
    /\ handle \in {"abortJoin", "abortDelete", "failedDelete"}
    /\ handle' = "closed"
    /\ net' = GiveUp(net, "delete")
    /\ Finish("Cancelled")
    /\ gaveUp' = TRUE
    /\ CallReturned("cancel", FALSE)
    /\ UNCHANGED <<inner, flush, blocked, accepted, satellite>>

\* Drop for Upload: the flush is aborted but not joined, the delete is spawned.
Drop ==
    /\ handle = "open"
    /\ handle' = "closed"
    /\ blocked' = FALSE
    /\ Finish("Cancelled")
    /\ AbortFlush
    /\ attached' = FALSE
    /\ Send("delete")
    /\ CallReturned("drop", TRUE)
    /\ UNCHANGED <<plaintext, nextSegment, totalPlain, lastPlain, innerFailed, accepted, satellite, gaveUp>>

\* A detached delete ends.  The task of Drop runs abort_upload, which spawns
\* one more delete on an error; the task of AbortOnDrop does not.
DetachedDeleteEnds(c) ==
    /\ handle = "closed"
    /\ c \in {"delete", "deleteRetry"}
    /\ net[c] \in {"ok", "err"}
    /\ net' = [net EXCEPT ![c] = "none",
                          !["deleteRetry"] = IF c = "delete" /\ net[c] = "err" /\ last.call = "drop"
                                             THEN "sent"
                                             ELSE IF c = "deleteRetry" THEN "none" ELSE @]
    /\ UNCHANGED <<handle, inner, flush, blocked, accepted, events, last, satellite, gaveUp>>

-----------------------------------------------------------------------------
OwnerCalls == Write \/ Flush \/ Shutdown \/ Commit \/ Abort \/ Drop

CommitRuns == CommitJoinsFlush \/ CommitStoredLast \/ CommitAnswered

AbortRuns == AbortJoins \/ AbortAnswered

FlushRuns == FlushEnds \/ FlushTimesOut \/ FlushAborted

Quiet ==
    /\ handle = "closed"
    /\ flush.st # "running"
    /\ \A c \in Callers : net[c] \notin {"sent", "late"}
    /\ \A c \in {"delete", "deleteRetry"} : net[c] = "none"

HandleNext ==
    \/ OwnerCalls
    \/ CommitRuns \/ CancelCommit
    \/ AbortRuns \/ CancelAbort
    \/ FlushRuns
    \/ \E c \in Callers : SatelliteServes(c) \/ RequestLost(c) \/ DetachedDeleteEnds(c)
    \/ Quiet /\ UNCHANGED handleVars

HandleSpec == HandleInit /\ [][HandleNext]_handleVars

\* The runtime polls spawned tasks and the owner polls a future it awaits until
\* it returns (or drops it, which nothing forces); message_timeout ends every
\* RPC.  The owner is free to call nothing at all.
HandleFairness ==
    /\ WF_handleVars(CommitRuns)
    /\ WF_handleVars(AbortRuns)
    /\ WF_handleVars(FlushRuns)
    /\ \A c \in Callers : WF_handleVars(SatelliteServes(c) \/ RequestLost(c) \/ DetachedDeleteEnds(c))

FairHandleSpec == HandleSpec /\ HandleFairness

-----------------------------------------------------------------------------
(* Properties *)

\* Every variable has its type, and the buffer never outgrows one segment.
HandleTypeOK ==
    /\ handle \in HandleStates
    /\ plaintext \in Seq(1..MaxBytes) /\ Len(plaintext) <= MaxSegment
    /\ nextSegment \in 0..(MaxBytes + 1)
    /\ totalPlain \in 0..MaxBytes
    /\ lastPlain \in 0..MaxSegment
    /\ attached \in BOOLEAN
    /\ innerFailed \in BOOLEAN
    /\ flush.st \in {"none", "running", "ok", "err"}
    /\ blocked \in BOOLEAN
    /\ accepted \in 0..MaxBytes
    /\ net \in [Callers -> NetStates]
    /\ object \in {"pending", "committed", "deleted"}

\* The units a segment list of n segments must hold: the owner's bytes in
\* order, full segments first, nothing missing at the end.
Complete(n) ==
    /\ DOMAIN segs = 0..(n - 1)
    /\ \A i \in 0..(n - 1) :
          /\ segs[i] = [j \in 1..Len(segs[i]) |-> i * MaxSegment + j]
          /\ i < n - 1 => Len(segs[i]) = MaxSegment
    /\ (n - 1) * MaxSegment + Len(segs[n - 1]) = accepted

\* Whatever is published is the whole of what the owner wrote, in order, and
\* the metadata (segment count, size of the last one) describes it: no flush
\* that failed, was overtaken or was applied late leaves a gap.
PublishedComplete ==
    object = "committed" =>
        /\ Complete(published.segments)
        /\ published.lastSize = Len(segs[published.segments - 1])
        /\ totalPlain = accepted

\* "a caller that ignores one write error cannot publish an object with a
\* missing segment" (UploadInner.failed).
PoisonNeverPublished == innerFailed => object # "committed"

\* A committed object is never taken back, also when the answer to
\* CommitObject is lost or late and the abort guard fires.
CommittedStays == [][object = "committed" => object' = "committed"]_handleVars

\* One terminal telemetry event per upload, however the handle ends, and it
\* says Success only for an object that exists.
OneOutcome ==
    /\ Len(events) <= 1
    /\ handle = "closed" => Len(events) = 1
    /\ events = <<"Success">> => object = "committed"

\* apply_flush, commit_upload and Transfer::finish: what an upload publishes and
\* reports is right.  It publishes only the whole object, never one with a failed
\* segment, and reports a single outcome that is true.
UploadIntegrity ==
    /\ HandleTypeOK
    /\ PublishedComplete
    /\ PoisonNeverPublished
    /\ OneOutcome

\* A write or flush that returned Pending is woken (its waker is registered with
\* a task that ends), and commit() and abort() return.
CallsEnd ==
    /\ blocked ~> ~blocked
    /\ handle \in Awaits ~> handle = "closed"

\* An upload that ends without publishing leaves no pending object behind,
\* unless its last delete is lost or the owner drops the abort future.
CleanedUp == handle = "closed" ~> (object # "pending" \/ gaveUp)

\* poll_write, commit, abort and Drop: every future returns, and what was begun
\* is published or removed in the end.
UploadSettles ==
    /\ CallsEnd
    /\ CleanedUp

\* "Every later write, flush, shutdown and commit returns this error"
\* (UploadInner.failed).
FailureSticks ==
    last.poisoned /\ last.call \in {"write", "flush", "shutdown", "commit"} => ~last.ok
=============================================================================
