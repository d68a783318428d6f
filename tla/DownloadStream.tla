--------------------------- MODULE DownloadStream ---------------------------
(***************************************************************************)
(* Download of an object's range: the collection of segment answers        *)
(* (storj/src/project.rs, download_segments), the producer task that       *)
(* decrypts them one by one into a channel of one, and the Download handle *)
(* its owner reads, closes or drops (storj/src/upload.rs).                 *)
(*                                                                         *)
(* Segment i contributes sizes[i] units to the requested range (0 when it  *)
(* lies outside); a unit of plaintext is its position in the range.  The   *)
(* satellite may answer with incomplete lists, and a segment's data may be *)
(* missing, short or fail.                                                 *)
(***************************************************************************)
EXTENDS Integers, Sequences, FiniteSets, SequencesExt

CONSTANTS Ranges,   \* the objects and ranges: units of the range in each segment
          MaxRead,  \* bound: units one read may take
          FirstAnswers  \* bound: segment answers that come with DownloadObject

ASSUME DownloadStreamAssumption ==
    /\ Ranges \subseteq Seq(Nat)
    /\ MaxRead \in Nat \ {0}
    /\ FirstAnswers \in Nat

VARIABLES
    sizes,      \* units of the requested range in each segment
    stage,      \* listing and fetching answers, streaming, or past it
    listed,     \* segment_list: a prefix of the segments
    more,       \* list.more
    downloaded, \* segment answers, in order of arrival; sorted once streaming
    prod,       \* producer task: fetching, sending or done
    at,         \* index in downloaded of the segment the producer is at
    result,     \* what the producer holds to send
    chan,       \* the channel: at most one result
    rx,         \* the handle still holds the receiver
    buf,        \* Download.buf from Download.pos on
    remaining,  \* Download.remaining
    want,       \* units asked for by the read in progress, 0 when there is none
    complete,   \* Download.complete
    out,        \* units handed to the owner
    returned,   \* what the last read returned: data, eof, error or none
    failed,     \* history: some read returned an error
    events      \* terminal telemetry events

answers == <<listed, more, downloaded>>
producer == <<prod, at, result>>
handle == <<rx, buf, remaining, want, complete>>
owner == <<out, returned, failed>>
streamVars == <<sizes, stage, answers, producer, chan, handle, owner, events>>

Segments == 1..Len(sizes)

\* Where each of the segments begins in the range, and where the last one ends.
Offsets(z) ==
    LET start[i \in 1..(Len(z) + 1)] == IF i = 1 THEN 0 ELSE start[i - 1] + z[i - 1]
    IN start

Before(i) == Offsets(sizes)[i]
Total == Before(Len(sizes) + 1)
Data(i) == [u \in 1..sizes[i] |-> Before(i) + u]
All == [u \in 1..Total |-> u]

StreamInit ==
    /\ sizes \in Ranges
    /\ stage = "listing"
    /\ listed \in 0..Len(sizes)
    /\ more \in BOOLEAN
    /\ downloaded \in {s \in BoundedSeq(Segments, FirstAnswers) : IsInjective(s)}
    /\ prod = "none"
    /\ at = 1
    /\ result = <<>>
    /\ chan = <<>>
    /\ rx = FALSE
    /\ buf = <<>>
    /\ remaining = Total
    /\ want = 0
    /\ complete = FALSE
    /\ out = <<>>
    /\ returned = "none"
    /\ failed = FALSE
    /\ events = <<>>

-----------------------------------------------------------------------------
(* download_segments *)

\* The next page of the segment list.  An empty page ends the listing.
ListPage ==
    /\ stage = "listing"
    /\ more
    /\ listed' \in listed..Len(sizes)
    /\ more' \in IF listed' = listed THEN {FALSE} ELSE BOOLEAN
    /\ UNCHANGED <<sizes, stage, downloaded, producer, chan, handle, owner, events>>

\* Listed segments in the range that no answer covers yet.
ToFetch == {i \in 1..listed : sizes[i] > 0 /\ ~\E j \in DOMAIN downloaded : downloaded[j] = i}

\* DownloadSegment of the next such segment.
FetchAnswer ==
    /\ stage = "listing"
    /\ ~more
    /\ ToFetch # {}
    /\ downloaded' = Append(downloaded, CHOOSE i \in ToFetch : \A j \in ToFetch : i <= j)
    /\ UNCHANGED <<sizes, stage, listed, more, producer, chan, handle, owner, events>>

\* An RPC failed, or there is nothing to download: no handle is returned.
CallFails ==
    /\ stage = "listing"
    /\ more \/ ToFetch # {} \/ (downloaded = <<>> /\ Total > 0)
    /\ stage' = "closed"
    /\ UNCHANGED <<sizes, answers, producer, chan, handle, owner, events>>

\* The answers, each for a segment of its own, in the order of the segments.
Sorted(s) ==
    CHOOSE q \in [1..Cardinality(ToSet(s)) -> ToSet(s)] :
       ToSet(q) = ToSet(s) /\ \A i, j \in DOMAIN q : i < j => q[i] < q[j]

\* The producer is spawned and the handle returned.
Open ==
    /\ stage = "listing"
    /\ ~more
    /\ ToFetch = {}
    /\ downloaded # <<>>
    /\ Total > 0
    /\ downloaded' = Sorted(downloaded)
    /\ stage' = "open"
    /\ prod' = "fetching"
    /\ rx' = TRUE
    /\ UNCHANGED <<sizes, listed, more, at, result, chan, buf, remaining, want, complete, owner, events>>

\* An empty range needs no producer: with_telemetry finds it complete.
OpenEmpty ==
    /\ stage = "listing"
    /\ ~more
    /\ Total = 0
    /\ stage' = "open"
    /\ complete' = TRUE
    /\ UNCHANGED <<sizes, answers, producer, chan, rx, buf, remaining, want, owner, events>>

-----------------------------------------------------------------------------
(* The producer *)

Short(s) == SubSeq(s, 1, Len(s) - 1)

\* decrypt_one_segment returns: the data, too little of it (slice_plain clips
\* to what there is), or an error; a segment outside the range gives no data
\* and cannot fail.
Fetched ==
    /\ prod = "fetching"
    /\ at <= Len(downloaded)
    /\ prod' = "sending"
    /\ LET d == Data(downloaded[at]) IN
       result' \in IF d = <<>> THEN {[ok |-> TRUE, data |-> d]}
                   ELSE {[ok |-> TRUE, data |-> d], [ok |-> TRUE, data |-> Short(d)],
                         [ok |-> FALSE, data |-> <<>>]}
    /\ UNCHANGED <<sizes, stage, answers, at, chan, handle, owner, events>>

\* An error is the last thing sent.
AfterSend == IF result.ok THEN "fetching" ELSE "done"

\* tx.send: waits for room in the channel, fails when the receiver is gone.
Sent ==
    /\ prod = "sending"
    /\ \/ /\ rx
          /\ chan = <<>>
          /\ chan' = <<result>>
          /\ prod' = AfterSend
          /\ at' = at + 1
       \/ /\ ~rx
          /\ prod' = "done"
          /\ UNCHANGED <<chan, at>>
    /\ result' = <<>>
    /\ UNCHANGED <<sizes, stage, answers, handle, owner, events>>

\* Mutant: the sender outlives the producer.
ProducerFinishesHeld ==
    /\ prod = "fetching"
    /\ at > Len(downloaded)
    /\ UNCHANGED streamVars

\* The producer went through its segments.
ProducerFinishes ==
    /\ prod = "fetching"
    /\ at > Len(downloaded)
    /\ prod' = "done"
    /\ UNCHANGED <<sizes, stage, answers, at, result, chan, handle, owner, events>>

\* It panicked in a segment, or its runtime was shut down: the sender is
\* dropped without a word.
ProducerDies ==
    /\ prod = "fetching"
    /\ prod' = "done"
    /\ UNCHANGED <<sizes, stage, answers, at, result, chan, handle, owner, events>>

\* The abort of Download::cancel, which dropped the receiver too, takes effect
\* at the producer's next await.
ProducerAborted ==
    /\ prod \in {"fetching", "sending"}
    /\ ~rx
    /\ prod' = "done"
    /\ result' = <<>>
    /\ UNCHANGED <<sizes, stage, answers, at, chan, handle, owner, events>>

-----------------------------------------------------------------------------
(* The handle *)

\* The owner calls read with room for n units.
Read(n) ==
    /\ stage = "open"
    /\ want = 0
    /\ want' = n
    /\ UNCHANGED <<sizes, stage, answers, producer, chan, rx, buf, remaining, complete, owner, events>>

ReadReturns(what) ==
    /\ want' = 0
    /\ returned' = what
    /\ failed' = (failed \/ what = "error")

Finish(outcome) == events' = IF events = <<>> THEN <<outcome>> ELSE events

CompleteAfter(rest) == complete \/ (rest = <<>> /\ remaining = 0)

\* Units of the buffered segment are handed out.
Deliver ==
    /\ want > 0
    /\ buf # <<>>
    /\ LET n == IF want < Len(buf) THEN want ELSE Len(buf) IN
          /\ out' = out \o SubSeq(buf, 1, n)
          /\ buf' = SubSeq(buf, n + 1, Len(buf))
    /\ complete' = CompleteAfter(buf')
    /\ ReadReturns("data")
    /\ UNCHANGED <<sizes, stage, answers, producer, chan, rx, remaining, events>>

\* No receiver (an empty body, or after an error or the end): end of file.
ReadEnd ==
    /\ want > 0
    /\ buf = <<>>
    /\ ~rx
    /\ complete' = TRUE
    /\ ReadReturns("eof")
    /\ UNCHANGED <<sizes, stage, answers, producer, chan, rx, buf, remaining, out, events>>

\* A segment is taken from the channel and the read goes on with it.
Receive ==
    /\ want > 0
    /\ buf = <<>>
    /\ rx
    /\ chan # <<>>
    /\ chan[1].ok
    /\ buf' = chan[1].data
    /\ remaining' = remaining - Len(chan[1].data)
    /\ chan' = <<>>
    /\ UNCHANGED <<sizes, stage, answers, producer, rx, want, complete, owner, events>>

\* Mutant: neither the task nor the receiver is let go.
CancelNothing == UNCHANGED <<rx, chan>>

\* Download::cancel: the producer is aborted (ProducerAborted) and
\* the receiver dropped with what it holds.
Cancel == rx' = FALSE /\ chan' = <<>>

\* The producer's error.
ReceiveErr ==
    /\ want > 0
    /\ buf = <<>>
    /\ rx
    /\ chan # <<>>
    /\ ~chan[1].ok
    /\ Finish("error")
    /\ Cancel
    /\ ReadReturns("error")
    /\ UNCHANGED <<sizes, stage, answers, producer, buf, remaining, complete, out>>

\* Mutant: a closed channel is the end of the object.
MissingDataNever == FALSE

\* The producer is gone but not everything arrived.
MissingData == remaining # 0

\* The channel is closed and empty.
ReceiveNone ==
    /\ want > 0
    /\ buf = <<>>
    /\ rx
    /\ chan = <<>>
    /\ prod = "done"
    /\ Cancel
    /\ IF MissingData
       THEN Finish("error") /\ ReadReturns("error") /\ UNCHANGED complete
       ELSE complete' = TRUE /\ ReadReturns("eof") /\ UNCHANGED events
    /\ UNCHANGED <<sizes, stage, answers, producer, buf, remaining, out>>

DropOutcome == IF complete THEN "success" ELSE "cancelled"

\* Download::close, or Drop: the producer is cancelled and the outcome
\* reported.  A read in progress is dropped first.
Close ==
    /\ stage = "open"
    /\ stage' = "closed"
    /\ Cancel
    /\ want' = 0
    /\ Finish(DropOutcome)
    /\ UNCHANGED <<sizes, answers, producer, buf, remaining, complete, owner>>

Closed == stage = "closed" /\ prod \in {"none", "done"} /\ UNCHANGED streamVars

-----------------------------------------------------------------------------
StreamNext ==
    \/ ListPage
    \/ FetchAnswer
    \/ CallFails
    \/ Open
    \/ OpenEmpty
    \/ Fetched
    \/ Sent
    \/ ProducerFinishes
    \/ ProducerDies
    \/ ProducerAborted
    \/ \E n \in 1..MaxRead : Read(n)
    \/ Deliver
    \/ ReadEnd
    \/ Receive
    \/ ReceiveErr
    \/ ReceiveNone
    \/ Close
    \/ Closed

StreamSpec == StreamInit /\ [][StreamNext]_streamVars

ReadStep == Deliver \/ ReadEnd \/ Receive \/ ReceiveErr \/ ReceiveNone

\* The producer's transfers end and its task is polled, an abort takes effect,
\* and a pending read is woken by the channel.  The owner owes nothing.
StreamFairness ==
    /\ WF_streamVars(Fetched)
    /\ WF_streamVars(Sent)
    /\ WF_streamVars(ProducerFinishes)
    /\ WF_streamVars(ProducerAborted)
    /\ WF_streamVars(ReadStep)

FairStreamSpec == StreamSpec /\ StreamFairness

-----------------------------------------------------------------------------
(* Properties *)

\* End of file without an earlier error means the whole range was delivered,
\* whatever was missing from the satellite's lists, came short or died.
EofMeansAll == returned = "eof" /\ ~failed => out = All

\* What was delivered is in the order of the object and nothing is repeated,
\* in whatever order the answers came.
BytesInOrder == \A i \in 1..(Len(out) - 1) : out[i] < out[i + 1]

\* The reported outcome is honest: success only for a completely delivered
\* range, cancelled only for one that was not, an error only if a read said so.
OutcomeHonest ==
    /\ Len(events) <= 1
    /\ events = <<"success">> => out = All
    /\ events = <<"cancelled">> => out # All
    /\ events = <<"error">> => failed

\* A read always returns: the producer sends, fails or drops its end.
ReadAnswered == want > 0 ~> want = 0

\* Closing or dropping the handle stops the producer, also one that waits for
\* room in the channel.
CloseStops == stage = "closed" ~> prod \in {"none", "done"}

\* Decrypted segments in memory: the one being read, the one in the channel and
\* the one the producer waits to send.
Resident ==
    (IF buf # <<>> THEN 1 ELSE 0)
    + Cardinality({i \in DOMAIN chan : chan[i].data # <<>>})
    + (IF prod = "sending" THEN Cardinality({r \in {result} : r.data # <<>>}) ELSE 0)

\* poll_read, the producer and Transfer::finish: end of file, the order of the
\* bytes and the reported outcome are right, and the producer never runs further
\* ahead than the channel's slot and the segment it holds in its hands.
StreamSound ==
    /\ EofMeansAll
    /\ BytesInOrder
    /\ OutcomeHonest
    /\ Resident <= 3

\* "memory is bounded by about two segments" (Download, upload.rs): as the
\* code has it, a third one waits in the producer's hands for the channel's slot.
TwoSegments == Resident <= 2
=============================================================================
